---------------------------- MODULE MCNativeGateway ----------------------------
(***************************************************************************)
(* Small instances of NativeGateway.                                        *)
(***************************************************************************)
EXTENDS NativeGateway, TLC

\* A message that just fits the buffer and one that just does not.
MCMessageBytes == ("interval" :> BufferSize - 1) @@ ("net" :> BufferSize)
=============================================================================
