---------------------------- MODULE MCControllerLoop ----------------------------
(***************************************************************************)
(* Small instances of ControllerLoop.                                       *)
(***************************************************************************)
EXTENDS ControllerLoop, MCScenarios
=============================================================================
