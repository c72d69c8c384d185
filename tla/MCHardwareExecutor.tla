------------------------- MODULE MCHardwareExecutor -------------------------
(* HardwareExecutor for TLC: two requested powers, so that a setpoint left over *)
(* from an earlier command can be told from the one a command asks for.         *)
EXTENDS HardwareExecutor

=============================================================================
