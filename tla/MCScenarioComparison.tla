-------------------------- MODULE MCScenarioComparison --------------------------
(***************************************************************************)
(* Small instances of ScenarioComparison.                                   *)
(***************************************************************************)
EXTENDS ScenarioComparison, MCScenarios
=============================================================================
