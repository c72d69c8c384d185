------------------------- MODULE MCDecisionStatistics -------------------------
(***************************************************************************)
(* A small instance of DecisionStatistics: two of the five actions, which   *)
(* is enough for a snapshot to be overtaken between two counts.             *)
(***************************************************************************)
EXTENDS DecisionStatistics, TLC

MCActionOrder == <<"ChargeBattery", "Idle">>

RecorderSymmetry == Permutations(Recorders)
=============================================================================
