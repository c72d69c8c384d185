----------------------------- MODULE MCDashboardRun -----------------------------
(***************************************************************************)
(* Small instances of DashboardRun.                                         *)
(***************************************************************************)
EXTENDS DashboardRun, MCScenarios

\* A backend before its restart: other powers and another window than MCLimits.
MCOtherLimits == { [maxCharge |-> 2 * PowerScale, maxDischarge |-> 1 * PowerScale,
                    minSoc |-> 0, maxSoc |-> 4] }

\* With an interval whose deficit the battery can supply within MCLimits.
MCDashboardScenarios ==
    LET intervals == MCIntervals \cup { [hours |-> 1, solar |-> 0, load |-> 2] }
    IN  [battery: MCBatteries, grid: MCGrids,
         steps: UNION { [1 .. n -> intervals] : n \in 1 .. 2 }]
=============================================================================
