------------------------------ MODULE MCScenarios ------------------------------
(***************************************************************************)
(* Small scenarios and controller limits, in quanta of energy.               *)
(***************************************************************************)
EXTENDS EnergyUnits

\* Net energies of +4, +2 (slowly, over two hours), +1 (within the tolerance),
\* 0, -3 and -4: more and less than the battery, its power and the grid can take.
MCIntervals ==
    { [hours |-> 1, solar |-> 4, load |-> 0],
      [hours |-> 2, solar |-> 2, load |-> 1],
      [hours |-> 1, solar |-> 2, load |-> 1],
      [hours |-> 1, solar |-> 0, load |-> 3],
      [hours |-> 2, solar |-> 0, load |-> 2] }

\* A grid that takes little, one that takes everything, and an outage.
MCGrids ==
    { [maxImport |-> 2, maxExport |-> 1 * PowerScale, available |-> TRUE],
      [maxImport |-> 9 * PowerScale, maxExport |-> 9 * PowerScale, available |-> TRUE],
      [maxImport |-> 2, maxExport |-> 2, available |-> FALSE] }

MCBatteries == { [capacity |-> 4, soc |-> c] : c \in {0, 2, 4} }

ScenariosOf(length) ==
    [battery: MCBatteries, grid: MCGrids,
     steps: UNION { [1 .. n -> MCIntervals] : n \in 1 .. length }]

LongScenarios == ScenariosOf(3)

\* All of up to two intervals, and those of three that fill and empty the battery.
MixedScenarios ==
    ScenariosOf(2) \cup
        [battery: MCBatteries, grid: MCGrids,
         steps: [1 .. 3 -> {i \in MCIntervals : i.solar = 4 \/ i.load >= 2}]]

\* A window strictly inside the battery: scenarios start below, in and above it.
MCLimits == [maxCharge |-> 1 * PowerScale, maxDischarge |-> 2 * PowerScale,
             minSoc |-> 1, maxSoc |-> 3]

\* A window wider than the battery, and power limits that never bind.
WideLimits == [maxCharge |-> 9 * PowerScale, maxDischarge |-> 9 * PowerScale,
               minSoc |-> 0, maxSoc |-> 6]

\* Answers of the right and the wrong step, with negative, small and huge power or none.
MCWireDecisions ==
    [step: {1, 2}, action: {"Idle", "ChargeBattery", "DischargeBattery", "Boost"},
     power: {-2, 2, 20, NaN}]
=============================================================================
