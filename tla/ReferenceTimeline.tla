--------------------------- MODULE ReferenceTimeline ---------------------------
(***************************************************************************)
(* The battery-first reference strategy: SimulationScenarioRunner creates    *)
(* fresh components and runs every interval of the scenario to completion,   *)
(* first the battery, then the grid for what remains.  Nothing outside takes *)
(* part in it, so an interval is one step.                                   *)
(***************************************************************************)
EXTENDS Plant

VARIABLES
    scenario,               \* the scenario of this run
    elapsed,                \* elapsed_time_hours
    soc,                    \* battery.state_of_charge_kwh
    results,                \* the intervals recorded so far
    outcome                 \* "none", "result" or "ValueError"

vars == <<scenario, elapsed, soc, results, outcome>>

Init ==
    /\ scenario \in Scenarios
    /\ elapsed = 0
    /\ soc = scenario.battery.soc
    /\ results = <<>>
    /\ outcome = "none"

Totals == IF results = <<>> THEN NoTotals ELSE results[Len(results)].totals

\* Mutant: a deficit goes straight to the grid.
DispatchedSurplusOnly(net) ==
    IF net > 0 THEN ChargeAccepted(scenario.battery.capacity, soc, Surplus(net)) ELSE 0

\* What the battery takes of a surplus or gives to a deficit.
Dispatched(net) ==
    IF net > 0 THEN ChargeAccepted(scenario.battery.capacity, soc, Surplus(net))
    ELSE IF net < 0 THEN DischargeDelivered(soc, Deficit(net))
    ELSE 0

\* One interval of EnergyManagementService, with the measurement made of it.
Managed(interval) ==
    LET net == NetEnergy(Generated(interval), Consumed(interval))
        dispatched == Dispatched(net)
        remaining == Remaining(Magnitude(net), dispatched)
        maxPower == IF net > 0 THEN scenario.grid.maxExport ELSE scenario.grid.maxImport
        transferred == IF remaining > 0
                       THEN Transferred(scenario.grid.available, maxPower,
                                        remaining, interval.hours)
                       ELSE 0
        unresolved == Remaining(remaining, transferred)
        when(condition, energy) == IF condition THEN energy ELSE 0
        after == soc + when(net > 0, dispatched) - when(net < 0, dispatched)
        imported == when(net < 0, transferred)
        exported == when(net > 0, transferred)
    IN  [measurement |->
            [step |-> Len(results) + 1, elapsed |-> elapsed + interval.hours,
             hours |-> interval.hours, generated |-> Generated(interval),
             consumed |-> Consumed(interval), net |-> net, soc |-> after,
             imported |-> imported, exported |-> exported, unresolved |-> unresolved],
         charged    |-> when(net > 0, dispatched),
         discharged |-> when(net < 0, dispatched),
         after      |-> after,
         imported   |-> imported,
         exported   |-> exported,
         curtailed  |-> when(net > 0, unresolved),
         unserved   |-> when(net < 0, unresolved)]

RunInterval ==
    /\ outcome = "none"
    /\ Len(results) < Len(scenario.steps)
    /\ LET managed == Managed(scenario.steps[Len(results) + 1])
       IN  /\ soc' = managed.after
           /\ elapsed' = managed.measurement.elapsed
           /\ IF SnapshotValid(managed.measurement)
              THEN /\ results' = Append(results, [step |-> managed,
                                                 totals |-> AddStep(Totals, managed)])
                   /\ UNCHANGED outcome
              ELSE outcome' = "ValueError" /\ UNCHANGED results
    /\ UNCHANGED scenario

Return ==
    /\ outcome = "none"
    /\ Len(results) = Len(scenario.steps)
    /\ outcome' = "result"
    /\ UNCHANGED <<scenario, elapsed, soc, results>>

Next == RunInterval \/ Return

Spec == Init /\ [][Next]_vars /\ WF_vars(Next)

-----------------------------------------------------------------------------

ManagedStep ==
    [measurement: Measured, charged: Nat, discharged: Nat, after: Nat,
     imported: Nat, exported: Nat, curtailed: Nat, unserved: Nat]

\* The type invariant; the battery stays between empty and full.
TypeOK ==
    /\ scenario \in Scenarios
    /\ elapsed \in Nat
    /\ soc \in 0 .. scenario.battery.capacity
    /\ results \in Seq([step: ManagedStep, totals: RunningTotals])
    /\ Len(results) <= Len(scenario.steps)
    /\ outcome \in {"none", "result", "ValueError"}

\* The reference keeps the same contract as the controller loop.
Ledger == INSTANCE EnergyLedger WITH
    Slack    <- ConservationTolerance,
    capacity <- scenario.battery.capacity,
    planned  <- Len(scenario.steps),
    closed   <- Len(results),
    stored   <- soc,
    supplied <- Totals.generated + Totals.imported + Totals.unserved,
    used     <- Totals.consumed + Totals.exported + Totals.curtailed,
    status   <- CASE outcome = "none"   -> "running"
                  [] outcome = "result" -> "complete"
                  [] OTHER              -> "aborted"

\* Every step of the reference is a step the ledger allows.
KeepsLedger == Ledger!Spec

=============================================================================
