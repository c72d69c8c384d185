----------------------------- MODULE ControllerLoop -----------------------------
(***************************************************************************)
(* One run of ControllerInTheLoopRunner: for every interval of a scenario    *)
(* the plant is measured, a decision provider is asked, and the decision is  *)
(* applied to the battery and then to the grid.  The run is sequential, but  *)
(* it waits for the provider in the middle of every interval: the provider   *)
(* is a network client, which may fail, answer for another step, or return   *)
(* an action this program does not know.                                     *)
(*                                                                          *)
(* ClosedLoop is the run with the C++ controller behind the client; OpenLoop *)
(* is the run with any provider at all ("Anything that decides for a         *)
(* measurement" in the source), from which the plant must protect itself.    *)
(***************************************************************************)
EXTENDS EnergyController, Plant

CONSTANTS
    Limits,                 \* the limits the controller was created with
    WireDecisions,          \* the decisions an arbitrary provider may return
    UnknownActions          \* action names this program does not know

\* A decision as it arrives: any action name, and a power of either sign, or none.
WireDecision ==
    [step: Nat, action: ControlAction \cup UnknownActions, power: Int \cup {NaN}]

ASSUME LoopAssumption ==
    /\ Limits \in [maxCharge: Nat, maxDischarge: Nat, minSoc: Nat, maxSoc: Nat]
    /\ LimitsValid(Limits)
    /\ WireDecisions \subseteq WireDecision
    /\ UnknownActions \cap ControlAction = {}

VARIABLES
    scenario,               \* the scenario of this run
    pc,                     \* "measure", "await", "apply" or "ended"
    elapsed,                \* elapsed_time_hours
    soc,                    \* battery.state_of_charge_kwh
    measurement,            \* the measurement the provider was asked about
    decision,               \* its answer
    steps,                  \* the LoopSteps recorded so far
    outcome                 \* "none", "result", or the exception that ended the run

vars == <<scenario, pc, elapsed, soc, measurement, decision, steps, outcome>>

NoMeasurement == [step |-> 0, elapsed |-> 0, hours |-> 0, generated |-> 0,
                  consumed |-> 0, net |-> 0, soc |-> 0, imported |-> 0,
                  exported |-> 0, unresolved |-> 0]
NoDecision == [step |-> 0, action |-> "Idle", power |-> 0]

\* The sums LoopResult computes over the recorded steps, kept as they grow.
Totals == IF steps = <<>> THEN NoTotals ELSE steps[Len(steps)].totals

Init ==
    /\ scenario \in Scenarios
    /\ pc = "measure"
    /\ elapsed = 0
    /\ soc = scenario.battery.soc
    /\ measurement = NoMeasurement
    /\ decision = NoDecision
    /\ steps = <<>>
    /\ outcome = "none"

\* An exception leaves the run: no result, and the battery object is dropped.
Raise(exception) ==
    /\ pc' = "ended"
    /\ outcome' = exception

-----------------------------------------------------------------------------
(* The first half of an interval, up to the call of the provider.            *)

MeasurementOf(interval) ==
    LET generated == Generated(interval)
        consumed == Consumed(interval)
    IN  [step |-> Len(steps) + 1, elapsed |-> elapsed + interval.hours,
         hours |-> interval.hours, generated |-> generated, consumed |-> consumed,
         net |-> NetEnergy(generated, consumed), soc |-> soc,
         imported |-> 0, exported |-> 0, unresolved |-> 0]

Measure ==
    /\ pc = "measure"
    /\ Len(steps) < Len(scenario.steps)
    /\ LET m == MeasurementOf(scenario.steps[Len(steps) + 1])
       IN  /\ elapsed' = m.elapsed
           /\ IF SnapshotValid(m)
              THEN measurement' = m /\ pc' = "await" /\ UNCHANGED outcome
              ELSE Raise("ValueError") /\ UNCHANGED measurement
    /\ UNCHANGED <<scenario, soc, decision, steps>>

-----------------------------------------------------------------------------
(* The provider.  ControlApiClient refuses an answer for another step.       *)

\* Mutant: the answer is not compared with the step that was asked about.
AnswerUnchecked(d) ==
    /\ pc = "await"
    /\ decision' = d
    /\ pc' = "apply"
    /\ UNCHANGED <<scenario, elapsed, soc, measurement, steps, outcome>>

Answer(d) ==
    /\ pc = "await"
    /\ \/ d.step = measurement.step /\ decision' = d /\ pc' = "apply" /\ UNCHANGED outcome
       \/ d.step # measurement.step /\ Raise("ControlApiError") /\ UNCHANGED decision
    /\ UNCHANGED <<scenario, elapsed, soc, measurement, steps>>

\* Unreachable, timed out, answered with an error status or a malformed body; or an
\* exception that nothing turns into a ControlApiError: a body that ends early, an error
\* answer that cannot be read, a step number that is infinite.
ProviderFails ==
    /\ pc = "await"
    /\ \E exception \in {"ControlApiError", "OtherError"} : Raise(exception)
    /\ UNCHANGED <<scenario, elapsed, soc, measurement, decision, steps>>

\* The controller behind the client.  It refuses an invalid measurement (HTTP
\* 400) and fails on an invalid command (HTTP 500): both are a ControlApiError
\* that carries the status.
ControllerAnswers ==
    LET command == Decide(Limits, measurement)
    IN  IF MeasurementAccepted(measurement) /\ CommandValid(command)
        THEN Answer(command)
        ELSE /\ pc = "await"
             /\ Raise("ControlApiStatusError")
             /\ UNCHANGED <<scenario, elapsed, soc, measurement, decision, steps>>

-----------------------------------------------------------------------------
(* The second half: the plant applies the decision within what is            *)
(* physically available and gives the remainder to the grid.                 *)

KnownAction == ControlAction

\* The battery would be moved by a power that is not a number.
NotANumber ==
    decision.action \in {"ChargeBattery", "DischargeBattery"} /\ decision.power = NaN

Requested == EnergyOver(Greatest(decision.power, 0), measurement.hours)

Charged ==
    IF decision.action = "ChargeBattery"
    THEN ChargeAccepted(scenario.battery.capacity, soc,
                        Least(Requested, Surplus(measurement.net)))
    ELSE 0

Discharged ==
    IF decision.action = "DischargeBattery"
    THEN DischargeDelivered(soc, Least(Requested, Deficit(measurement.net)))
    ELSE 0

\* Mutant: the grid covers whatever the battery was told to do.
LoopStepTrading ==
    LET c == IF decision.action = "ChargeBattery"
             THEN ChargeAccepted(scenario.battery.capacity, soc, Requested) ELSE 0
        d == IF decision.action = "DischargeBattery"
             THEN DischargeDelivered(soc, Requested) ELSE 0
        left == measurement.net - c + d
    IN  [measurement |-> measurement, decision |-> decision,
         charged |-> c, discharged |-> d, after |-> soc + c - d,
         imported |-> Greatest(-left, 0), exported |-> Greatest(left, 0),
         curtailed |-> 0, unserved |-> 0]

\* The interval as the run records it, without the running sums.
LoopStep ==
    LET grid == scenario.grid
        hours == measurement.hours
        surplus == Surplus(measurement.net) - Charged
        deficit == Deficit(measurement.net) - Discharged
        exported == Transferred(grid.available, grid.maxExport, surplus, hours)
        imported == Transferred(grid.available, grid.maxImport, deficit, hours)
    IN  [measurement |-> measurement,
         decision    |-> decision,
         charged     |-> Charged,
         discharged  |-> Discharged,
         after       |-> soc + Charged - Discharged,
         imported    |-> IF deficit > 0 THEN imported ELSE 0,
         exported    |-> IF surplus > 0 THEN exported ELSE 0,
         curtailed   |-> IF surplus > 0 THEN Remaining(surplus, exported) ELSE 0,
         unserved    |-> IF deficit > 0 THEN Remaining(deficit, imported) ELSE 0]

Sources(s) == s.measurement.generated + s.discharged + s.imported + s.unserved
Sinks(s) == s.measurement.consumed + s.charged + s.exported + s.curtailed

Conserved(s) == Magnitude(Sources(s) - Sinks(s)) <= ConservationTolerance

\* The battery has moved by the time the books are checked.
Apply ==
    /\ pc = "apply"
    /\ decision.action \in KnownAction
    /\ ~NotANumber
    /\ soc' = LoopStep.after
    /\ IF Conserved(LoopStep)
       THEN /\ steps' = Append(steps, [step |-> LoopStep,
                                      totals |-> AddStep(Totals, LoopStep)])
            /\ pc' = "measure"
            /\ UNCHANGED outcome
       ELSE Raise("AssertionError") /\ UNCHANGED steps
    /\ UNCHANGED <<scenario, elapsed, measurement, decision>>

\* min and max hand the NaN on, the state of charge and the sums become NaN, and the
\* check finds sources and sinks that are not close.  The battery goes with the run,
\* and what it held is not kept.
ApplyNotANumber ==
    /\ pc = "apply"
    /\ NotANumber
    /\ Raise("AssertionError")
    /\ UNCHANGED <<scenario, elapsed, soc, measurement, decision, steps>>

\* An action this program does not know is refused before anything moves.
RefuseAction ==
    /\ pc = "apply"
    /\ decision.action \notin KnownAction
    /\ Raise("ControlApiError")
    /\ UNCHANGED <<scenario, elapsed, soc, measurement, decision, steps>>

\* Mutants: a result is returned half way; the last interval is missed.
ReturnAnytime ==
    /\ pc = "measure"
    /\ pc' = "ended"
    /\ outcome' = "result"
    /\ UNCHANGED <<scenario, elapsed, soc, measurement, decision, steps>>

ReturnNever ==
    /\ pc = "measure"
    /\ Len(steps) > Len(scenario.steps)
    /\ pc' = "ended"
    /\ outcome' = "result"
    /\ UNCHANGED <<scenario, elapsed, soc, measurement, decision, steps>>

Return ==
    /\ pc = "measure"
    /\ Len(steps) = Len(scenario.steps)
    /\ pc' = "ended"
    /\ outcome' = "result"
    /\ UNCHANGED <<scenario, elapsed, soc, measurement, decision, steps>>

-----------------------------------------------------------------------------

PlantStep == Measure \/ Apply \/ Return

ProviderStep == ProviderFails \/ \E d \in WireDecisions : Answer(d)

OpenNext == PlantStep \/ RefuseAction \/ ApplyNotANumber \/ ProviderStep
OpenLoop == Init /\ [][OpenNext]_vars

\* The C++ rule names only actions this program knows and powers that are numbers.
ClosedNext == PlantStep \/ ControllerAnswers \/ ProviderFails

\* The runner is one thread that runs to its end, and every request has a
\* timeout, so a pending answer arrives or fails.
ClosedLoop == Init /\ [][ClosedNext]_vars /\ WF_vars(ClosedNext)

-----------------------------------------------------------------------------
(* Correctness, whatever the provider answers (OpenLoop).                    *)

RecordedStep ==
    [measurement: Measured,
     decision: [step: Nat, action: KnownAction, power: Int \cup {NaN}],
     charged: Nat, discharged: Nat, after: Nat,
     imported: Nat, exported: Nat, curtailed: Nat, unserved: Nat]

Outcome ==
    {"none", "result", "ValueError", "AssertionError",
     "ControlApiError", "ControlApiStatusError", "OtherError"}

\* The type invariant.  It holds the battery between empty and full, so no
\* decision, however wrong, overcharges it or takes what it does not store.
TypeOK ==
    /\ scenario \in Scenarios
    /\ pc \in {"measure", "await", "apply", "ended"}
    /\ elapsed \in Nat
    /\ soc \in 0 .. scenario.battery.capacity
    /\ measurement \in Measured
    /\ decision \in WireDecision
    /\ steps \in Seq([step: RecordedStep, totals: RunningTotals])
    /\ outcome \in Outcome

\* The books balance over the whole run: the check that ends a run with an
\* AssertionError fires only for an answer that is not a number, before anything of it
\* is recorded, and what is in the battery is what the recorded intervals put in and
\* took out of it.
BooksBalance ==
    /\ outcome = "AssertionError" => NotANumber
    /\ soc = scenario.battery.soc + Totals.charged - Totals.discharged

\* "Only surplus can be stored, only deficit is supplied": no interval that
\* stores, exports or curtails energy also discharges, imports or goes short, so
\* the battery is never charged from the grid or emptied into it, even when the
\* provider asks for that.
NoCounterflow ==
    \A i \in 1 .. Len(steps) :
        LET s == steps[i].step
        IN  \/ s.charged = 0 /\ s.exported = 0 /\ s.curtailed = 0
            \/ s.discharged = 0 /\ s.imported = 0 /\ s.unserved = 0

\* The record is one unbroken story: step i is interval i of the scenario,
\* answered by a decision for step i, and starts with the state of charge and at
\* the time at which step i - 1 ended.  A late or foreign answer is never applied.
StepsInOrder ==
    \A i \in 1 .. Len(steps) :
        LET s == steps[i].step
            m == s.measurement
        IN  /\ m.step = i
            /\ s.decision.step = i
            /\ m.hours = scenario.steps[i].hours
            /\ m.generated = Generated(scenario.steps[i])
            /\ m.consumed = Consumed(scenario.steps[i])
            /\ m.soc = IF i = 1 THEN scenario.battery.soc ELSE steps[i - 1].step.after
            /\ m.elapsed = m.hours +
                 (IF i = 1 THEN 0 ELSE steps[i - 1].step.measurement.elapsed)

\* There is a result exactly when every interval of the scenario was applied; a
\* run that fails half way returns nothing.
ResultIsComplete ==
    /\ outcome = "result" => Len(steps) = Len(scenario.steps)
    /\ (outcome = "none") <=> (pc # "ended")

\* What links the halves of an interval: the pending measurement is that of the next
\* interval and of the present battery, an accepted decision is for it, and between
\* intervals the clock stands where the last record ends.
PhaseOK ==
    /\ Len(steps) <= Len(scenario.steps)
    /\ pc \in {"await", "apply"} =>
        LET interval == scenario.steps[Len(steps) + 1]
            m == measurement
        IN  /\ Len(steps) < Len(scenario.steps)
            /\ m.step = Len(steps) + 1
            /\ m.hours = interval.hours
            /\ m.generated = Generated(interval)
            /\ m.consumed = Consumed(interval)
            /\ m.net = NetEnergy(m.generated, m.consumed)
            /\ m.soc = soc
            /\ m.elapsed = elapsed
            /\ m.elapsed = m.hours +
                 (IF steps = <<>> THEN 0 ELSE steps[Len(steps)].step.measurement.elapsed)
    /\ pc = "apply" => decision.step = measurement.step
    /\ pc = "measure" =>
        elapsed = IF steps = <<>> THEN 0 ELSE steps[Len(steps)].step.measurement.elapsed

\* Both kinds of run keep the contract of the ledger.
Ledger == INSTANCE EnergyLedger WITH
    Slack    <- ConservationTolerance,
    capacity <- scenario.battery.capacity,
    planned  <- Len(scenario.steps),
    closed   <- Len(steps),
    stored   <- soc,
    supplied <- Totals.generated + Totals.imported + Totals.unserved,
    used     <- Totals.consumed + Totals.exported + Totals.curtailed,
    status   <- CASE outcome = "none"   -> "running"
                  [] outcome = "result" -> "complete"
                  [] OTHER              -> "aborted"

\* Every step of a run is a step the ledger allows.
KeepsLedger == Ledger!Spec

-----------------------------------------------------------------------------
(* Correctness with the C++ controller in the loop (ClosedLoop).             *)

\* The controller never moves the state of charge further out of its window: it
\* charges only up to maxSoc and discharges only down to minSoc, also when a
\* scenario starts outside the window.
WindowRespected ==
    [][ /\ soc' > soc => soc' <= Limits.maxSoc
        /\ soc' < soc => soc' >= Limits.minSoc ]_vars

\* Energy goes to or comes from outside only when the battery could not help: it
\* is at the edge of the window, or its power limit was used in full.
NothingLeftUnused ==
    \A i \in 1 .. Len(steps) :
        LET s == steps[i].step
            hours == s.measurement.hours
        IN  /\ s.imported + s.unserved > 0 =>
                 \/ s.after <= Limits.minSoc
                 \/ s.discharged = EnergyOver(Limits.maxDischarge, hours)
            /\ s.exported + s.curtailed > 0 =>
                 \/ s.after >= Least(Limits.maxSoc, scenario.battery.capacity)
                 \/ s.charged = EnergyOver(Limits.maxCharge, hours)

\* With a window inside the battery, the plant carries out each decision in full:
\* what the controller allowed for is what the battery then did.
AppliedAsDecided ==
    Limits.maxSoc <= scenario.battery.capacity =>
        \A i \in 1 .. Len(steps) :
            LET s == steps[i].step
            IN  s.charged + s.discharged =
                    EnergyOver(s.decision.power, s.measurement.hours)

\* The plant never sends a measurement that it or the controller refuses, and the
\* controller never fails on one it accepted.
NeverRefused == outcome \notin {"ValueError", "ControlApiStatusError"}

\* The run ends, with a result or an exception.
RunEnds == <>(pc = "ended")

=============================================================================
