-------------------------- MODULE ControllerLoopProofs --------------------------
(***************************************************************************)
(* Proofs about ControllerLoop: the arithmetic of EnergyUnits and the        *)
(* operators of Plant first, then the runs.  Each action has one lemma per   *)
(* invariant it can disturb; the theorems for OpenLoop and ClosedLoop        *)
(* combine them.                                                             *)
(***************************************************************************)
EXTENDS ControllerLoop, TLAPS

\* A product of naturals is a natural.
LEMMA ProductNat ==
    ASSUME NEW a \in Nat, NEW b \in Nat
    PROVE  a * b \in Nat
  OBVIOUS

\* A whole multiple divides exactly.
LEMMA ExactQuotient ==
    ASSUME NEW a \in Int, NEW b \in Nat \ {0}
    PROVE  (a * b) \div b = a
  OBVIOUS

\* Division keeps naturals natural.
LEMMA QuotientNat ==
    ASSUME NEW a \in Nat, NEW b \in Nat \ {0}
    PROVE  a \div b \in Nat
  OBVIOUS

\* Multiplication and division by a natural keep the order.
LEMMA ProductMonotone ==
    ASSUME NEW a \in Int, NEW b \in Int, NEW c \in Nat, a <= b
    PROVE  a * c <= b * c
  OBVIOUS

LEMMA QuotientMonotone ==
    ASSUME NEW a \in Int, NEW b \in Int, NEW c \in Nat \ {0}, a <= b
    PROVE  a \div c <= b \div c
  OBVIOUS

-----------------------------------------------------------------------------

\* The energy a power moves is a natural.
LEMMA EnergyOverNat ==
    ASSUME NEW power \in Nat, NEW hours \in Nat
    PROVE  EnergyOver(power, hours) \in Nat
  BY UnitsAssumption, ProductNat, QuotientNat DEF EnergyOver

\* A larger power moves no less energy.
LEMMA EnergyOverMonotone ==
    ASSUME NEW p \in Int, NEW q \in Int, NEW hours \in Nat, p <= q
    PROVE  EnergyOver(p, hours) <= EnergyOver(q, hours)
  <1>1. p * hours \in Int /\ q * hours \in Int
    OBVIOUS
  <1>2. p * hours <= q * hours
    BY ProductMonotone
  <1> QED
    BY <1>1, <1>2, UnitsAssumption, QuotientMonotone DEF EnergyOver

\* The energy of the power that moves an energy is that energy: the division of
\* the controller and the multiplication of the plant undo each other.
LEMMA PowerRoundTrip ==
    ASSUME NEW energy \in Nat, NEW hours, ExactDuration(hours)
    PROVE  /\ PowerOver(energy, hours) \in Nat
           /\ EnergyOver(PowerOver(energy, hours), hours) = energy
  <1>1. PICK k \in 1 .. PowerScale : PowerScale = hours * k
    BY DEF ExactDuration
  <1>2. hours \in Nat \ {0} /\ k \in Nat /\ PowerScale \in Nat \ {0}
    BY UnitsAssumption DEF ExactDuration
  <1>3. energy * k \in Nat
    BY <1>2, ProductNat
  <1>4. energy * PowerScale = (energy * k) * hours
    BY <1>1, <1>2
  <1>5. PowerOver(energy, hours) = energy * k
    BY <1>2, <1>3, <1>4, ExactQuotient DEF PowerOver
  <1>6. (energy * k) * hours = energy * PowerScale
    BY <1>4
  <1>7. EnergyOver(energy * k, hours) = energy
    BY <1>2, <1>6, ExactQuotient DEF EnergyOver
  <1> QED
    BY <1>3, <1>5, <1>7

\* What a power no larger than PowerOver(energy) moves is at most that energy.
LEMMA LimitedEnergy ==
    ASSUME NEW energy \in Nat, NEW hours, ExactDuration(hours),
           NEW power \in Nat, power <= PowerOver(energy, hours)
    PROVE  EnergyOver(power, hours) <= energy
  <1>1. PowerOver(energy, hours) \in Nat /\ hours \in Nat
    BY PowerRoundTrip DEF ExactDuration
  <1> QED
    BY <1>1, EnergyOverMonotone, PowerRoundTrip

-----------------------------------------------------------------------------

\* An interval generates and consumes naturals, off by at most the tolerance from
\* the net energy the balance reports.
LEMMA BalanceOfInterval ==
    ASSUME NEW interval \in Interval
    PROVE  LET g == Generated(interval)
               c == Consumed(interval)
               net == NetEnergy(g, c)
           IN  /\ g \in Nat /\ c \in Nat /\ net \in Int
               /\ (g - c) - net \in -BalanceTolerance .. BalanceTolerance
  <1>1. Generated(interval) \in Nat /\ Consumed(interval) \in Nat
    BY ProductNat DEF Generated, Consumed, Interval
  <1> QED
    BY <1>1, UnitsAssumption DEF NetEnergy, Magnitude

\* What is transferred and what remains share out a request.
LEMMA TransferSplits ==
    ASSUME NEW available \in BOOLEAN, NEW maxPower \in Nat,
           NEW requested \in Nat, NEW hours \in Nat
    PROVE  LET t == Transferred(available, maxPower, requested, hours)
           IN  /\ t \in Nat /\ Remaining(requested, t) \in Nat
               /\ t + Remaining(requested, t) = requested
  <1>1. EnergyOver(maxPower, hours) \in Nat
    BY EnergyOverNat
  <1> QED
    BY <1>1 DEF Transferred, Remaining, Least, Greatest

-----------------------------------------------------------------------------

\* A scenario's parts, as the provers need them.
LEMMA ScenarioParts ==
    ASSUME NEW s \in Scenarios
    PROVE  /\ s.battery.capacity \in Nat \ {0}
           /\ s.battery.soc \in 0 .. s.battery.capacity
           /\ s.grid.available \in BOOLEAN
           /\ s.grid.maxImport \in Nat
           /\ s.grid.maxExport \in Nat
           /\ s.steps \in Seq(Interval)
           /\ Len(s.steps) \in Nat \ {0}
           /\ \A i \in 1 .. Len(s.steps) :
                /\ s.steps[i] \in Interval
                /\ ExactDuration(s.steps[i].hours)
  BY ScenariosAssumption DEF ScenarioValid, BatteryValid, Battery, Grid

-----------------------------------------------------------------------------
(* What one interval does.                                                   *)

\* What the plant makes of a decision, whatever it is: the battery stays in range,
\* and the surplus and the deficit are shared out completely.
LEMMA LoopStepSound ==
    ASSUME TypeOK, decision.action \in KnownAction, ~NotANumber
    PROVE  /\ LoopStep \in RecordedStep
           /\ LoopStep.measurement = measurement
           /\ LoopStep.decision = decision
           /\ LoopStep.after \in 0 .. scenario.battery.capacity
           /\ LoopStep.after = soc + LoopStep.charged - LoopStep.discharged
           /\ LoopStep.charged + LoopStep.exported + LoopStep.curtailed
                = Surplus(measurement.net)
           /\ LoopStep.discharged + LoopStep.imported + LoopStep.unserved
                = Deficit(measurement.net)
  <1> DEFINE surplus == Surplus(measurement.net) - Charged
             deficit == Deficit(measurement.net) - Discharged
             hours == measurement.hours
             grid == scenario.grid
             exported == Transferred(grid.available, grid.maxExport, surplus, hours)
             imported == Transferred(grid.available, grid.maxImport, deficit, hours)
  <1>1. /\ scenario.battery.capacity \in Nat
        /\ grid.available \in BOOLEAN
        /\ grid.maxImport \in Nat /\ grid.maxExport \in Nat
    BY ScenarioParts DEF TypeOK
  <1>2. /\ measurement \in Measured
        /\ measurement.net \in Int /\ hours \in Nat
        /\ soc \in 0 .. scenario.battery.capacity
        /\ decision.step \in Nat /\ decision.power \in Int \cup {NaN}
        /\ decision = [step |-> decision.step, action |-> decision.action,
                        power |-> decision.power]
    BY DEF TypeOK, Measured, WireDecision
  <1>3. Surplus(measurement.net) \in Nat /\ Deficit(measurement.net) \in Nat
    BY <1>2 DEF Surplus, Deficit, Greatest
  <1>4. ASSUME decision.action \in {"ChargeBattery", "DischargeBattery"}
        PROVE  Requested \in Nat
    <2>1. Greatest(decision.power, 0) \in Nat
      BY <1>2, <1>4 DEF Greatest, NotANumber
    <2>2. EnergyOver(Greatest(decision.power, 0), measurement.hours) \in Nat
      BY <1>2, <2>1, EnergyOverNat
    <2> QED  BY <2>2 DEF Requested
  <1>5. /\ Charged \in Nat /\ Charged <= Surplus(measurement.net)
        /\ Charged <= scenario.battery.capacity - soc
    BY <1>1, <1>2, <1>3, <1>4 DEF Charged, ChargeAccepted, Least
  <1>6. /\ Discharged \in Nat /\ Discharged <= Deficit(measurement.net)
        /\ Discharged <= soc
    BY <1>1, <1>2, <1>3, <1>4 DEF Discharged, DischargeDelivered, Least
  <1>7. Charged = 0 \/ Discharged = 0
    BY DEF Charged, Discharged
  <1>8. surplus \in Nat /\ deficit \in Nat
    BY <1>3, <1>5, <1>6
  <1>9. /\ exported \in Nat /\ Remaining(surplus, exported) \in Nat
        /\ exported + Remaining(surplus, exported) = surplus
    <2> HIDE DEF surplus, hours
    <2> QED  BY <1>1, <1>2, <1>8, TransferSplits
  <1>10. /\ imported \in Nat /\ Remaining(deficit, imported) \in Nat
         /\ imported + Remaining(deficit, imported) = deficit
    <2> HIDE DEF deficit, hours
    <2> QED  BY <1>1, <1>2, <1>8, TransferSplits
  <1>11. LoopStep = [measurement |-> measurement,
                     decision    |-> decision,
                     charged     |-> Charged,
                     discharged  |-> Discharged,
                     after       |-> soc + Charged - Discharged,
                     imported    |-> IF deficit > 0 THEN imported ELSE 0,
                     exported    |-> IF surplus > 0 THEN exported ELSE 0,
                     curtailed   |-> IF surplus > 0 THEN Remaining(surplus, exported) ELSE 0,
                     unserved    |-> IF deficit > 0 THEN Remaining(deficit, imported) ELSE 0]
    BY DEF LoopStep
  <1>12. decision \in [step: Nat, action: KnownAction, power: Int \cup {NaN}]
    BY <1>2
  <1> HIDE DEF surplus, deficit, imported, exported, hours, grid
  <1>13. LoopStep \in RecordedStep
    BY <1>2, <1>5, <1>6, <1>7, <1>8, <1>9, <1>10, <1>11, <1>12 DEF RecordedStep
  <1>14. surplus = Surplus(measurement.net) - Charged
    BY DEF surplus
  <1>15. deficit = Deficit(measurement.net) - Discharged
    BY DEF deficit
  <1> QED
    BY <1>1, <1>2, <1>3, <1>5, <1>6, <1>7, <1>8, <1>9, <1>10, <1>11, <1>13, <1>14, <1>15

\* Every interval's books balance, so the conservation check passes.
LEMMA LoopStepConserved ==
    ASSUME TypeOK, PhaseOK, pc = "apply", decision.action \in KnownAction, ~NotANumber
    PROVE  Conserved(LoopStep)
  <1> DEFINE interval == scenario.steps[Len(steps) + 1]
  <1>1. interval \in Interval
    BY ScenarioParts DEF TypeOK, PhaseOK
  <1>2. /\ measurement.generated = Generated(interval)
        /\ measurement.consumed = Consumed(interval)
        /\ measurement.net = NetEnergy(measurement.generated, measurement.consumed)
    BY DEF PhaseOK
  <1>3. /\ measurement.generated \in Nat /\ measurement.consumed \in Nat
        /\ measurement.net \in Int
        /\ (measurement.generated - measurement.consumed) - measurement.net
              \in -BalanceTolerance .. BalanceTolerance
    <2> HIDE DEF interval
    <2> QED  BY <1>1, <1>2, BalanceOfInterval
  <1>4. Surplus(measurement.net) - Deficit(measurement.net) = measurement.net
    BY <1>3 DEF Surplus, Deficit, Greatest
  <1>5. /\ Surplus(measurement.net) \in Int /\ Deficit(measurement.net) \in Int
    BY <1>3 DEF Surplus, Deficit, Greatest
  <1>6. /\ LoopStep.charged \in Nat /\ LoopStep.discharged \in Nat
        /\ LoopStep.imported \in Nat /\ LoopStep.exported \in Nat
        /\ LoopStep.curtailed \in Nat /\ LoopStep.unserved \in Nat
    BY LoopStepSound DEF RecordedStep
  <1> QED
    BY <1>3, <1>4, <1>5, <1>6, LoopStepSound, UnitsAssumption
       DEF Conserved, Magnitude, Sources, Sinks

\* An element of the record has its type.
LEMMA RecordAt ==
    ASSUME TypeOK, NEW i \in 1 .. Len(steps)
    PROVE  /\ steps[i].step \in RecordedStep
           /\ steps[i].totals \in RunningTotals
  <1> DEFINE S == [step: RecordedStep, totals: RunningTotals]
  <1>1. steps \in Seq(S)
    BY DEF TypeOK
  <1>2. steps[i] \in S
    <2> HIDE DEF S
    <2> QED  BY <1>1
  <1> QED
    BY <1>2

\* The running sums stay naturals and count the new interval.
LEMMA TotalsGrow ==
    ASSUME TypeOK, NEW s \in RecordedStep
    PROVE  LET new == [step |-> s, totals |-> AddStep(Totals, s)]
           IN  /\ Totals \in RunningTotals
               /\ AddStep(Totals, s) \in RunningTotals
               /\ new \in [step: RecordedStep, totals: RunningTotals]
  <1>1. Totals \in RunningTotals
    <2>1. CASE steps = <<>>
      BY <2>1 DEF Totals, NoTotals, RunningTotals
    <2>2. CASE steps # <<>>
      <3>1. Len(steps) \in 1 .. Len(steps)
        BY <2>2 DEF TypeOK
      <3>2. steps[Len(steps)].totals \in RunningTotals
        BY <3>1, RecordAt DEF TypeOK
      <3> QED  BY <2>2, <3>2 DEF Totals
    <2> QED  BY <2>1, <2>2
  <1>2. AddStep(Totals, s) \in RunningTotals
    BY <1>1 DEF RunningTotals, AddStep, RecordedStep, Measured
  <1> QED
    BY <1>1, <1>2

-----------------------------------------------------------------------------
(* The inductive invariant.  PhaseOK is what the type invariant and the books *)
(* need to be inductive: it carries what the first half of an interval        *)
(* established over the call of the provider to the second half.              *)

Inv == TypeOK /\ PhaseOK /\ BooksBalance /\ NoCounterflow /\ ResultIsComplete

LEMMA InitInv == Init => Inv
  <1> SUFFICES ASSUME Init PROVE Inv
    OBVIOUS
  <1>1. /\ scenario \in Scenarios
        /\ steps = <<>> /\ Len(steps) = 0 /\ Totals = NoTotals
    BY DEF Init, Totals
  <1>2. TypeOK
    <2>1. NoMeasurement \in Measured
      BY DEF NoMeasurement, Measured
    <2>2. NoDecision \in WireDecision
      BY DEF NoDecision, WireDecision, ControlAction
    <2>3. steps \in Seq([step: RecordedStep, totals: RunningTotals])
      BY <1>1
    <2>4. soc \in 0 .. scenario.battery.capacity
      BY <1>1, ScenarioParts DEF Init
    <2> QED  BY <1>1, <2>1, <2>2, <2>3, <2>4 DEF Init, TypeOK, Outcome
  <1>3. PhaseOK
    BY <1>1, ScenarioParts DEF Init, PhaseOK
  <1>4. BooksBalance
    BY <1>1, ScenarioParts DEF Init, BooksBalance, NoTotals
  <1>5. NoCounterflow
    BY <1>1 DEF NoCounterflow
  <1>6. ResultIsComplete
    BY DEF Init, ResultIsComplete
  <1> QED
    BY <1>2, <1>3, <1>4, <1>5, <1>6 DEF Inv

\* A step that only ends the run keeps the invariant.
LEMMA EndingKeepsInv ==
    ASSUME Inv, pc # "ended", pc' = "ended",
           outcome' \in {"result", "ValueError", "AssertionError", "ControlApiError",
                         "ControlApiStatusError", "OtherError"},
           outcome' = "AssertionError" => NotANumber,
           outcome' = "result" => Len(steps) = Len(scenario.steps),
           UNCHANGED <<scenario, elapsed, soc, measurement, decision, steps>>
    PROVE  Inv'
  <1>1. TypeOK'
    BY DEF Inv, TypeOK, Outcome
  <1>2. PhaseOK'
    BY DEF Inv, PhaseOK
  <1>3. BooksBalance'
    BY DEF Inv, BooksBalance, Totals, NotANumber
  <1>4. NoCounterflow'
    BY DEF Inv, NoCounterflow
  <1>5. ResultIsComplete'
    BY DEF Inv, ResultIsComplete
  <1> QED
    BY <1>1, <1>2, <1>3, <1>4, <1>5 DEF Inv

\* The measurement of an interval is one the snapshot and the controller accept.
LEMMA MeasurementValid ==
    ASSUME TypeOK, PhaseOK, pc = "measure", Len(steps) < Len(scenario.steps)
    PROVE  LET m == MeasurementOf(scenario.steps[Len(steps) + 1])
           IN  /\ m \in Measured
               /\ SnapshotValid(m)
               /\ MeasurementAccepted(m)
  <1> DEFINE interval == scenario.steps[Len(steps) + 1]
             m == MeasurementOf(interval)
             g == Generated(interval)
             c == Consumed(interval)
  <1>1. /\ interval \in Interval /\ interval.hours \in Nat \ {0}
        /\ Len(steps) \in Nat /\ elapsed \in Nat /\ soc \in Nat
    <2>1. /\ Len(steps) \in Nat /\ elapsed \in Nat
          /\ scenario \in Scenarios /\ soc \in 0 .. scenario.battery.capacity
      BY DEF TypeOK
    <2>2. interval \in Interval
      BY <2>1, ScenarioParts
    <2>3. soc \in Nat
      BY <2>1, ScenarioParts
    <2> HIDE DEF interval
    <2> QED  BY <2>1, <2>2, <2>3 DEF Interval
  <1> HIDE DEF interval
  <1>2. /\ g \in Nat /\ c \in Nat /\ NetEnergy(g, c) \in Int
        /\ (g - c) - NetEnergy(g, c) \in -BalanceTolerance .. BalanceTolerance
    BY <1>1, BalanceOfInterval
  <1> HIDE DEF g, c
  <1>3. m = [step |-> Len(steps) + 1, elapsed |-> elapsed + interval.hours,
             hours |-> interval.hours, generated |-> g, consumed |-> c,
             net |-> NetEnergy(g, c), soc |-> soc,
             imported |-> 0, exported |-> 0, unresolved |-> 0]
    BY DEF MeasurementOf, g, c
  <1> HIDE DEF m
  <1>4. m \in Measured
    BY <1>1, <1>2, <1>3 DEF Measured
  <1>5. Greatest(g, c) \div NetRelativeDivisor \in Nat
    BY <1>2, UnitsAssumption, QuotientNat DEF Greatest
  <1>6. Magnitude(m.net - (m.generated - m.consumed)) <= NetAbsoluteTolerance
    BY <1>2, <1>3, UnitsAssumption DEF Magnitude
  <1>7. /\ Magnitude(m.net - (m.generated - m.consumed)) \in Nat
        /\ SnapshotTolerance(m) = NetAbsoluteTolerance + Greatest(g, c) \div NetRelativeDivisor
        /\ NetTolerance(m) = SnapshotTolerance(m)
    BY <1>2, <1>3 DEF Magnitude, SnapshotTolerance, NetTolerance
  <1>8. Magnitude(m.net - (m.generated - m.consumed)) <= SnapshotTolerance(m)
    BY <1>5, <1>6, <1>7, UnitsAssumption
  <1>9. SnapshotValid(m)
    BY <1>1, <1>2, <1>3, <1>8 DEF SnapshotValid
  <1>10. MeasurementAccepted(m)
    <2>1. /\ m.step > 0 /\ m.elapsed > 0 /\ m.hours > 0
          /\ m.generated >= 0 /\ m.consumed >= 0 /\ m.soc >= 0
          /\ m.imported >= 0 /\ m.exported >= 0 /\ m.unresolved >= 0
          /\ ~(m.imported > 0 /\ m.exported > 0)
      BY <1>1, <1>2, <1>3
    <2> QED
      BY <1>7, <1>8, <2>1 DEF MeasurementAccepted
  <1> QED
    BY <1>4, <1>9, <1>10 DEF m, interval

-----------------------------------------------------------------------------
(* One lemma per action.                                                     *)

LEMMA MeasureKeepsInv ==
    ASSUME Inv, Measure
    PROVE  Inv' /\ pc' = "await" /\ MeasurementAccepted(measurement')
  <1> DEFINE m == MeasurementOf(scenario.steps[Len(steps) + 1])
  <1>1. m \in Measured /\ SnapshotValid(m) /\ MeasurementAccepted(m)
    BY MeasurementValid DEF Inv, Measure
  <1>2. /\ elapsed' = m.elapsed /\ measurement' = m /\ pc' = "await"
        /\ pc = "measure" /\ Len(steps) < Len(scenario.steps)
        /\ UNCHANGED <<scenario, soc, decision, steps, outcome>>
    BY <1>1 DEF Measure
  <1>3. m.elapsed \in Nat
    <2> HIDE DEF m
    <2> QED  BY <1>1 DEF Measured
  <1>4. TypeOK'
    <2> HIDE DEF m
    <2> QED  BY <1>1, <1>2, <1>3 DEF Inv, TypeOK
  <1>5. PhaseOK'
    <2>1. /\ m.step = Len(steps) + 1
          /\ m.hours = scenario.steps[Len(steps) + 1].hours
          /\ m.generated = Generated(scenario.steps[Len(steps) + 1])
          /\ m.consumed = Consumed(scenario.steps[Len(steps) + 1])
          /\ m.net = NetEnergy(m.generated, m.consumed)
          /\ m.soc = soc
          /\ m.elapsed = elapsed + m.hours
      BY DEF MeasurementOf
    <2>2. elapsed = IF steps = <<>> THEN 0 ELSE steps[Len(steps)].step.measurement.elapsed
      BY <1>2 DEF Inv, PhaseOK
    <2>3. m.hours \in Nat /\ elapsed \in Nat
      <3> HIDE DEF m
      <3> QED  BY <1>1 DEF Inv, TypeOK, Measured
    <2>4. m.elapsed = m.hours +
            (IF steps = <<>> THEN 0 ELSE steps[Len(steps)].step.measurement.elapsed)
      <3> HIDE DEF m
      <3> QED  BY <2>1, <2>2, <2>3
    <2> HIDE DEF m
    <2> QED
      BY <1>2, <2>1, <2>4 DEF Inv, PhaseOK
  <1> HIDE DEF m
  <1>6. BooksBalance' /\ NoCounterflow' /\ ResultIsComplete'
    BY <1>2 DEF Inv, BooksBalance, NotANumber, Totals, NoCounterflow, ResultIsComplete
  <1> QED
    BY <1>1, <1>2, <1>4, <1>5, <1>6 DEF Inv

LEMMA AnswerKeepsInv ==
    ASSUME Inv, NEW d \in WireDecision, Answer(d)
    PROVE  Inv'
  <1>1. CASE d.step # measurement.step
    BY <1>1, EndingKeepsInv DEF Answer, Raise
  <1>2. CASE d.step = measurement.step
    <2>1. /\ decision' = d /\ pc' = "apply" /\ pc = "await"
          /\ UNCHANGED <<scenario, elapsed, soc, measurement, steps, outcome>>
      BY <1>2 DEF Answer
    <2>2. TypeOK'
      BY <2>1 DEF Inv, TypeOK
    <2>3. PhaseOK'
      BY <1>2, <2>1 DEF Inv, PhaseOK
    <2>4. BooksBalance' /\ NoCounterflow' /\ ResultIsComplete'
      BY <2>1 DEF Inv, BooksBalance, NotANumber, Totals, NoCounterflow, ResultIsComplete
    <2> QED
      BY <2>2, <2>3, <2>4 DEF Inv
  <1> QED
    BY <1>1, <1>2

\* The interval recorded by Apply, as the other proofs use it.
LEMMA ApplyRecords ==
    ASSUME Inv, Apply
    PROVE  LET new == [step |-> LoopStep, totals |-> AddStep(Totals, LoopStep)]
           IN  /\ new \in [step: RecordedStep, totals: RunningTotals]
               /\ steps' = Append(steps, new)
               /\ Len(steps') = Len(steps) + 1
               /\ \A i \in 1 .. Len(steps) : steps'[i] = steps[i]
               /\ steps'[Len(steps) + 1] = new
               /\ Totals' = AddStep(Totals, LoopStep)
               /\ soc' = LoopStep.after
               /\ pc = "apply" /\ pc' = "measure"
               /\ UNCHANGED <<scenario, elapsed, measurement, decision, outcome>>
  <1> DEFINE new == [step |-> LoopStep, totals |-> AddStep(Totals, LoopStep)]
             S == [step: RecordedStep, totals: RunningTotals]
  <1>1. /\ TypeOK /\ PhaseOK /\ pc = "apply" /\ decision.action \in KnownAction
        /\ ~NotANumber
    BY DEF Inv, Apply
  <1>2. Conserved(LoopStep) /\ LoopStep \in RecordedStep
    BY <1>1, LoopStepConserved, LoopStepSound
  <1>3. new \in S
    BY <1>1, <1>2, TotalsGrow
  <1>4. /\ steps' = Append(steps, new)
        /\ soc' = LoopStep.after /\ pc' = "measure"
        /\ UNCHANGED <<scenario, elapsed, measurement, decision, outcome>>
    BY <1>2 DEF Apply
  <1>5. steps \in Seq(S)
    BY <1>1 DEF TypeOK
  <1>6. /\ Len(steps') = Len(steps) + 1
        /\ \A i \in 1 .. Len(steps) : steps'[i] = steps[i]
        /\ steps'[Len(steps) + 1] = new
        /\ steps' # <<>>
    <2> HIDE DEF new, S
    <2> QED  BY <1>3, <1>4, <1>5
  <1>7. Totals' = AddStep(Totals, LoopStep)
    BY <1>6 DEF Totals
  <1> QED
    BY <1>1, <1>3, <1>4, <1>6, <1>7

LEMMA ApplyKeepsInv ==
    ASSUME Inv, Apply
    PROVE  Inv'
  <1> DEFINE S == [step: RecordedStep, totals: RunningTotals]
             new == [step |-> LoopStep, totals |-> AddStep(Totals, LoopStep)]
  <1>1. TypeOK /\ PhaseOK /\ BooksBalance /\ NoCounterflow /\ ResultIsComplete
        /\ decision.action \in KnownAction /\ ~NotANumber
    BY DEF Inv, Apply
  <1>2. /\ LoopStep \in RecordedStep
        /\ LoopStep.measurement = measurement
        /\ LoopStep.after \in 0 .. scenario.battery.capacity
        /\ LoopStep.after = soc + LoopStep.charged - LoopStep.discharged
        /\ LoopStep.charged + LoopStep.exported + LoopStep.curtailed
             = Surplus(measurement.net)
        /\ LoopStep.discharged + LoopStep.imported + LoopStep.unserved
             = Deficit(measurement.net)
    BY <1>1, LoopStepSound
  <1>3. TypeOK'
    <2>1. steps' \in Seq(S)
      <3>1. steps \in Seq(S) /\ new \in S /\ steps' = Append(steps, new)
        BY <1>1, ApplyRecords DEF TypeOK
      <3> HIDE DEF S, new
      <3> QED  BY <3>1
    <2> QED
      BY <1>1, <1>2, <2>1, ApplyRecords DEF TypeOK
  <1>4. PhaseOK'
    <2>1. Len(steps') <= Len(scenario'.steps)
      BY <1>1, ApplyRecords, ScenarioParts DEF PhaseOK, TypeOK
    <2>2. elapsed' = steps'[Len(steps')].step.measurement.elapsed /\ steps' # <<>>
      <3>1. elapsed = measurement.elapsed
        BY <1>1, ApplyRecords DEF PhaseOK
      <3>2. Len(steps') = Len(steps) + 1 /\ steps'[Len(steps) + 1] = new
        BY ApplyRecords
      <3>3. steps' # <<>>
        BY <3>2, <1>1 DEF TypeOK
      <3> QED  BY <1>2, <3>1, <3>2, <3>3, ApplyRecords
    <2> QED
      BY <2>1, <2>2, ApplyRecords DEF PhaseOK
  <1>5. BooksBalance'
    <2>1. /\ Totals \in RunningTotals
          /\ Totals'.charged = Totals.charged + LoopStep.charged
          /\ Totals'.discharged = Totals.discharged + LoopStep.discharged
      BY <1>1, <1>2, TotalsGrow, ApplyRecords DEF AddStep
    <2>2. Totals.charged \in Nat /\ Totals.discharged \in Nat
      BY <2>1 DEF RunningTotals
    <2>3. LoopStep.charged \in Nat /\ LoopStep.discharged \in Nat
      BY <1>2 DEF RecordedStep
    <2>4. scenario.battery.soc \in Int
      BY <1>1, ScenarioParts DEF TypeOK
    <2>5. /\ soc = scenario.battery.soc + Totals.charged - Totals.discharged
          /\ outcome = "AssertionError" => NotANumber
      BY <1>1 DEF BooksBalance
    <2>6. soc' = LoopStep.after /\ UNCHANGED <<scenario, decision, outcome>>
      BY ApplyRecords
    <2>7. soc' = scenario'.battery.soc + Totals'.charged - Totals'.discharged
      BY <1>2, <2>1, <2>2, <2>3, <2>4, <2>5, <2>6
    <2> QED
      BY <2>5, <2>6, <2>7 DEF BooksBalance, NotANumber
  <1>6. NoCounterflow'
    <2>1. \/ LoopStep.charged = 0 /\ LoopStep.exported = 0 /\ LoopStep.curtailed = 0
          \/ LoopStep.discharged = 0 /\ LoopStep.imported = 0 /\ LoopStep.unserved = 0
      <3>1. Surplus(measurement.net) = 0 \/ Deficit(measurement.net) = 0
        BY <1>1 DEF Surplus, Deficit, Greatest, TypeOK, Measured
      <3> QED  BY <1>2, <3>1 DEF RecordedStep
    <2>2. /\ Len(steps) \in Nat /\ Len(steps') = Len(steps) + 1
          /\ \A i \in 1 .. Len(steps) : steps'[i] = steps[i]
          /\ steps'[Len(steps) + 1].step = LoopStep
      BY <1>1, ApplyRecords DEF TypeOK
    <2>3. \A i \in 1 .. Len(steps') : i \in 1 .. Len(steps) \/ i = Len(steps) + 1
      BY <2>2
    <2> QED
      BY <1>1, <2>1, <2>2, <2>3 DEF NoCounterflow
  <1>7. ResultIsComplete'
    BY <1>1, ApplyRecords DEF ResultIsComplete
  <1> QED
    BY <1>3, <1>4, <1>5, <1>6, <1>7 DEF Inv

\* The plant's own steps keep the invariant, whoever decides.
LEMMA PlantStepKeepsInv ==
    ASSUME Inv, PlantStep \/ RefuseAction \/ ApplyNotANumber \/ ProviderFails
    PROVE  Inv'
  <1>1. CASE Measure
    BY <1>1, MeasureKeepsInv
  <1>2. CASE Apply
    BY <1>2, ApplyKeepsInv
  <1>3. CASE RefuseAction
    BY <1>3, EndingKeepsInv DEF RefuseAction, Raise
  <1>4. CASE Return
    BY <1>4, EndingKeepsInv DEF Return
  <1>5. CASE ProviderFails
    BY <1>5, EndingKeepsInv DEF ProviderFails, Raise
  <1>6. CASE ApplyNotANumber
    BY <1>6, EndingKeepsInv DEF ApplyNotANumber, Raise
  <1> QED
    BY <1>1, <1>2, <1>3, <1>4, <1>5, <1>6 DEF PlantStep

LEMMA StutterKeepsInv ==
    ASSUME Inv, UNCHANGED vars
    PROVE  Inv'
  BY DEF vars, Inv, TypeOK, PhaseOK, BooksBalance, NotANumber, Totals, NoCounterflow, ResultIsComplete

-----------------------------------------------------------------------------
(* Any provider at all.                                                      *)

LEMMA OpenInductive == Inv /\ [OpenNext]_vars => Inv'
  <1> SUFFICES ASSUME Inv, [OpenNext]_vars PROVE Inv'
    OBVIOUS
  <1>1. CASE PlantStep \/ RefuseAction \/ ApplyNotANumber \/ ProviderFails
    BY <1>1, PlantStepKeepsInv
  <1>2. CASE \E d \in WireDecisions : Answer(d)
    <2>1. PICK d \in WireDecisions : Answer(d)
      BY <1>2
    <2>2. d \in WireDecision
      BY <2>1, LoopAssumption
    <2> QED
      BY <2>1, <2>2, AnswerKeepsInv
  <1>3. CASE UNCHANGED vars
    BY <1>3, StutterKeepsInv
  <1> QED
    BY <1>1, <1>2, <1>3 DEF OpenNext, ProviderStep

\* Whatever a provider answers, the invariant holds throughout a run.
THEOREM OpenLoopInv == OpenLoop => []Inv
  BY InitInv, OpenInductive, PTL DEF OpenLoop

\* Whatever a provider answers, the battery stays between empty and full (and every
\* variable keeps its type).
THEOREM OpenLoopTypeOK == OpenLoop => []TypeOK
  <1>1. Inv => TypeOK
    BY DEF Inv
  <1> QED
    BY <1>1, OpenLoopInv, PTL

\* Whatever a provider answers, the conservation check fires only for a power that is not
\* a number, and the battery holds what the recorded intervals put in and took out.
THEOREM OpenLoopBooksBalance == OpenLoop => []BooksBalance
  <1>1. Inv => BooksBalance
    BY DEF Inv
  <1> QED
    BY <1>1, OpenLoopInv, PTL

\* Whatever a provider answers, the battery is never charged from the grid or
\* emptied into it.
THEOREM OpenLoopNoCounterflow == OpenLoop => []NoCounterflow
  <1>1. Inv => NoCounterflow
    BY DEF Inv
  <1> QED
    BY <1>1, OpenLoopInv, PTL

\* Whatever a provider answers, there is a result only of a complete run.
THEOREM OpenLoopResultIsComplete == OpenLoop => []ResultIsComplete
  <1>1. Inv => ResultIsComplete
    BY DEF Inv
  <1> QED
    BY <1>1, OpenLoopInv, PTL

-----------------------------------------------------------------------------
(* How long a run can be.                                                    *)

\* The steps a run still has: three for every interval that is not recorded, less those
\* of the interval that has begun, and one to return.
StepsLeft ==
    LET intervals == Len(scenario.steps) - Len(steps)
    IN  CASE pc = "measure" -> 3 * intervals + 1
          [] pc = "await"   -> 3 * intervals
          [] pc = "apply"   -> 3 * intervals - 1
          [] OTHER          -> 0

LEMMA StepsLeftNat ==
    ASSUME Inv
    PROVE  /\ StepsLeft \in Nat
           /\ Len(steps) \in Nat /\ Len(scenario.steps) \in Nat
           /\ pc # "ended" => StepsLeft > 0
  <1>1. TypeOK /\ PhaseOK
    BY DEF Inv
  <1>2. Len(steps) \in Nat /\ Len(scenario.steps) \in Nat
    BY <1>1, ScenarioParts DEF TypeOK
  <1>3. pc \in {"measure", "await", "apply", "ended"}
    BY <1>1 DEF TypeOK
  <1>4. /\ Len(steps) <= Len(scenario.steps)
        /\ pc \in {"await", "apply"} => Len(steps) < Len(scenario.steps)
    BY <1>1 DEF PhaseOK
  <1> QED
    BY <1>2, <1>3, <1>4 DEF StepsLeft

LEMMA StepShortens ==
    ASSUME Inv, Inv', OpenNext
    PROVE  StepsLeft' < StepsLeft
  <1>1. StepsLeft \in Nat /\ Len(steps) \in Nat /\ Len(scenario.steps) \in Nat
    BY StepsLeftNat
  <1>2. CASE Measure
    <2>1. pc = "measure" /\ pc' = "await" /\ UNCHANGED <<scenario, steps>>
      BY <1>2, MeasureKeepsInv DEF Measure
    <2> QED
      BY <1>1, <2>1 DEF StepsLeft
  <1>3. CASE Apply
    <2>1. /\ Len(steps') = Len(steps) + 1 /\ pc = "apply" /\ pc' = "measure"
          /\ UNCHANGED scenario
      BY <1>3, ApplyRecords
    <2> QED
      BY <1>1, <2>1 DEF StepsLeft
  <1>4. CASE \E d \in WireDecisions : Answer(d)
    <2>1. /\ pc = "await" /\ pc' \in {"apply", "ended"} /\ UNCHANGED <<scenario, steps>>
      BY <1>4 DEF Answer, Raise
    <2>2. StepsLeft > 0
      BY <2>1, StepsLeftNat
    <2> QED
      BY <1>1, <2>1, <2>2 DEF StepsLeft
  <1>5. CASE Return \/ RefuseAction \/ ApplyNotANumber \/ ProviderFails
    <2>1. pc # "ended" /\ pc' = "ended"
      BY <1>5 DEF Return, RefuseAction, ApplyNotANumber, ProviderFails, Raise
    <2>2. StepsLeft > 0 /\ StepsLeft' = 0
      BY <2>1, StepsLeftNat DEF StepsLeft
    <2> QED
      BY <2>2
  <1> QED
    BY <1>2, <1>3, <1>4, <1>5 DEF OpenNext, PlantStep, ProviderStep

\* Whatever a provider answers, a run has at most three steps per interval and one to
\* return: nothing is tried again and no interval is gone through twice, so a run that
\* goes on comes to its end.
THEOREM OpenLoopRunsOut ==
    OpenLoop => /\ [](StepsLeft \in Nat)
                /\ [][StepsLeft' < StepsLeft]_vars
  <1>1. Inv => StepsLeft \in Nat
    BY StepsLeftNat
  <1>2. Inv /\ Inv' /\ [OpenNext]_vars => [StepsLeft' < StepsLeft]_vars
    BY StepShortens
  <1> QED
    BY <1>1, <1>2, OpenLoopInv, PTL DEF OpenLoop

-----------------------------------------------------------------------------
(* The C++ controller.                                                       *)

\* The command for an accepted measurement is valid, is for its step, and asks for no
\* more energy than its window leaves, over the interval it is for.
LEMMA DecideSound ==
    ASSUME NEW m \in Measured, MeasurementAccepted(m), ExactDuration(m.hours)
    PROVE  LET c == Decide(Limits, m)
               energy == EnergyOver(c.power, m.hours)
           IN  /\ c \in WireDecision
               /\ CommandValid(c)
               /\ c.step = m.step
               /\ c.power \in Nat
               /\ energy \in Nat
               /\ c.action = "ChargeBattery" => m.soc + energy <= Limits.maxSoc
               /\ c.action = "DischargeBattery" => m.soc - energy >= Limits.minSoc
  <1> DEFINE c == Decide(Limits, m)
             room == Greatest(0, Limits.maxSoc - m.soc)
             stock == Greatest(0, m.soc - Limits.minSoc)
             charge == Least(PowerOver(m.net, m.hours),
                             Least(Limits.maxCharge, PowerOver(room, m.hours)))
             discharge == Least(PowerOver(Magnitude(m.net), m.hours),
                                Least(Limits.maxDischarge, PowerOver(stock, m.hours)))
  <1>1. /\ m.step \in Nat \ {0} /\ m.net \in Int /\ m.soc \in Nat /\ m.hours \in Nat
        /\ Limits.maxCharge \in Nat /\ Limits.maxDischarge \in Nat
        /\ Limits.minSoc \in Nat /\ Limits.maxSoc \in Nat
    BY LoopAssumption DEF Measured, MeasurementAccepted
  <1>2. room \in Nat /\ stock \in Nat
    BY <1>1 DEF Greatest
  <1>3. CASE Magnitude(m.net) <= BalanceTolerance
    <2>1. c = [step |-> m.step, action |-> "Idle", power |-> 0]
      BY <1>3 DEF Decide, Command
    <2>2. EnergyOver(0, m.hours) \in Nat
      BY <1>1, EnergyOverNat
    <2> QED
      BY <1>1, <2>1, <2>2 DEF CommandValid, WireDecision, ControlAction
  <1>4. CASE ~(Magnitude(m.net) <= BalanceTolerance) /\ m.net > 0
    <2>1. c = Command(m, "ChargeBattery", charge)
      BY <1>4 DEF Decide, DecideSurplus
    <2>2. /\ PowerOver(m.net, m.hours) \in Nat
          /\ PowerOver(room, m.hours) \in Nat
      BY <1>1, <1>2, <1>4, PowerRoundTrip
    <2>3. charge \in Nat /\ charge <= PowerOver(room, m.hours)
      BY <1>1, <2>2 DEF Least
    <2> HIDE DEF charge, room, c
    <2>4. EnergyOver(charge, m.hours) \in Nat /\ EnergyOver(charge, m.hours) <= room
      BY <1>1, <1>2, <2>3, EnergyOverNat, LimitedEnergy
    <2>5. EnergyOver(0, m.hours) \in Nat
      BY <1>1, EnergyOverNat
    <2>6. CASE charge = 0
      BY <1>1, <2>1, <2>5, <2>6 DEF Command, CommandValid, WireDecision, ControlAction, c
    <2>7. CASE charge > 0
      <3>1. c = [step |-> m.step, action |-> "ChargeBattery", power |-> charge]
        BY <2>1, <2>3, <2>7 DEF Command
      <3>2. room = Limits.maxSoc - m.soc
        <4>1. room # 0
          <5>1. ASSUME room = 0 PROVE FALSE
            <6>1. PowerOver(0, m.hours) = 0
              BY <1>1, UnitsAssumption DEF PowerOver, ExactDuration
            <6> QED  BY <2>3, <2>7, <5>1, <6>1
          <5> QED  BY <5>1
        <4> QED  BY <1>1, <4>1 DEF room, Greatest
      <3>3. m.soc + EnergyOver(charge, m.hours) <= Limits.maxSoc
        BY <1>1, <2>4, <3>2
      <3> QED
        BY <1>1, <2>3, <2>4, <2>7, <3>1, <3>3
           DEF CommandValid, WireDecision, ControlAction, c
    <2> QED
      BY <2>3, <2>6, <2>7
  <1>5. CASE ~(Magnitude(m.net) <= BalanceTolerance) /\ ~(m.net > 0)
    <2>1. c = Command(m, "DischargeBattery", discharge)
      BY <1>5 DEF Decide, DecideDeficit
    <2>2. /\ PowerOver(Magnitude(m.net), m.hours) \in Nat
          /\ PowerOver(stock, m.hours) \in Nat
      <3>1. Magnitude(m.net) \in Nat
        BY <1>1 DEF Magnitude
      <3> QED  BY <1>1, <1>2, <3>1, PowerRoundTrip
    <2>3. discharge \in Nat /\ discharge <= PowerOver(stock, m.hours)
      BY <1>1, <2>2 DEF Least
    <2> HIDE DEF discharge, stock, c
    <2>4. EnergyOver(discharge, m.hours) \in Nat /\ EnergyOver(discharge, m.hours) <= stock
      BY <1>1, <1>2, <2>3, EnergyOverNat, LimitedEnergy
    <2>5. EnergyOver(0, m.hours) \in Nat
      BY <1>1, EnergyOverNat
    <2>6. CASE discharge = 0
      BY <1>1, <2>1, <2>5, <2>6 DEF Command, CommandValid, WireDecision, ControlAction, c
    <2>7. CASE discharge > 0
      <3>1. c = [step |-> m.step, action |-> "DischargeBattery", power |-> discharge]
        BY <2>1, <2>3, <2>7 DEF Command
      <3>2. stock = m.soc - Limits.minSoc
        <4>1. stock # 0
          <5>1. ASSUME stock = 0 PROVE FALSE
            <6>1. PowerOver(0, m.hours) = 0
              BY <1>1, UnitsAssumption DEF PowerOver, ExactDuration
            <6> QED  BY <2>3, <2>7, <5>1, <6>1
          <5> QED  BY <5>1
        <4> QED  BY <1>1, <4>1 DEF stock, Greatest
      <3>3. m.soc - EnergyOver(discharge, m.hours) >= Limits.minSoc
        BY <1>1, <2>4, <3>2
      <3> QED
        BY <1>1, <2>3, <2>4, <2>7, <3>1, <3>3
           DEF CommandValid, WireDecision, ControlAction, c
    <2> QED
      BY <2>3, <2>6, <2>7
  <1> QED
    BY <1>3, <1>4, <1>5

\* What is pending was accepted by the controller, and is applied as it decided.
Asked ==
    /\ pc \in {"await", "apply"} => MeasurementAccepted(measurement)
    /\ pc = "apply" => decision = Decide(Limits, measurement)

ClosedInv == Inv /\ NeverRefused /\ Asked

LEMMA PendingDuration ==
    ASSUME Inv, pc \in {"await", "apply"}
    PROVE  measurement \in Measured /\ ExactDuration(measurement.hours)
  <1>1. /\ measurement \in Measured
        /\ measurement.hours = scenario.steps[Len(steps) + 1].hours
        /\ scenario \in Scenarios
        /\ Len(steps) + 1 \in 1 .. Len(scenario.steps)
    BY ScenarioParts DEF Inv, TypeOK, PhaseOK
  <1> QED
    BY <1>1, ScenarioParts

LEMMA ControllerAnswersSound ==
    ASSUME ClosedInv, ControllerAnswers
    PROVE  /\ Answer(Decide(Limits, measurement))
           /\ ClosedInv'
  <1>1. pc = "await"
    BY DEF ControllerAnswers, Answer
  <1>2. MeasurementAccepted(measurement)
    BY <1>1 DEF ClosedInv, Asked
  <1>3. /\ Decide(Limits, measurement) \in WireDecision
        /\ CommandValid(Decide(Limits, measurement))
        /\ Decide(Limits, measurement).step = measurement.step
    BY <1>1, <1>2, PendingDuration, DecideSound DEF ClosedInv
  <1>4. Answer(Decide(Limits, measurement))
    BY <1>2, <1>3 DEF ControllerAnswers
  <1>5. Inv'
    BY <1>3, <1>4, AnswerKeepsInv DEF ClosedInv
  <1>6. NeverRefused'
    BY <1>3, <1>4 DEF ClosedInv, NeverRefused, Answer
  <1>7. Asked'
    BY <1>2, <1>3, <1>4 DEF Asked, Answer
  <1> QED
    BY <1>4, <1>5, <1>6, <1>7 DEF ClosedInv

LEMMA ClosedInductive == ClosedInv /\ [ClosedNext]_vars => ClosedInv'
  <1> SUFFICES ASSUME ClosedInv, [ClosedNext]_vars PROVE ClosedInv'
    OBVIOUS
  <1>1. CASE ControllerAnswers
    BY <1>1, ControllerAnswersSound
  <1>2. CASE Measure
    <2>1. Inv' /\ pc' = "await" /\ MeasurementAccepted(measurement')
      BY <1>2, MeasureKeepsInv DEF ClosedInv
    <2>2. NeverRefused'
      <3>1. SnapshotValid(MeasurementOf(scenario.steps[Len(steps) + 1]))
        BY <1>2, MeasurementValid DEF ClosedInv, Inv, Measure
      <3> QED  BY <1>2, <3>1 DEF Measure, ClosedInv, NeverRefused
    <2> QED
      BY <2>1, <2>2 DEF ClosedInv, Asked
  <1>3. CASE Apply
    <2>1. Inv' /\ pc' = "measure" /\ outcome' = outcome
      BY <1>3, ApplyKeepsInv, ApplyRecords DEF ClosedInv
    <2> QED
      BY <2>1 DEF ClosedInv, NeverRefused, Asked
  <1>4. CASE Return \/ ProviderFails
    <2>1. Inv'
      BY <1>4, PlantStepKeepsInv DEF ClosedInv, PlantStep
    <2>2. pc' = "ended" /\ outcome' \in {"result", "ControlApiError", "OtherError"}
      BY <1>4 DEF Return, ProviderFails, Raise
    <2> QED
      BY <2>1, <2>2 DEF ClosedInv, NeverRefused, Asked
  <1>5. CASE UNCHANGED vars
    <2>1. Inv'
      BY <1>5, StutterKeepsInv DEF ClosedInv
    <2> QED
      BY <1>5, <2>1 DEF ClosedInv, NeverRefused, Asked, vars
  <1> QED
    BY <1>1, <1>2, <1>3, <1>4, <1>5 DEF ClosedNext, PlantStep

\* With the controller in the loop, the invariant holds throughout a run.
THEOREM ClosedLoopInv == ClosedLoop => []ClosedInv
  <1>1. Init => ClosedInv
    BY InitInv DEF Init, ClosedInv, NeverRefused, Asked
  <1> QED
    BY <1>1, ClosedInductive, PTL DEF ClosedLoop

\* No measurement the plant takes is refused, by its own validation or by the
\* controller's, and the controller's own command is always valid.
THEOREM ClosedLoopNeverRefused == ClosedLoop => []NeverRefused
  <1>1. ClosedInv => NeverRefused
    BY DEF ClosedInv
  <1> QED
    BY <1>1, ClosedLoopInv, PTL

\* With the controller in the loop too, the battery stays between empty and full and
\* the books balance.
THEOREM ClosedLoopSafe == ClosedLoop => [](TypeOK /\ BooksBalance /\ NoCounterflow)
  <1>1. ClosedInv => TypeOK /\ BooksBalance /\ NoCounterflow
    BY DEF ClosedInv, Inv
  <1> QED
    BY <1>1, ClosedLoopInv, PTL

\* A step that moves the battery is an Apply, and moves it by what was decided.
LEMMA WindowStep ==
    ASSUME ClosedInv, [ClosedNext]_vars
    PROVE  /\ soc' > soc => soc' <= Limits.maxSoc
           /\ soc' < soc => soc' >= Limits.minSoc
  <1>0. soc \in Int
    BY ScenarioParts DEF ClosedInv, Inv, TypeOK
  <1>1. CASE Apply
    <2> DEFINE energy == EnergyOver(decision.power, measurement.hours)
    <2>1. /\ Inv /\ pc = "apply" /\ decision.action \in KnownAction
          /\ decision = Decide(Limits, measurement)
          /\ MeasurementAccepted(measurement)
          /\ measurement.soc = soc
      BY <1>1 DEF ClosedInv, Asked, Apply, Inv, PhaseOK
    <2>2. /\ energy \in Nat
          /\ decision.power \in Nat
          /\ decision.action = "ChargeBattery" => soc + energy <= Limits.maxSoc
          /\ decision.action = "DischargeBattery" => soc - energy >= Limits.minSoc
      <3>1. measurement \in Measured /\ ExactDuration(measurement.hours)
        BY <2>1, PendingDuration
      <3>2. CommandValid(decision) /\ decision.power \in Int
        BY <2>1, <3>1, DecideSound
      <3> QED
        BY <2>1, <3>1, <3>2, DecideSound DEF CommandValid
    <2>3. Requested = energy
      BY <2>2 DEF Requested, Greatest
    <2> HIDE DEF energy
    <2>4. /\ soc \in Nat /\ scenario.battery.capacity \in Nat
          /\ Surplus(measurement.net) \in Nat /\ Deficit(measurement.net) \in Nat
          /\ soc <= scenario.battery.capacity
          /\ Limits.minSoc \in Nat /\ Limits.maxSoc \in Nat
      BY <2>1, ScenarioParts, LoopAssumption
         DEF Inv, TypeOK, Measured, Surplus, Deficit, Greatest
    <2>5. /\ Charged \in Nat /\ Discharged \in Nat
          /\ decision.action = "ChargeBattery" => Charged <= energy
          /\ decision.action # "ChargeBattery" => Charged = 0
          /\ decision.action = "DischargeBattery" => Discharged <= energy
          /\ decision.action # "DischargeBattery" => Discharged = 0
      BY <2>2, <2>3, <2>4
         DEF Charged, Discharged, ChargeAccepted, DischargeDelivered, Least
    <2>6. soc' = soc + Charged - Discharged
      BY <1>1 DEF Apply, LoopStep
    <2> QED
      BY <2>2, <2>4, <2>5, <2>6
  <1>2. CASE Measure
    BY <1>0, <1>2 DEF Measure
  <1>3. CASE ControllerAnswers
    BY <1>0, <1>3, ControllerAnswersSound DEF Answer
  <1>4. CASE Return \/ ProviderFails \/ UNCHANGED vars
    BY <1>0, <1>4 DEF Return, ProviderFails, vars
  <1> QED
    BY <1>1, <1>2, <1>3, <1>4 DEF ClosedNext, PlantStep

\* The controller never moves the state of charge further out of its window.
THEOREM ClosedLoopWindowRespected == ClosedLoop => WindowRespected
  <1>1. ClosedInv /\ [ClosedNext]_vars =>
            [ /\ soc' > soc => soc' <= Limits.maxSoc
              /\ soc' < soc => soc' >= Limits.minSoc ]_vars
    BY WindowStep
  <1> QED
    BY <1>1, ClosedLoopInv, PTL DEF ClosedLoop, WindowRespected

-----------------------------------------------------------------------------
(* The loop implements the ledger.                                           *)

\* A step that records nothing and does not end the run is a stutter of the ledger; a
\* step that only ends the run completes it or aborts it.
LEMMA QuietStepKeepsLedger ==
    ASSUME Inv, Inv', UNCHANGED <<scenario, soc, steps>>,
           \/ outcome' = outcome
           \/ pc # "ended" /\ outcome' # "none"
    PROVE  Ledger!Next \/ UNCHANGED Ledger!ledger
  <1>1. Totals' = Totals
    BY DEF Totals
  <1>2. CASE outcome' = outcome
    BY <1>1, <1>2 DEF Ledger!ledger
  <1>3. CASE pc # "ended" /\ outcome' # "none"
    <2>1. outcome = "none"
      BY <1>3 DEF Inv, ResultIsComplete
    <2>2. outcome' = "result" => Len(steps) = Len(scenario.steps)
      BY DEF Inv, ResultIsComplete
    <2>3. CASE outcome' = "result"
      BY <1>1, <2>1, <2>2, <2>3 DEF Ledger!Next, Ledger!Complete
    <2>4. CASE outcome' # "result"
      BY <1>1, <1>3, <2>1, <2>4 DEF Ledger!Next, Ledger!Abort
    <2> QED
      BY <2>3, <2>4
  <1> QED
    BY <1>2, <1>3

\* An applied interval closes an interval of the ledger.
LEMMA ApplyKeepsLedger ==
    ASSUME Inv, Apply
    PROVE  Ledger!Next
  <1> DEFINE t == Totals
             s == LoopStep
  <1>1. /\ TypeOK /\ PhaseOK /\ pc = "apply" /\ decision.action \in KnownAction
        /\ ~NotANumber /\ outcome = "none" /\ outcome' = "none"
    BY ApplyRecords DEF Inv, Apply, ResultIsComplete
  <1>2. /\ s \in RecordedStep /\ Conserved(s)
        /\ s.after \in 0 .. scenario.battery.capacity
        /\ s.after = soc + s.charged - s.discharged
    BY <1>1, LoopStepSound, LoopStepConserved
  <1>3. /\ t \in RunningTotals /\ Totals' = AddStep(t, s)
        /\ soc' = s.after /\ scenario' = scenario
        /\ Len(steps') = Len(steps) + 1
    BY <1>1, <1>2, TotalsGrow, ApplyRecords
  <1>4. /\ Len(steps) < Len(scenario.steps)
        /\ soc \in Int
    BY <1>1, ScenarioParts DEF PhaseOK, TypeOK
  <1> HIDE DEF s, t
  <1>5. /\ s.measurement.generated \in Nat /\ s.measurement.consumed \in Nat
        /\ s.charged \in Nat /\ s.discharged \in Nat
        /\ s.imported \in Nat /\ s.exported \in Nat
        /\ s.curtailed \in Nat /\ s.unserved \in Nat
    BY <1>2 DEF RecordedStep, Measured
  <1>6. /\ t.generated \in Nat /\ t.consumed \in Nat
        /\ t.imported \in Nat /\ t.exported \in Nat
        /\ t.curtailed \in Nat /\ t.unserved \in Nat
    BY <1>3 DEF RunningTotals
  <1>7. /\ Totals'.generated = t.generated + s.measurement.generated
        /\ Totals'.consumed = t.consumed + s.measurement.consumed
        /\ Totals'.imported = t.imported + s.imported
        /\ Totals'.exported = t.exported + s.exported
        /\ Totals'.curtailed = t.curtailed + s.curtailed
        /\ Totals'.unserved = t.unserved + s.unserved
    BY <1>3 DEF AddStep
  <1> DEFINE in == t.generated + t.imported + t.unserved
             out == t.consumed + t.exported + t.curtailed
             in2 == Totals'.generated + Totals'.imported + Totals'.unserved
             out2 == Totals'.consumed + Totals'.exported + Totals'.curtailed
  <1>8. /\ in2 >= in /\ out2 >= out
        /\ (soc' - soc) - ((in2 - in) - (out2 - out))
              = -(Sources(s) - Sinks(s))
        /\ Sources(s) - Sinks(s) \in Int
    <2>1. in2 - in = s.measurement.generated + s.imported + s.unserved
      BY <1>5, <1>6, <1>7
    <2>2. out2 - out = s.measurement.consumed + s.exported + s.curtailed
      BY <1>5, <1>6, <1>7
    <2>3. in \in Nat /\ in2 \in Nat /\ out \in Nat /\ out2 \in Nat
      BY <1>5, <1>6, <1>7
    <2>4. soc' - soc = s.charged - s.discharged
      BY <1>2, <1>3, <1>4, <1>5
    <2>5. Sources(s) - Sinks(s) =
            (s.measurement.generated + s.discharged + s.imported + s.unserved)
            - (s.measurement.consumed + s.charged + s.exported + s.curtailed)
      BY DEF Sources, Sinks
    <2> HIDE DEF in, out, in2, out2
    <2>6. in2 - in \in Nat /\ out2 - out \in Nat
      BY <1>5, <2>1, <2>2
    <2>7. in2 >= in /\ out2 >= out
      BY <2>3, <2>6
    <2>8. Sources(s) - Sinks(s) \in Int
      BY <1>5, <2>5
    <2>9. (soc' - soc) - ((in2 - in) - (out2 - out)) = -(Sources(s) - Sinks(s))
      BY <1>5, <2>1, <2>2, <2>4, <2>5
    <2> QED
      BY <2>7, <2>8, <2>9
  <1>9. -(Sources(s) - Sinks(s)) \in -ConservationTolerance .. ConservationTolerance
    BY <1>2, <1>8, UnitsAssumption DEF Conserved, Magnitude
  <1>10. (soc' - soc) - ((in2 - in) - (out2 - out))
            \in -ConservationTolerance .. ConservationTolerance
    BY <1>8, <1>9
  <1>11. /\ in = Totals.generated + Totals.imported + Totals.unserved
         /\ out = Totals.consumed + Totals.exported + Totals.curtailed
    BY DEF t
  <1> HIDE DEF in, out
  <1>12. Ledger!CloseInterval
    BY <1>1, <1>2, <1>3, <1>4, <1>8, <1>10, <1>11 DEF Ledger!CloseInterval
  <1> QED
    BY <1>12 DEF Ledger!Next

LEMMA InitKeepsLedger == Init => Ledger!Init
  <1> SUFFICES ASSUME Init PROVE Ledger!Init
    OBVIOUS
  <1>1. Totals = NoTotals /\ steps = <<>> /\ Len(steps) = 0 /\ outcome = "none"
    BY DEF Init, Totals
  <1>2. /\ scenario.battery.capacity \in Nat \ {0}
        /\ soc \in 0 .. scenario.battery.capacity
        /\ Len(scenario.steps) \in Nat \ {0}
    BY ScenarioParts DEF Init
  <1> QED
    BY <1>1, <1>2 DEF Ledger!Init, NoTotals

\* A step of the loop that is not an Apply is quiet.
LEMMA OtherStepsQuiet ==
    ASSUME Inv, NEW d,
           \/ Measure \/ RefuseAction \/ ApplyNotANumber \/ Return
           \/ ProviderFails \/ Answer(d) \/ UNCHANGED vars
    PROVE  /\ UNCHANGED <<scenario, soc, steps>>
           /\ outcome' = outcome \/ (pc # "ended" /\ outcome' # "none")
  BY DEF Measure, RefuseAction, ApplyNotANumber, Return, ProviderFails, Answer, Raise, vars

LEMMA OpenStepKeepsLedger ==
    ASSUME Inv, [OpenNext]_vars
    PROVE  Ledger!Next \/ UNCHANGED Ledger!ledger
  <1>1. Inv'
    BY OpenInductive
  <1>2. CASE Apply
    BY <1>2, ApplyKeepsLedger
  <1>3. CASE \E d \in WireDecisions : Answer(d)
    BY <1>1, <1>3, OtherStepsQuiet, QuietStepKeepsLedger
  <1>4. CASE \/ Measure \/ RefuseAction \/ ApplyNotANumber \/ Return
             \/ ProviderFails \/ UNCHANGED vars
    BY <1>1, <1>4, OtherStepsQuiet, QuietStepKeepsLedger
  <1> QED
    BY <1>2, <1>3, <1>4 DEF OpenNext, PlantStep, ProviderStep

\* Every run implements the ledger, whatever the provider answers: energy is neither
\* created nor lost, and a result is the result of all planned intervals.
THEOREM OpenLoopKeepsLedger == OpenLoop => KeepsLedger
  <1>1. Inv /\ [OpenNext]_vars => [Ledger!Next]_(Ledger!ledger)
    BY OpenStepKeepsLedger
  <1> QED
    BY <1>1, InitKeepsLedger, OpenLoopInv, PTL DEF OpenLoop, KeepsLedger, Ledger!Spec

LEMMA ClosedStepKeepsLedger ==
    ASSUME ClosedInv, [ClosedNext]_vars
    PROVE  Ledger!Next \/ UNCHANGED Ledger!ledger
  <1>1. Inv /\ Inv'
    BY ClosedInductive DEF ClosedInv
  <1>2. CASE Apply
    BY <1>1, <1>2, ApplyKeepsLedger
  <1>3. CASE ControllerAnswers
    <2>1. Answer(Decide(Limits, measurement))
      BY <1>3, ControllerAnswersSound
    <2> QED
      BY <1>1, <2>1, OtherStepsQuiet, QuietStepKeepsLedger
  <1>4. CASE Measure \/ Return \/ ProviderFails \/ UNCHANGED vars
    BY <1>1, <1>4, OtherStepsQuiet, QuietStepKeepsLedger
  <1> QED
    BY <1>2, <1>3, <1>4 DEF ClosedNext, PlantStep

\* So does every run with the controller in the loop.
THEOREM ClosedLoopKeepsLedger == ClosedLoop => KeepsLedger
  <1>1. ClosedInv /\ [ClosedNext]_vars => [Ledger!Next]_(Ledger!ledger)
    BY ClosedStepKeepsLedger
  <1> QED
    BY <1>1, InitKeepsLedger, ClosedLoopInv, PTL DEF ClosedLoop, KeepsLedger, Ledger!Spec

-----------------------------------------------------------------------------
(* The record is one unbroken story.                                         *)

\* Between the records: the battery holds what the last one left.
SocLinked ==
    soc = IF steps = <<>> THEN scenario.battery.soc ELSE steps[Len(steps)].step.after

OrderInv == Inv /\ StepsInOrder /\ SocLinked

LEMMA InitOrder == Init => OrderInv
  <1> SUFFICES ASSUME Init PROVE OrderInv
    OBVIOUS
  <1>1. Len(steps) = 0
    BY DEF Init
  <1>2. StepsInOrder
    BY <1>1 DEF StepsInOrder
  <1>3. SocLinked
    BY DEF Init, SocLinked
  <1> QED
    BY <1>2, <1>3, InitInv DEF OrderInv

LEMMA ApplyKeepsOrder ==
    ASSUME OrderInv, Apply
    PROVE  StepsInOrder' /\ SocLinked'
  <1> DEFINE n == Len(steps)
  <1>1. /\ Inv /\ TypeOK /\ PhaseOK /\ StepsInOrder /\ SocLinked /\ pc = "apply"
        /\ decision.action \in KnownAction /\ ~NotANumber
    BY DEF OrderInv, Inv, Apply
  <1>2. /\ n \in Nat /\ Len(steps') = n + 1
        /\ \A i \in 1 .. n : steps'[i] = steps[i]
        /\ steps'[n + 1].step = LoopStep
        /\ soc' = LoopStep.after /\ UNCHANGED scenario
    BY <1>1, ApplyRecords DEF TypeOK
  <1>3. LoopStep.measurement = measurement /\ LoopStep.decision = decision
    BY <1>1, LoopStepSound
  <1>4. steps = <<>> <=> n = 0
    BY <1>1 DEF TypeOK
  <1>5. /\ measurement.step = n + 1
        /\ measurement.hours = scenario.steps[n + 1].hours
        /\ measurement.generated = Generated(scenario.steps[n + 1])
        /\ measurement.consumed = Consumed(scenario.steps[n + 1])
        /\ measurement.soc = soc
        /\ measurement.elapsed = measurement.hours +
             (IF steps = <<>> THEN 0 ELSE steps[n].step.measurement.elapsed)
        /\ decision.step = measurement.step
    BY <1>1 DEF PhaseOK
  <1>6. StepsInOrder'
    <2> DEFINE InOrder(t, i) ==
          LET s == t[i].step
              m == s.measurement
          IN  /\ m.step = i
              /\ s.decision.step = i
              /\ m.hours = scenario.steps[i].hours
              /\ m.generated = Generated(scenario.steps[i])
              /\ m.consumed = Consumed(scenario.steps[i])
              /\ m.soc = IF i = 1 THEN scenario.battery.soc ELSE t[i - 1].step.after
              /\ m.elapsed = m.hours +
                   (IF i = 1 THEN 0 ELSE t[i - 1].step.measurement.elapsed)
    <2>1. ASSUME NEW i \in 1 .. n PROVE InOrder(steps', i)
      <3>1. InOrder(steps, i)
        BY <1>1, <2>1 DEF StepsInOrder
      <3>2. steps'[i] = steps[i] /\ (i # 1 => steps'[i - 1] = steps[i - 1])
        BY <1>2, <2>1
      <3> QED
        BY <3>1, <3>2
    <2>2. InOrder(steps', n + 1)
      <3>1. steps'[n + 1].step.measurement = measurement
            /\ steps'[n + 1].step.decision = decision
        BY <1>2, <1>3
      <3>2. soc = IF n + 1 = 1 THEN scenario.battery.soc ELSE steps'[n].step.after
        BY <1>1, <1>2, <1>4 DEF SocLinked
      <3>3. (IF steps = <<>> THEN 0 ELSE steps[n].step.measurement.elapsed)
              = (IF n + 1 = 1 THEN 0 ELSE steps'[n].step.measurement.elapsed)
        BY <1>2, <1>4
      <3>4. n + 1 - 1 = n
        BY <1>2
      <3> QED
        BY <1>5, <3>1, <3>2, <3>3, <3>4
    <2>3. \A i \in 1 .. Len(steps') : i \in 1 .. n \/ i = n + 1
      BY <1>2
    <2>4. \A i \in 1 .. Len(steps') : InOrder(steps', i)
      BY <2>1, <2>2, <2>3
    <2> QED
      BY <2>4, <1>2 DEF StepsInOrder
  <1>7. SocLinked'
    <2>1. Len(steps') # 0
      BY <1>2
    <2>2. steps' # <<>>
      BY <2>1
    <2> QED
      BY <1>2, <2>2 DEF SocLinked
  <1> QED
    BY <1>6, <1>7

LEMMA OrderInductive == OrderInv /\ [OpenNext]_vars => OrderInv'
  <1> SUFFICES ASSUME OrderInv, [OpenNext]_vars PROVE OrderInv'
    OBVIOUS
  <1>1. Inv /\ Inv'
    BY OpenInductive DEF OrderInv
  <1>2. CASE Apply
    BY <1>1, <1>2, ApplyKeepsOrder DEF OrderInv
  <1>3. CASE UNCHANGED <<scenario, soc, steps>>
    BY <1>1, <1>3 DEF OrderInv, StepsInOrder, SocLinked
  <1>4. CASE \E d \in WireDecisions : Answer(d)
    BY <1>1, <1>3, <1>4, OtherStepsQuiet
  <1>5. CASE \/ Measure \/ RefuseAction \/ ApplyNotANumber \/ Return
             \/ ProviderFails \/ UNCHANGED vars
    BY <1>1, <1>3, <1>5, OtherStepsQuiet
  <1> QED
    BY <1>2, <1>4, <1>5 DEF OpenNext, PlantStep, ProviderStep

\* Step i of the record is interval i of the scenario, answered for step i, and begins
\* where step i - 1 ended, whatever a provider answers.
THEOREM OpenLoopStepsInOrder == OpenLoop => []StepsInOrder
  <1>1. OrderInv => StepsInOrder
    BY DEF OrderInv
  <1> QED
    BY <1>1, InitOrder, OrderInductive, PTL DEF OpenLoop

-----------------------------------------------------------------------------
(* What the controller decides is what can be done.                          *)

\* The smallest of three powers moves the smallest of the energies.
LEMMA LeastEnergy ==
    ASSUME NEW hours, ExactDuration(hours), NEW a \in Nat, NEW limit \in Nat, NEW b \in Nat
    PROVE  LET power == Least(PowerOver(a, hours), Least(limit, PowerOver(b, hours)))
           IN  /\ power \in Nat
               /\ EnergyOver(power, hours) =
                    Least(a, Least(EnergyOver(limit, hours), b))
  <1>1. hours \in Nat
    BY DEF ExactDuration
  <1>2. /\ PowerOver(a, hours) \in Nat /\ EnergyOver(PowerOver(a, hours), hours) = a
        /\ PowerOver(b, hours) \in Nat /\ EnergyOver(PowerOver(b, hours), hours) = b
    BY PowerRoundTrip
  <1>3. EnergyOver(limit, hours) \in Nat
    BY <1>1, EnergyOverNat
  <1>4. ASSUME NEW p \in Nat, NEW q \in Nat
        PROVE  EnergyOver(Least(p, q), hours) = Least(EnergyOver(p, hours), EnergyOver(q, hours))
    <2>1. EnergyOver(p, hours) \in Nat /\ EnergyOver(q, hours) \in Nat
      BY <1>1, EnergyOverNat
    <2>2. p <= q => EnergyOver(p, hours) <= EnergyOver(q, hours)
      BY <1>1, EnergyOverMonotone
    <2>3. q <= p => EnergyOver(q, hours) <= EnergyOver(p, hours)
      BY <1>1, EnergyOverMonotone
    <2> QED
      BY <2>1, <2>2, <2>3 DEF Least
  <1>5. Least(limit, PowerOver(b, hours)) \in Nat
    BY <1>2 DEF Least
  <1>6. Least(PowerOver(a, hours), Least(limit, PowerOver(b, hours))) \in Nat
    BY <1>2, <1>5 DEF Least
  <1> QED
    BY <1>2, <1>4, <1>5, <1>6

\* The energy of a decision is all that the net energy, the power limit and the window
\* allow.
LEMMA DecideBinds ==
    ASSUME NEW m \in Measured, MeasurementAccepted(m), ExactDuration(m.hours)
    PROVE  LET c == Decide(Limits, m)
               energy == EnergyOver(c.power, m.hours)
           IN  /\ Magnitude(m.net) <= BalanceTolerance => c.action = "Idle"
               /\ m.net > BalanceTolerance =>
                    /\ c.action \in {"ChargeBattery", "Idle"}
                    /\ energy = Least(m.net, Least(EnergyOver(Limits.maxCharge, m.hours),
                                                  Greatest(0, Limits.maxSoc - m.soc)))
               /\ -m.net > BalanceTolerance =>
                    /\ c.action \in {"DischargeBattery", "Idle"}
                    /\ energy = Least(-m.net, Least(EnergyOver(Limits.maxDischarge, m.hours),
                                                   Greatest(0, m.soc - Limits.minSoc)))
               /\ c.action = "Idle" => energy = 0
  <1> DEFINE c == Decide(Limits, m)
             room == Greatest(0, Limits.maxSoc - m.soc)
             stock == Greatest(0, m.soc - Limits.minSoc)
             charge == Least(PowerOver(m.net, m.hours),
                             Least(Limits.maxCharge, PowerOver(room, m.hours)))
             discharge == Least(PowerOver(Magnitude(m.net), m.hours),
                                Least(Limits.maxDischarge, PowerOver(stock, m.hours)))
  <1>1. /\ m.net \in Int /\ m.soc \in Nat /\ m.hours \in Nat
        /\ Limits.maxCharge \in Nat /\ Limits.maxDischarge \in Nat
        /\ Limits.minSoc \in Nat /\ Limits.maxSoc \in Nat
        /\ BalanceTolerance \in Nat
    BY LoopAssumption, UnitsAssumption DEF Measured
  <1>2. room \in Nat /\ stock \in Nat
    BY <1>1 DEF Greatest
  <1>3. CommandValid(c) /\ c.power \in Nat
    BY DecideSound
  <1>4. c.action = "Idle" => EnergyOver(c.power, m.hours) = 0
    <2>1. c.action = "Idle" => c.power = 0
      BY <1>3 DEF CommandValid
    <2>2. EnergyOver(0, m.hours) = 0
      BY <1>1, UnitsAssumption DEF EnergyOver
    <2> QED
      BY <2>1, <2>2
  <1>5. CASE Magnitude(m.net) <= BalanceTolerance
    <2>1. c = [step |-> m.step, action |-> "Idle", power |-> 0]
      BY <1>5 DEF Decide, Command
    <2>2. ~(m.net > BalanceTolerance) /\ ~(-m.net > BalanceTolerance)
      BY <1>1, <1>5 DEF Magnitude
    <2> QED
      BY <1>4, <2>1, <2>2
  <1>6. CASE m.net > BalanceTolerance
    <2>1. /\ ~(Magnitude(m.net) <= BalanceTolerance) /\ m.net > 0 /\ m.net \in Nat
          /\ ~(-m.net > BalanceTolerance)
      BY <1>1, <1>6 DEF Magnitude
    <2>2. c = Command(m, "ChargeBattery", charge)
      BY <2>1 DEF Decide, DecideSurplus
    <2>3. /\ charge \in Nat
          /\ EnergyOver(charge, m.hours) =
               Least(m.net, Least(EnergyOver(Limits.maxCharge, m.hours), room))
      <3> HIDE DEF room
      <3>1. m.net \in Nat /\ Limits.maxCharge \in Nat /\ room \in Nat
        BY <1>1, <1>2, <2>1
      <3> QED  BY <3>1, LeastEnergy
    <2> HIDE DEF c, charge, room, stock, discharge
    <2>4. c.action \in {"ChargeBattery", "Idle"} /\ c.power = charge
      BY <2>2, <2>3 DEF Command
    <2> QED
      BY <1>4, <2>1, <2>3, <2>4 DEF c, room
  <1>7. CASE -m.net > BalanceTolerance
    <2>1. /\ ~(Magnitude(m.net) <= BalanceTolerance) /\ ~(m.net > 0)
          /\ Magnitude(m.net) = -m.net /\ -m.net \in Nat
          /\ ~(m.net > BalanceTolerance)
      BY <1>1, <1>7 DEF Magnitude
    <2>2. c = Command(m, "DischargeBattery", discharge)
      BY <2>1 DEF Decide, DecideDeficit
    <2>3. /\ discharge \in Nat
          /\ EnergyOver(discharge, m.hours) =
               Least(-m.net, Least(EnergyOver(Limits.maxDischarge, m.hours), stock))
      <3> HIDE DEF stock
      <3>1. -m.net \in Nat /\ Limits.maxDischarge \in Nat /\ stock \in Nat
        BY <1>1, <1>2, <2>1
      <3>2. discharge = Least(PowerOver(-m.net, m.hours),
                              Least(Limits.maxDischarge, PowerOver(stock, m.hours)))
        BY <2>1
      <3> HIDE DEF discharge
      <3> QED  BY <3>1, <3>2, LeastEnergy
    <2> HIDE DEF c, charge, room, stock, discharge
    <2>4. c.action \in {"DischargeBattery", "Idle"} /\ c.power = discharge
      BY <2>2, <2>3 DEF Command
    <2> QED
      BY <1>4, <2>1, <2>3, <2>4 DEF c, stock
  <1>8. \/ Magnitude(m.net) <= BalanceTolerance
        \/ m.net > BalanceTolerance \/ -m.net > BalanceTolerance
    BY <1>1 DEF Magnitude
  <1> QED
    BY <1>5, <1>6, <1>7, <1>8

\* What the plant does of it: everything, when the window is inside the battery.
LEMMA AppliedSound ==
    ASSUME ClosedInv, Apply
    PROVE  LET s == LoopStep
               energy == EnergyOver(decision.power, measurement.hours)
           IN  /\ Limits.maxSoc <= scenario.battery.capacity =>
                    s.charged + s.discharged = energy
               /\ s.imported + s.unserved > 0 =>
                    \/ s.after <= Limits.minSoc
                    \/ s.discharged = EnergyOver(Limits.maxDischarge, measurement.hours)
               /\ s.exported + s.curtailed > 0 =>
                    \/ s.after >= Least(Limits.maxSoc, scenario.battery.capacity)
                    \/ s.charged = EnergyOver(Limits.maxCharge, measurement.hours)
  <1> DEFINE m == measurement
             energy == EnergyOver(decision.power, m.hours)
             capacity == scenario.battery.capacity
  <1>1. /\ Inv /\ TypeOK /\ PhaseOK /\ pc = "apply" /\ decision.action \in KnownAction
        /\ ~NotANumber /\ MeasurementAccepted(m) /\ decision = Decide(Limits, m)
        /\ m.soc = soc
    BY DEF ClosedInv, Asked, Apply, Inv, PhaseOK
  <1>2. m \in Measured /\ ExactDuration(m.hours)
    BY <1>1, PendingDuration
  <1>3. /\ capacity \in Nat /\ soc \in 0 .. capacity /\ soc \in Nat
        /\ m.net \in Int /\ m.hours \in Nat
        /\ Limits.maxCharge \in Nat /\ Limits.maxDischarge \in Nat
        /\ Limits.minSoc \in Nat /\ Limits.maxSoc \in Nat
        /\ BalanceTolerance \in Nat
    BY <1>1, <1>2, ScenarioParts, LoopAssumption, UnitsAssumption DEF TypeOK, Measured
  <1>4. /\ EnergyOver(Limits.maxCharge, m.hours) \in Nat
        /\ EnergyOver(Limits.maxDischarge, m.hours) \in Nat
    BY <1>3, EnergyOverNat
  <1>5. decision.power \in Nat /\ energy \in Nat
    BY <1>1, <1>2, DecideSound
  <1>6. Requested = energy
    BY <1>5 DEF Requested, Greatest
  <1>7. m.net = 0 \/ m.net > BalanceTolerance \/ -m.net > BalanceTolerance
    <2>1. m.net = NetEnergy(m.generated, m.consumed)
      BY <1>1 DEF PhaseOK
    <2>2. m.generated \in Int /\ m.consumed \in Int
      BY <1>2 DEF Measured
    <2> QED
      BY <1>3, <2>1, <2>2 DEF NetEnergy, Magnitude
  <1>8. /\ decision.action = "Idle" => energy = 0
        /\ m.net > BalanceTolerance =>
             /\ decision.action \in {"ChargeBattery", "Idle"}
             /\ energy = Least(m.net, Least(EnergyOver(Limits.maxCharge, m.hours),
                                           Greatest(0, Limits.maxSoc - soc)))
        /\ -m.net > BalanceTolerance =>
             /\ decision.action \in {"DischargeBattery", "Idle"}
             /\ energy = Least(-m.net, Least(EnergyOver(Limits.maxDischarge, m.hours),
                                            Greatest(0, soc - Limits.minSoc)))
        /\ m.net = 0 => decision.action = "Idle"
    BY <1>1, <1>2, <1>3, DecideBinds DEF Magnitude
  <1>9. /\ LoopStep.charged = Charged /\ LoopStep.discharged = Discharged
        /\ LoopStep.after = soc + Charged - Discharged
    BY DEF LoopStep
  <1>10. /\ Charged + LoopStep.exported + LoopStep.curtailed = Surplus(m.net)
         /\ Discharged + LoopStep.imported + LoopStep.unserved = Deficit(m.net)
         /\ LoopStep.exported \in Nat /\ LoopStep.curtailed \in Nat
         /\ LoopStep.imported \in Nat /\ LoopStep.unserved \in Nat
         /\ Charged \in Nat /\ Discharged \in Nat
    BY <1>1, <1>9, LoopStepSound DEF RecordedStep
  <1> HIDE DEF energy, m, capacity
  <1>11. /\ Charged = IF decision.action = "ChargeBattery"
                      THEN Least(Least(energy, Surplus(m.net)), capacity - soc) ELSE 0
         /\ Discharged = IF decision.action = "DischargeBattery"
                         THEN Least(Least(energy, Deficit(m.net)), soc) ELSE 0
    BY <1>6 DEF Charged, Discharged, ChargeAccepted, DischargeDelivered, m, capacity
  <1>12. CASE m.net = 0
    <2>1. Charged = 0 /\ Discharged = 0 /\ energy = 0
          /\ Surplus(m.net) = 0 /\ Deficit(m.net) = 0
      <3>1. Surplus(m.net) = 0 /\ Deficit(m.net) = 0
        <4>1. m.net \in Int
          BY <1>3 DEF m
        <4>2. Surplus(m.net) <= 0 /\ Surplus(m.net) \in Nat
          BY <1>12, <4>1 DEF Surplus, Greatest
        <4>3. Deficit(m.net) <= 0 /\ Deficit(m.net) \in Nat
          BY <1>12, <4>1 DEF Deficit, Greatest
        <4> QED  BY <4>2, <4>3
      <3>2. decision.action = "Idle" /\ energy = 0
        BY <1>8, <1>12
      <3> QED  BY <1>11, <3>1, <3>2
    <2>2. /\ ~(LoopStep.imported + LoopStep.unserved > 0)
          /\ ~(LoopStep.exported + LoopStep.curtailed > 0)
      <3>1. /\ LoopStep.exported \in Nat /\ LoopStep.curtailed \in Nat
            /\ 0 + LoopStep.exported + LoopStep.curtailed = 0
        BY <1>10, <2>1
      <3>2. /\ LoopStep.imported \in Nat /\ LoopStep.unserved \in Nat
            /\ 0 + LoopStep.imported + LoopStep.unserved = 0
        BY <1>10, <2>1
      <3>3. ~(LoopStep.imported + LoopStep.unserved > 0)
        BY ONLY <3>2
      <3>4. ~(LoopStep.exported + LoopStep.curtailed > 0)
        BY ONLY <3>1
      <3> QED  BY <3>3, <3>4
    <2>3. LoopStep.charged + LoopStep.discharged = energy
      BY <1>9, <2>1
    <2> QED
      BY <2>2, <2>3 DEF energy, m
  <1>13. CASE m.net > BalanceTolerance
    <2> DEFINE limit == EnergyOver(Limits.maxCharge, m.hours)
    <2>1. Surplus(m.net) = m.net /\ Deficit(m.net) = 0 /\ m.net \in Nat
      BY <1>3, <1>13 DEF Surplus, Deficit, Greatest, m
    <2>2. Discharged = 0 /\ LoopStep.imported + LoopStep.unserved = 0
      BY <1>8, <1>10, <1>11, <1>13, <2>1
    <2>3. energy = Least(m.net, Least(limit, Greatest(0, Limits.maxSoc - soc)))
      BY <1>8, <1>13
    <2>4. Charged = Least(energy, capacity - soc)
      <3>1. decision.action = "ChargeBattery" => Charged = Least(energy, capacity - soc)
        <4>1. Least(energy, Surplus(m.net)) = energy
          BY <1>3, <1>4, <2>1, <2>3 DEF Least, Greatest, m, energy
        <4> QED  BY <1>11, <4>1
      <3>2. decision.action # "ChargeBattery" => Charged = 0 /\ energy = 0
        BY <1>8, <1>11, <1>13
      <3>3. Least(0, capacity - soc) = 0
        BY <1>3 DEF Least, capacity
      <3> QED  BY <3>1, <3>2, <3>3
    <2>5. limit \in Nat
      BY <1>4 DEF m
    <2> HIDE DEF limit
    <2>6. Limits.maxSoc <= capacity => Charged = energy
      BY <1>3, <2>1, <2>3, <2>4, <2>5 DEF Least, Greatest, capacity
    <2>7. Charged < m.net =>
            soc + Charged >= Least(Limits.maxSoc, capacity) \/ Charged = limit
      BY <1>3, <2>1, <2>3, <2>4, <2>5 DEF Least, Greatest, capacity
    <2>8. LoopStep.exported + LoopStep.curtailed > 0 => Charged < m.net
      BY <1>10, <2>1
    <2>9. LoopStep.exported + LoopStep.curtailed > 0 =>
            \/ LoopStep.after >= Least(Limits.maxSoc, capacity)
            \/ LoopStep.charged = limit
      <3>1. LoopStep.after = soc + Charged
        BY <1>3, <1>9, <1>10, <2>2
      <3> QED  BY <1>9, <2>7, <2>8, <3>1
    <2>10. Limits.maxSoc <= capacity => LoopStep.charged + LoopStep.discharged = energy
      <3>1. LoopStep.charged + LoopStep.discharged = Charged
        BY <1>9, <1>10, <2>2
      <3> QED  BY <2>6, <3>1
    <2>11. ~(LoopStep.imported + LoopStep.unserved > 0)
      BY <2>2
    <2> QED
      BY <2>9, <2>10, <2>11 DEF energy, m, capacity, limit
  <1>14. CASE -m.net > BalanceTolerance
    <2> DEFINE limit == EnergyOver(Limits.maxDischarge, m.hours)
    <2>1. Deficit(m.net) = -m.net /\ Surplus(m.net) = 0 /\ -m.net \in Nat
      BY <1>3, <1>14 DEF Surplus, Deficit, Greatest, m
    <2>2. Charged = 0 /\ LoopStep.exported + LoopStep.curtailed = 0
      BY <1>8, <1>10, <1>11, <1>14, <2>1
    <2>3. energy = Least(-m.net, Least(limit, Greatest(0, soc - Limits.minSoc)))
      BY <1>8, <1>14
    <2>4. limit \in Nat
      BY <1>4 DEF m
    <2> HIDE DEF limit
    <2>5. energy <= -m.net /\ energy <= soc /\ 0 <= energy
      BY <1>3, <2>1, <2>3, <2>4 DEF Least, Greatest
    <2>6. Discharged = energy
      <3>1. Least(Least(energy, Deficit(m.net)), soc) = energy
        BY <2>1, <2>5 DEF Least
      <3> QED  BY <1>8, <1>11, <1>14, <3>1
    <2>7. energy < -m.net => soc - energy <= Limits.minSoc \/ energy = limit
      BY <1>3, <2>1, <2>3, <2>4 DEF Least, Greatest
    <2>8. LoopStep.imported + LoopStep.unserved > 0 => Discharged < -m.net
      BY <1>10, <2>1
    <2>9. LoopStep.imported + LoopStep.unserved > 0 =>
            LoopStep.after <= Limits.minSoc \/ LoopStep.discharged = limit
      <3>1. LoopStep.after = soc - energy
        <4> HIDE DEF capacity
        <4> QED  BY <1>3, <1>9, <1>10, <2>2, <2>6
      <3>2. LoopStep.discharged = energy
        BY <1>9, <2>6
      <3> QED  BY <2>6, <2>7, <2>8, <3>1, <3>2
    <2>10. LoopStep.charged + LoopStep.discharged = energy
      BY <1>9, <1>10, <2>2, <2>6
    <2>11. ~(LoopStep.exported + LoopStep.curtailed > 0)
      BY <2>2
    <2> QED
      BY <2>9, <2>10, <2>11 DEF energy, m, capacity, limit
  <1> QED
    BY <1>7, <1>12, <1>13, <1>14

\* Every recorded interval has what the last one applied has.
FullUse == NothingLeftUnused /\ AppliedAsDecided

LEMMA ApplyKeepsFullUse ==
    ASSUME ClosedInv, Apply, FullUse
    PROVE  FullUse'
  <1>1. /\ Inv /\ TypeOK /\ pc = "apply" /\ decision.action \in KnownAction /\ ~NotANumber
    BY DEF ClosedInv, Inv, Apply
  <1>2. /\ Len(steps) \in Nat /\ Len(steps') = Len(steps) + 1
        /\ \A i \in 1 .. Len(steps) : steps'[i] = steps[i]
        /\ steps'[Len(steps) + 1].step = LoopStep
        /\ UNCHANGED scenario
    BY <1>1, ApplyRecords DEF TypeOK
  <1>3. \A i \in 1 .. Len(steps') : i \in 1 .. Len(steps) \/ i = Len(steps) + 1
    BY <1>2
  <1>4. LoopStep.measurement = measurement /\ LoopStep.decision = decision
    BY <1>1, LoopStepSound
  <1>5. NothingLeftUnused'
    <2>1. ASSUME NEW i \in 1 .. Len(steps')
          PROVE  LET s == steps'[i].step
                     hours == s.measurement.hours
                 IN  /\ s.imported + s.unserved > 0 =>
                          \/ s.after <= Limits.minSoc
                          \/ s.discharged = EnergyOver(Limits.maxDischarge, hours)
                     /\ s.exported + s.curtailed > 0 =>
                          \/ s.after >= Least(Limits.maxSoc, scenario.battery.capacity)
                          \/ s.charged = EnergyOver(Limits.maxCharge, hours)
      <3>1. CASE i \in 1 .. Len(steps)
        BY <1>2, <3>1 DEF FullUse, NothingLeftUnused
      <3>2. CASE i = Len(steps) + 1
        BY <1>2, <1>4, <3>2, AppliedSound
      <3> QED  BY <1>3, <2>1, <3>1, <3>2
    <2> QED
      BY <1>2, <2>1 DEF NothingLeftUnused
  <1>6. AppliedAsDecided'
    <2>1. ASSUME Limits.maxSoc <= scenario.battery.capacity,
                 NEW i \in 1 .. Len(steps')
          PROVE  LET s == steps'[i].step
                 IN  s.charged + s.discharged =
                         EnergyOver(s.decision.power, s.measurement.hours)
      <3>1. CASE i \in 1 .. Len(steps)
        BY <1>2, <2>1, <3>1 DEF FullUse, AppliedAsDecided
      <3>2. CASE i = Len(steps) + 1
        BY <1>2, <1>4, <2>1, <3>2, AppliedSound
      <3> QED  BY <1>3, <2>1, <3>1, <3>2
    <2> QED
      BY <1>2, <2>1 DEF AppliedAsDecided
  <1> QED
    BY <1>5, <1>6 DEF FullUse

LEMMA FullUseInductive == ClosedInv /\ FullUse /\ [ClosedNext]_vars => FullUse'
  <1> SUFFICES ASSUME ClosedInv, FullUse, [ClosedNext]_vars PROVE FullUse'
    OBVIOUS
  <1>1. CASE Apply
    BY <1>1, ApplyKeepsFullUse
  <1>2. CASE UNCHANGED <<scenario, soc, steps>>
    BY <1>2 DEF FullUse, NothingLeftUnused, AppliedAsDecided
  <1>3. CASE ControllerAnswers
    BY <1>2, <1>3, ControllerAnswersSound, OtherStepsQuiet DEF ClosedInv
  <1>4. CASE Measure \/ Return \/ ProviderFails \/ UNCHANGED vars
    BY <1>2, <1>4, OtherStepsQuiet DEF ClosedInv
  <1> QED
    BY <1>1, <1>3, <1>4 DEF ClosedNext, PlantStep

LEMMA InitFullUse == Init => FullUse
  <1> SUFFICES ASSUME Init PROVE FullUse
    OBVIOUS
  <1>1. Len(steps) = 0
    BY DEF Init
  <1> QED
    BY <1>1 DEF FullUse, NothingLeftUnused, AppliedAsDecided

LEMMA ClosedLoopFullUse == ClosedLoop => []FullUse
  <1> QED
    BY InitFullUse, FullUseInductive, ClosedLoopInv, PTL DEF ClosedLoop

\* With the controller in the loop, energy is exchanged with the outside only at the edge
\* of the window or with the power limit used in full.
THEOREM ClosedLoopNothingLeftUnused == ClosedLoop => []NothingLeftUnused
  <1>1. FullUse => NothingLeftUnused
    BY DEF FullUse
  <1> QED
    BY <1>1, ClosedLoopFullUse, PTL

\* With a window inside the battery, the plant carries out every decision in full.
THEOREM ClosedLoopAppliedAsDecided == ClosedLoop => []AppliedAsDecided
  <1>1. FullUse => AppliedAsDecided
    BY DEF FullUse
  <1> QED
    BY <1>1, ClosedLoopFullUse, PTL

=============================================================================
