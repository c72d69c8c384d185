------------------------ MODULE ScenarioComparisonProofs ------------------------
(***************************************************************************)
(* Proofs about the reference and about the comparison of the two runs: the  *)
(* reference keeps the ledger, no controller beats it, and the C++ rule      *)
(* with limits that do not bind does what it does.                           *)
(***************************************************************************)
EXTENDS ScenarioComparison, ControllerLoopProofs

\* The plant of the reference is the plant of the controller's run.
LEMMA ReferencePlant ==
    /\ Reference!NoTotals = NoTotals
    /\ Reference!RunningTotals = RunningTotals
    /\ Reference!Measured = Measured
    /\ \A t, s : Reference!AddStep(t, s) = AddStep(t, s)
    /\ \A a, b : Reference!Least(a, b) = Least(a, b)
    /\ \A a, b : Reference!Greatest(a, b) = Greatest(a, b)
    /\ \A a : Reference!Magnitude(a) = Magnitude(a)
    /\ \A p, h : Reference!EnergyOver(p, h) = EnergyOver(p, h)
    /\ \A i : Reference!Generated(i) = Generated(i)
    /\ \A i : Reference!Consumed(i) = Consumed(i)
    /\ \A g, c : Reference!NetEnergy(g, c) = NetEnergy(g, c)
    /\ \A n : Reference!Surplus(n) = Surplus(n)
    /\ \A n : Reference!Deficit(n) = Deficit(n)
    /\ \A c, b, r : Reference!ChargeAccepted(c, b, r) = ChargeAccepted(c, b, r)
    /\ \A b, r : Reference!DischargeDelivered(b, r) = DischargeDelivered(b, r)
    /\ \A a, p, r, h : Reference!Transferred(a, p, r, h) = Transferred(a, p, r, h)
    /\ \A r, t : Reference!Remaining(r, t) = Remaining(r, t)
    /\ \A m : Reference!SnapshotValid(m) = SnapshotValid(m)
  <1>1. /\ Reference!NoTotals = NoTotals
        /\ Reference!RunningTotals = RunningTotals
        /\ Reference!Measured = Measured
    BY DEF Reference!NoTotals, NoTotals, Reference!RunningTotals, RunningTotals,
           Reference!Measured, Measured
  <1>2. \A t, s : Reference!AddStep(t, s) = AddStep(t, s)
    BY DEF Reference!AddStep, AddStep
  <1>3. /\ \A a, b : Reference!Least(a, b) = Least(a, b)
        /\ \A a, b : Reference!Greatest(a, b) = Greatest(a, b)
        /\ \A a : Reference!Magnitude(a) = Magnitude(a)
        /\ \A p, h : Reference!EnergyOver(p, h) = EnergyOver(p, h)
    BY DEF Reference!Least, Least, Reference!Greatest, Greatest, Reference!Magnitude,
           Magnitude, Reference!EnergyOver, EnergyOver
  <1>4. /\ \A i : Reference!Generated(i) = Generated(i)
        /\ \A i : Reference!Consumed(i) = Consumed(i)
    BY DEF Reference!Generated, Generated, Reference!Consumed, Consumed
  <1>5. /\ \A g, c : Reference!NetEnergy(g, c) = NetEnergy(g, c)
        /\ \A n : Reference!Surplus(n) = Surplus(n)
        /\ \A n : Reference!Deficit(n) = Deficit(n)
    BY <1>3 DEF Reference!NetEnergy, NetEnergy, Reference!Surplus, Surplus,
                Reference!Deficit, Deficit
  <1>6. /\ \A c, b, r : Reference!ChargeAccepted(c, b, r) = ChargeAccepted(c, b, r)
        /\ \A b, r : Reference!DischargeDelivered(b, r) = DischargeDelivered(b, r)
    BY <1>3 DEF Reference!ChargeAccepted, ChargeAccepted,
                Reference!DischargeDelivered, DischargeDelivered
  <1>7. /\ \A a, p, r, h : Reference!Transferred(a, p, r, h) = Transferred(a, p, r, h)
        /\ \A r, t : Reference!Remaining(r, t) = Remaining(r, t)
    BY <1>3 DEF Reference!Transferred, Transferred, Reference!Remaining, Remaining
  <1>8. \A m : Reference!SnapshotValid(m) = SnapshotValid(m)
    BY <1>3 DEF Reference!SnapshotValid, SnapshotValid, Reference!SnapshotTolerance,
                SnapshotTolerance
  <1> QED
    BY <1>1, <1>2, <1>3, <1>4, <1>5, <1>6, <1>7, <1>8

-----------------------------------------------------------------------------

\* An element of the record has its type.
LEMMA ResultAt ==
    ASSUME Reference!TypeOK, NEW i \in 1 .. Len(refResults)
    PROVE  /\ refResults[i].step \in Reference!ManagedStep
           /\ refResults[i].totals \in RunningTotals
  <1> DEFINE S == [step: Reference!ManagedStep, totals: RunningTotals]
  <1>1. refResults \in Seq(S)
    BY ReferencePlant DEF Reference!TypeOK
  <1>2. refResults[i] \in S
    <2> HIDE DEF S
    <2> QED  BY <1>1
  <1> QED
    BY <1>2

\* The running sums stay naturals.
LEMMA ResultTotals ==
    ASSUME Reference!TypeOK, NEW s \in Reference!ManagedStep
    PROVE  /\ Reference!Totals \in RunningTotals
           /\ AddStep(Reference!Totals, s) \in RunningTotals
  <1>1. Reference!Totals \in RunningTotals
    <2>1. CASE refResults = <<>>
      BY <2>1, ReferencePlant DEF Reference!Totals, NoTotals, RunningTotals
    <2>2. CASE refResults # <<>>
      <3>1. Len(refResults) \in 1 .. Len(refResults)
        BY <2>2 DEF Reference!TypeOK
      <3> QED  BY <2>2, <3>1, ResultAt DEF Reference!Totals
    <2> QED  BY <2>1, <2>2
  <1>2. AddStep(Reference!Totals, s) \in RunningTotals
    BY <1>1, ReferencePlant DEF RunningTotals, AddStep, Reference!ManagedStep, Measured
  <1> QED
    BY <1>1, <1>2

\* What the grid takes or gives of an energy.
GridShare(maxPower, energy, hours) ==
    IF energy > 0 THEN Transferred(scenario.grid.available, maxPower, energy, hours) ELSE 0

\* What the reference makes of an interval: the battery takes or gives as much as it
\* can, the surplus and the deficit are shared out completely, and the measurement
\* made of it is valid.
LEMMA ManagedSound ==
    ASSUME Reference!TypeOK, NEW interval \in Interval
    PROVE  LET s == Reference!Managed(interval)
               net == NetEnergy(Generated(interval), Consumed(interval))
               cap == scenario.battery.capacity
           IN  /\ s \in Reference!ManagedStep
               /\ s.after \in 0 .. cap
               /\ s.after = refSoc + s.charged - s.discharged
               /\ s.charged = Least(Surplus(net), cap - refSoc)
               /\ s.discharged = Least(Deficit(net), refSoc)
               /\ s.charged + s.exported + s.curtailed = Surplus(net)
               /\ s.discharged + s.imported + s.unserved = Deficit(net)
               /\ s.exported = GridShare(scenario.grid.maxExport,
                                         Surplus(net) - s.charged, interval.hours)
               /\ s.imported = GridShare(scenario.grid.maxImport,
                                         Deficit(net) - s.discharged, interval.hours)
               /\ s.measurement.generated = Generated(interval)
               /\ s.measurement.consumed = Consumed(interval)
               /\ SnapshotValid(s.measurement)
  <1> DEFINE s == Reference!Managed(interval)
             g == Generated(interval)
             c == Consumed(interval)
             net == NetEnergy(g, c)
             cap == scenario.battery.capacity
             dispatched == Reference!Dispatched(net)
             remaining == Remaining(Magnitude(net), dispatched)
             maxPower == IF net > 0 THEN scenario.grid.maxExport
                                    ELSE scenario.grid.maxImport
             sent == Transferred(scenario.grid.available, maxPower,
                                 remaining, interval.hours)
             transferred == IF remaining > 0 THEN sent ELSE 0
             unresolved == Remaining(remaining, transferred)
             after == refSoc + (IF net > 0 THEN dispatched ELSE 0)
                          - (IF net < 0 THEN dispatched ELSE 0)
             imported == IF net < 0 THEN transferred ELSE 0
             exported == IF net > 0 THEN transferred ELSE 0
             m == [step |-> Len(refResults) + 1, elapsed |-> refElapsed + interval.hours,
                   hours |-> interval.hours, generated |-> g, consumed |-> c,
                   net |-> net, soc |-> after, imported |-> imported,
                   exported |-> exported, unresolved |-> unresolved]
  <1>1. /\ cap \in Nat /\ refSoc \in Nat /\ refSoc <= cap /\ refElapsed \in Nat
        /\ Len(refResults) \in Nat
        /\ scenario.grid.available \in BOOLEAN
        /\ scenario.grid.maxExport \in Nat /\ scenario.grid.maxImport \in Nat
        /\ interval.hours \in Nat \ {0}
    BY ScenarioParts DEF Reference!TypeOK, Interval
  <1>2. /\ g \in Nat /\ c \in Nat /\ net \in Int
        /\ (g - c) - net \in -BalanceTolerance .. BalanceTolerance
    BY BalanceOfInterval
  <1>3. s = [measurement |-> m,
             charged    |-> IF net > 0 THEN dispatched ELSE 0,
             discharged |-> IF net < 0 THEN dispatched ELSE 0,
             after      |-> after,
             imported   |-> imported,
             exported   |-> exported,
             curtailed  |-> IF net > 0 THEN unresolved ELSE 0,
             unserved   |-> IF net < 0 THEN unresolved ELSE 0]
    BY ReferencePlant DEF Reference!Managed
  <1> HIDE DEF s, g, c, net, cap
  <1>4. /\ dispatched \in Nat /\ dispatched <= Magnitude(net)
        /\ net > 0 => dispatched = Least(Surplus(net), cap - refSoc)
        /\ net < 0 => dispatched = Least(Deficit(net), refSoc)
        /\ net = 0 => dispatched = 0
        /\ net > 0 => dispatched <= cap - refSoc
        /\ net < 0 => dispatched <= refSoc
    BY <1>1, <1>2, ReferencePlant
    DEF Reference!Dispatched, ChargeAccepted, DischargeDelivered, Least, Surplus,
        Deficit, Greatest, Magnitude, cap
  <1>5. remaining \in Nat /\ remaining = Magnitude(net) - dispatched
    <2> HIDE DEF dispatched
    <2> QED  BY <1>2, <1>4 DEF Remaining, Greatest, Magnitude
  <1> HIDE DEF dispatched, remaining
  <1>6. /\ sent \in Nat /\ Remaining(remaining, sent) \in Nat
        /\ sent + Remaining(remaining, sent) = remaining
    <2>1. maxPower \in Nat /\ interval.hours \in Nat
      BY <1>1
    <2> HIDE DEF maxPower
    <2>2. EnergyOver(maxPower, interval.hours) \in Nat
      BY <2>1, EnergyOverNat
    <2> QED
      BY <1>5, <2>2 DEF Transferred, Remaining, Least, Greatest
  <1> HIDE DEF sent
  <1>7. /\ transferred \in Nat /\ unresolved \in Nat
        /\ transferred + unresolved = remaining
    BY <1>5, <1>6 DEF Remaining, Greatest
  <1> HIDE DEF transferred, unresolved
  <1>8. /\ after \in 0 .. cap
        /\ imported \in Nat /\ exported \in Nat
        /\ imported = 0 \/ exported = 0
    BY <1>1, <1>2, <1>4, <1>7
  <1>9. /\ m.step \in Nat /\ m.elapsed \in Nat /\ m.soc \in Nat
        /\ m.step > 0 /\ m.elapsed > 0 /\ m.hours > 0
    BY <1>1, <1>8
  <1>10. m \in Measured
    <2> HIDE DEF after, imported, exported
    <2> QED  BY <1>1, <1>2, <1>7, <1>8 DEF Measured
  <1>11. SnapshotValid(m)
    <2> HIDE DEF after, imported, exported
    <2>1. Greatest(g, c) \div NetRelativeDivisor \in Nat
      BY <1>2, UnitsAssumption, QuotientNat DEF Greatest
    <2>2. Magnitude(net - (g - c)) <= NetAbsoluteTolerance /\ Magnitude(net - (g - c)) \in Nat
      BY <1>2, UnitsAssumption DEF Magnitude
    <2>3. SnapshotTolerance(m) = NetAbsoluteTolerance + Greatest(g, c) \div NetRelativeDivisor
      BY DEF SnapshotTolerance
    <2>4. Magnitude(m.net - (m.generated - m.consumed)) <= SnapshotTolerance(m)
      BY <2>1, <2>2, <2>3, UnitsAssumption
    <2> QED
      BY <1>1, <1>2, <1>7, <1>8, <1>9, <2>4 DEF SnapshotValid
  <1>12. s.measurement = m /\ m.generated = g /\ m.consumed = c
    BY <1>3
  <1> HIDE DEF m, after, imported, exported
  <1>13. s \in Reference!ManagedStep
    BY <1>3, <1>4, <1>7, <1>8, <1>10, ReferencePlant DEF Reference!ManagedStep
  <1>14. s.after = refSoc + s.charged - s.discharged /\ s.after \in 0 .. cap
    BY <1>3, <1>8 DEF after
  <1>15. /\ s.charged = Least(Surplus(net), cap - refSoc)
         /\ s.discharged = Least(Deficit(net), refSoc)
    BY <1>1, <1>2, <1>3, <1>4 DEF Least, Surplus, Deficit, Greatest
  <1>16. s.charged + s.exported + s.curtailed = Surplus(net)
    BY <1>1, <1>2, <1>3, <1>4, <1>5, <1>7 DEF Surplus, Greatest, Magnitude, exported
  <1>17. s.discharged + s.imported + s.unserved = Deficit(net)
    BY <1>1, <1>2, <1>3, <1>4, <1>5, <1>7 DEF Deficit, Greatest, Magnitude, imported
  <1>18. s.exported = GridShare(scenario.grid.maxExport,
                                Surplus(net) - s.charged, interval.hours)
    <2>1. CASE net > 0
      <3>1. Surplus(net) - s.charged = remaining /\ s.exported = transferred
        BY <1>2, <1>3, <1>5, <2>1 DEF Surplus, Greatest, Magnitude, exported
      <3> QED  BY <2>1, <3>1 DEF GridShare, transferred, sent, maxPower
    <2>2. CASE ~(net > 0)
      <3>1. Surplus(net) - s.charged = 0 /\ s.exported = 0
        BY <1>2, <1>3, <2>2 DEF Surplus, Greatest, exported
      <3> QED  BY <3>1 DEF GridShare
    <2> QED  BY <2>1, <2>2
  <1>19. s.imported = GridShare(scenario.grid.maxImport,
                                Deficit(net) - s.discharged, interval.hours)
    <2>1. CASE net < 0
      <3>1. Deficit(net) - s.discharged = remaining /\ s.imported = transferred
        BY <1>2, <1>3, <1>5, <2>1 DEF Deficit, Greatest, Magnitude, imported
      <3> QED  BY <1>2, <2>1, <3>1 DEF GridShare, transferred, sent, maxPower
    <2>2. CASE ~(net < 0)
      <3>1. Deficit(net) - s.discharged = 0 /\ s.imported = 0
        BY <1>2, <1>3, <2>2 DEF Deficit, Greatest, imported
      <3> QED  BY <3>1 DEF GridShare
    <2> QED  BY <2>1, <2>2
  <1> QED
    BY <1>11, <1>12, <1>13, <1>14, <1>15, <1>16, <1>17, <1>18, <1>19
    DEF s, g, c, net, cap

-----------------------------------------------------------------------------

\* The interval RunInterval records, as the other proofs use it.
LEMMA RunIntervalRecords ==
    ASSUME Reference!TypeOK, Reference!RunInterval
    PROVE  LET s == Reference!Managed(scenario.steps[Len(refResults) + 1])
               new == [step |-> s, totals |-> AddStep(Reference!Totals, s)]
           IN  /\ scenario.steps[Len(refResults) + 1] \in Interval
               /\ Len(refResults) < Len(scenario.steps)
               /\ new \in [step: Reference!ManagedStep, totals: RunningTotals]
               /\ refResults' = Append(refResults, new)
               /\ Len(refResults') = Len(refResults) + 1
               /\ \A i \in 1 .. Len(refResults) : refResults'[i] = refResults[i]
               /\ refResults'[Len(refResults) + 1] = new
               /\ Reference!Totals' = AddStep(Reference!Totals, s)
               /\ refSoc' = s.after
               /\ refElapsed' = s.measurement.elapsed
               /\ UNCHANGED <<scenario, refOutcome>>
               /\ refOutcome = "none"
  <1> DEFINE interval == scenario.steps[Len(refResults) + 1]
             s == Reference!Managed(interval)
             new == [step |-> s, totals |-> AddStep(Reference!Totals, s)]
             S == [step: Reference!ManagedStep, totals: RunningTotals]
  <1>1. interval \in Interval /\ Len(refResults) < Len(scenario.steps)
    BY ScenarioParts DEF Reference!TypeOK, Reference!RunInterval
  <1>2. s \in Reference!ManagedStep /\ SnapshotValid(s.measurement)
    <2> HIDE DEF interval
    <2> QED  BY <1>1, ManagedSound
  <1>3. /\ refSoc' = s.after /\ refElapsed' = s.measurement.elapsed
        /\ refResults' = Append(refResults, new) /\ refOutcome = "none"
        /\ UNCHANGED <<scenario, refOutcome>>
    BY <1>2, ReferencePlant DEF Reference!RunInterval
  <1> HIDE DEF s
  <1>4. new \in S
    BY <1>2, ResultTotals
  <1>5. refResults \in Seq(S)
    BY ReferencePlant DEF Reference!TypeOK
  <1>6. /\ Len(refResults') = Len(refResults) + 1
        /\ \A i \in 1 .. Len(refResults) : refResults'[i] = refResults[i]
        /\ refResults'[Len(refResults) + 1] = new
        /\ refResults' # <<>>
    <2> HIDE DEF new, S
    <2> QED  BY <1>3, <1>4, <1>5
  <1>7. Reference!Totals' = AddStep(Reference!Totals, s)
    BY <1>6 DEF Reference!Totals
  <1> QED
    BY <1>1, <1>3, <1>4, <1>6, <1>7 DEF s

LEMMA ReferenceInitTyped == Reference!Init => Reference!TypeOK
  <1> SUFFICES ASSUME Reference!Init PROVE Reference!TypeOK
    OBVIOUS
  <1>1. scenario \in Scenarios /\ refResults = <<>> /\ Len(refResults) = 0
    BY DEF Reference!Init
  <1>2. refResults \in Seq([step: Reference!ManagedStep, totals: RunningTotals])
    BY <1>1
  <1>3. refSoc \in 0 .. scenario.battery.capacity /\ Len(refResults) <= Len(scenario.steps)
    BY <1>1, ScenarioParts DEF Reference!Init
  <1> QED
    BY <1>1, <1>2, <1>3 DEF Reference!Init, Reference!TypeOK

LEMMA ReferenceNextTyped ==
    Reference!TypeOK /\ [Reference!Next]_(Reference!vars) => Reference!TypeOK'
  <1> SUFFICES ASSUME Reference!TypeOK, [Reference!Next]_(Reference!vars)
               PROVE  Reference!TypeOK'
    OBVIOUS
  <1>1. CASE Reference!RunInterval
    <2> DEFINE S == [step: Reference!ManagedStep, totals: RunningTotals]
               s == Reference!Managed(scenario.steps[Len(refResults) + 1])
    <2>1. /\ s \in Reference!ManagedStep /\ s.after \in 0 .. scenario.battery.capacity
          /\ refSoc' = s.after /\ refElapsed' = s.measurement.elapsed
      BY <1>1, RunIntervalRecords, ManagedSound
    <2>2. refResults' \in Seq(S)
      <3> DEFINE new == [step |-> s, totals |-> AddStep(Reference!Totals, s)]
      <3>1. refResults \in Seq(S) /\ new \in S /\ refResults' = Append(refResults, new)
        BY <1>1, RunIntervalRecords, ReferencePlant DEF Reference!TypeOK
      <3> HIDE DEF new, S
      <3> QED  BY <3>1
    <2>3. refElapsed' \in Nat
      <3> HIDE DEF s
      <3> QED  BY <2>1, ReferencePlant DEF Reference!ManagedStep, Measured
    <2>4. Len(refResults') <= Len(scenario'.steps)
      BY <1>1, RunIntervalRecords, ScenarioParts DEF Reference!TypeOK
    <2> QED
      BY <1>1, <2>1, <2>2, <2>3, <2>4, RunIntervalRecords, ReferencePlant DEF Reference!TypeOK
  <1>2. CASE Reference!Return
    BY <1>2 DEF Reference!Return, Reference!TypeOK
  <1>3. CASE UNCHANGED Reference!vars
    BY <1>3 DEF Reference!vars, Reference!TypeOK
  <1> QED
    BY <1>1, <1>2, <1>3 DEF Reference!Next

\* The reference keeps its types, and the battery between empty and full.
THEOREM ReferenceTypeOK == Reference!Spec => []Reference!TypeOK
  BY ReferenceInitTyped, ReferenceNextTyped, PTL DEF Reference!Spec

-----------------------------------------------------------------------------
(* The reference implements the ledger.                                      *)

\* An interval of the reference closes an interval of the ledger: what the battery, the
\* grid and the remainders make of it differs from the balance only by what the balance
\* was snapped to zero.
LEMMA RunIntervalKeepsLedger ==
    ASSUME Reference!TypeOK, Reference!TypeOK', Reference!RunInterval
    PROVE  Reference!Ledger!Next
  <1> DEFINE interval == scenario.steps[Len(refResults) + 1]
             s == Reference!Managed(interval)
             t == Reference!Totals
             g == Generated(interval)
             c == Consumed(interval)
             net == NetEnergy(g, c)
  <1>1. /\ interval \in Interval /\ Len(refResults) < Len(scenario.steps)
        /\ Len(refResults') = Len(refResults) + 1
        /\ Reference!Totals' = AddStep(t, s)
        /\ refSoc' = s.after /\ UNCHANGED <<scenario, refOutcome>> /\ refOutcome = "none"
    BY RunIntervalRecords
  <1>2. /\ s \in Reference!ManagedStep
        /\ s.after = refSoc + s.charged - s.discharged
        /\ s.charged + s.exported + s.curtailed = Surplus(net)
        /\ s.discharged + s.imported + s.unserved = Deficit(net)
        /\ s.measurement.generated = g /\ s.measurement.consumed = c
    BY <1>1, ManagedSound
  <1>3. /\ g \in Nat /\ c \in Nat /\ net \in Int
        /\ (g - c) - net \in -BalanceTolerance .. BalanceTolerance
    BY <1>1, BalanceOfInterval
  <1>4. /\ t \in RunningTotals /\ refSoc \in Int
        /\ refSoc' \in 0 .. scenario.battery.capacity
    BY <1>1, <1>2, ResultTotals, ScenarioParts DEF Reference!TypeOK
  <1> HIDE DEF interval, s, t, g, c, net
  <1>5. /\ s.charged \in Nat /\ s.discharged \in Nat
        /\ s.imported \in Nat /\ s.exported \in Nat
        /\ s.curtailed \in Nat /\ s.unserved \in Nat
    BY <1>2 DEF Reference!ManagedStep
  <1>6. /\ t.generated \in Nat /\ t.consumed \in Nat
        /\ t.imported \in Nat /\ t.exported \in Nat
        /\ t.curtailed \in Nat /\ t.unserved \in Nat
    BY <1>4 DEF RunningTotals
  <1>7. /\ Reference!Totals'.generated = t.generated + g
        /\ Reference!Totals'.consumed = t.consumed + c
        /\ Reference!Totals'.imported = t.imported + s.imported
        /\ Reference!Totals'.exported = t.exported + s.exported
        /\ Reference!Totals'.curtailed = t.curtailed + s.curtailed
        /\ Reference!Totals'.unserved = t.unserved + s.unserved
    BY <1>1, <1>2 DEF AddStep
  <1> DEFINE in == t.generated + t.imported + t.unserved
             out == t.consumed + t.exported + t.curtailed
             t2 == Reference!Totals'
             in2 == t2.generated + t2.imported + t2.unserved
             out2 == t2.consumed + t2.exported + t2.curtailed
  <1>8. /\ in \in Nat /\ out \in Nat /\ in2 \in Nat /\ out2 \in Nat
        /\ in2 - in = g + s.imported + s.unserved
        /\ out2 - out = c + s.exported + s.curtailed
    BY <1>3, <1>5, <1>6, <1>7
  <1>9. Surplus(net) - Deficit(net) = net
    BY <1>3 DEF Surplus, Deficit, Greatest
  <1>10. refSoc' - refSoc = s.charged - s.discharged
    BY <1>1, <1>2, <1>4, <1>5
  <1> HIDE DEF in, out, in2, out2
  <1>11. in2 >= in /\ out2 >= out
    <2>1. in2 - in \in Nat /\ out2 - out \in Nat
      BY <1>3, <1>5, <1>8
    <2> QED  BY <1>8, <2>1
  <1>12. (refSoc' - refSoc) - ((in2 - in) - (out2 - out))
            \in -ConservationTolerance .. ConservationTolerance
    <2>1. (refSoc' - refSoc) - ((in2 - in) - (out2 - out)) = -((g - c) - net)
      <3>1. /\ s.charged + s.exported + s.curtailed \in Nat
            /\ s.discharged + s.imported + s.unserved \in Nat
            /\ (s.charged + s.exported + s.curtailed)
                  - (s.discharged + s.imported + s.unserved) = net
        BY <1>2, <1>5, <1>9
      <3>2. (in2 - in) - (out2 - out)
              = (g + s.imported + s.unserved) - (c + s.exported + s.curtailed)
        BY <1>8
      <3>3. (s.charged - s.discharged)
              - ((g + s.imported + s.unserved) - (c + s.exported + s.curtailed))
              = -((g - c) - net)
        BY <1>3, <1>5, <3>1
      <3> QED
        BY <1>10, <3>2, <3>3
    <2> QED
      BY <1>3, <2>1, UnitsAssumption
  <1>13. /\ in = Reference!Totals.generated + Reference!Totals.imported
                 + Reference!Totals.unserved
         /\ in2 = Reference!Totals'.generated + Reference!Totals'.imported
                  + Reference!Totals'.unserved
         /\ out = Reference!Totals.consumed + Reference!Totals.exported
                  + Reference!Totals.curtailed
         /\ out2 = Reference!Totals'.consumed + Reference!Totals'.exported
                   + Reference!Totals'.curtailed
    BY DEF in, in2, out, out2, t, t2
  <1>14. Reference!Ledger!CloseInterval
    BY <1>1, <1>4, <1>11, <1>12, <1>13 DEF Reference!Ledger!CloseInterval
  <1> QED
    BY <1>14 DEF Reference!Ledger!Next

LEMMA ReferenceStepKeepsLedger ==
    ASSUME Reference!TypeOK, Reference!TypeOK', [Reference!Next]_(Reference!vars)
    PROVE  Reference!Ledger!Next \/ UNCHANGED Reference!Ledger!ledger
  <1>1. CASE Reference!RunInterval
    BY <1>1, RunIntervalKeepsLedger
  <1>2. CASE Reference!Return
    <2>1. /\ Reference!Totals' = Reference!Totals
          /\ UNCHANGED <<scenario, refSoc, refResults>>
          /\ refOutcome = "none" /\ refOutcome' = "result"
          /\ Len(refResults) = Len(scenario.steps)
      BY <1>2 DEF Reference!Return, Reference!Totals
    <2> QED
      BY <2>1 DEF Reference!Ledger!Next, Reference!Ledger!Complete
  <1>3. CASE UNCHANGED Reference!vars
    <2>1. Reference!Totals' = Reference!Totals
      BY <1>3 DEF Reference!vars, Reference!Totals
    <2> QED
      BY <1>3, <2>1 DEF Reference!vars, Reference!Ledger!ledger
  <1> QED
    BY <1>1, <1>2, <1>3 DEF Reference!Next

LEMMA ReferenceInitKeepsLedger == Reference!Init => Reference!Ledger!Init
  <1> SUFFICES ASSUME Reference!Init PROVE Reference!Ledger!Init
    OBVIOUS
  <1>1. Reference!Totals = NoTotals /\ Len(refResults) = 0 /\ refOutcome = "none"
    BY ReferencePlant DEF Reference!Init, Reference!Totals
  <1>2. /\ scenario.battery.capacity \in Nat \ {0}
        /\ refSoc \in 0 .. scenario.battery.capacity
        /\ Len(scenario.steps) \in Nat \ {0}
    BY ScenarioParts DEF Reference!Init
  <1> QED
    BY <1>1, <1>2 DEF Reference!Ledger!Init, NoTotals

\* Every run of the reference implements the ledger: it neither creates nor loses energy,
\* and a result is the result of all planned intervals.
THEOREM ReferenceImplementsLedger == Reference!Spec => Reference!KeepsLedger
  <1>1. Reference!TypeOK /\ Reference!TypeOK' /\ [Reference!Next]_(Reference!vars)
        => [Reference!Ledger!Next]_(Reference!Ledger!ledger)
    BY ReferenceStepKeepsLedger
  <1> QED
    BY <1>1, ReferenceInitKeepsLedger, ReferenceTypeOK, PTL
    DEF Reference!Spec, Reference!KeepsLedger, Reference!Ledger!Spec

-----------------------------------------------------------------------------
(* The first run of a comparison: the controller's, or any other provider's. *)

\* The net energy of an interval, and what the battery and the sums were before it.
Net(i) == NetEnergy(Generated(scenario.steps[i]), Consumed(scenario.steps[i]))
SocBefore(i) == IF i = 1 THEN scenario.battery.soc ELSE steps[i - 1].step.after
TotalsBefore(i) == IF i = 1 THEN NoTotals ELSE steps[i - 1].totals

\* How either run shares out an interval between the battery, the grid and the rest.
SharedOut(s, before, i) ==
    LET hours == scenario.steps[i].hours
    IN  /\ s.measurement.generated = Generated(scenario.steps[i])
        /\ s.measurement.consumed = Consumed(scenario.steps[i])
        /\ s.after \in 0 .. scenario.battery.capacity
        /\ s.after = before + s.charged - s.discharged
        /\ s.charged + s.exported + s.curtailed = Surplus(Net(i))
        /\ s.discharged + s.imported + s.unserved = Deficit(Net(i))
        /\ s.exported = GridShare(scenario.grid.maxExport,
                                  Surplus(Net(i)) - s.charged, hours)
        /\ s.imported = GridShare(scenario.grid.maxImport,
                                  Deficit(Net(i)) - s.discharged, hours)

\* The battery moves as much as it can.
BatteryFirst(s, before, i) ==
    /\ s.charged = Least(Surplus(Net(i)), scenario.battery.capacity - before)
    /\ s.discharged = Least(Deficit(Net(i)), before)

RecordOK(i) ==
    LET s == steps[i].step
    IN  /\ SharedOut(s, SocBefore(i), i)
        /\ steps[i].totals = AddStep(TotalsBefore(i), s)
        /\ LimitsDoNotBind /\ s.decision = Decide(Limits, s.measurement) =>
             BatteryFirst(s, SocBefore(i), i)

RecordsOK == \A i \in 1 .. Len(steps) : RecordOK(i)

PendingAccepted == pc \in {"await", "apply"} => MeasurementAccepted(measurement)

FirstRunInv == OrderInv /\ PendingAccepted /\ RecordsOK

\* The interval that is about to be recorded.
LEMMA PendingInterval ==
    ASSUME Inv, Apply
    PROVE  LET i == Len(steps) + 1
           IN  /\ i \in 1 .. Len(scenario.steps)
               /\ measurement.net = Net(i)
               /\ measurement.hours = scenario.steps[i].hours
               /\ measurement.soc = soc
               /\ measurement.generated = Generated(scenario.steps[i])
               /\ measurement.consumed = Consumed(scenario.steps[i])
  <1>1. PhaseOK /\ TypeOK /\ pc = "apply"
    BY DEF Inv, Apply
  <1>2. Len(steps) \in Nat /\ Len(scenario.steps) \in Nat
    BY <1>1, ScenarioParts DEF TypeOK
  <1> QED
    BY <1>1, <1>2 DEF PhaseOK, Net

\* With limits that do not bind, the battery takes all it can of a surplus and gives all
\* it can to a deficit when the rule decides.
LEMMA UnboundStep ==
    ASSUME Inv, Apply, PendingAccepted, LimitsDoNotBind,
           decision = Decide(Limits, measurement)
    PROVE  BatteryFirst(LoopStep, soc, Len(steps) + 1)
  <1> DEFINE m == measurement
             capacity == scenario.battery.capacity
             energy == EnergyOver(decision.power, m.hours)
             net == Net(Len(steps) + 1)
  <1>1. /\ TypeOK /\ pc = "apply" /\ decision.action \in KnownAction /\ ~NotANumber
        /\ MeasurementAccepted(m)
    BY DEF Inv, Apply, PendingAccepted
  <1>2. m \in Measured /\ ExactDuration(m.hours)
    BY <1>1, PendingDuration
  <1>3. /\ capacity \in Nat /\ soc \in 0 .. capacity /\ soc \in Nat
        /\ m.net \in Int /\ m.hours \in Nat /\ m.soc = soc /\ m.net = net
        /\ Limits.maxCharge \in Nat /\ Limits.maxDischarge \in Nat
        /\ Limits.minSoc \in Nat /\ Limits.maxSoc \in Nat
        /\ BalanceTolerance \in Nat
    BY <1>1, <1>2, PendingInterval, ScenarioParts, LoopAssumption, UnitsAssumption
    DEF TypeOK, Measured
  <1>4. /\ EnergyOver(Limits.maxCharge, m.hours) \in Nat
        /\ EnergyOver(Limits.maxDischarge, m.hours) \in Nat
    BY <1>3, EnergyOverNat
  <1>5. /\ Limits.minSoc = 0 /\ Limits.maxSoc >= capacity
        /\ EnergyOver(Limits.maxCharge, m.hours) >= Surplus(net)
        /\ EnergyOver(Limits.maxDischarge, m.hours) >= Deficit(net)
    BY PendingInterval DEF LimitsDoNotBind, Net
  <1>6. decision.power \in Nat /\ energy \in Nat
    BY <1>1, <1>2, DecideSound
  <1>7. Requested = energy
    BY <1>6 DEF Requested, Greatest
  <1>8. net = 0 \/ net > BalanceTolerance \/ -net > BalanceTolerance
    <2>1. Generated(scenario.steps[Len(steps) + 1]) \in Int
          /\ Consumed(scenario.steps[Len(steps) + 1]) \in Int
      BY <1>2, PendingInterval DEF Measured
    <2> QED
      BY <1>3, <2>1 DEF Net, NetEnergy, Magnitude
  <1>9. /\ decision.action = "Idle" => energy = 0
        /\ net > BalanceTolerance =>
             /\ decision.action \in {"ChargeBattery", "Idle"}
             /\ energy = Least(net, Least(EnergyOver(Limits.maxCharge, m.hours),
                                         Greatest(0, Limits.maxSoc - soc)))
        /\ -net > BalanceTolerance =>
             /\ decision.action \in {"DischargeBattery", "Idle"}
             /\ energy = Least(-net, Least(EnergyOver(Limits.maxDischarge, m.hours),
                                          Greatest(0, soc - Limits.minSoc)))
        /\ net = 0 => decision.action = "Idle"
    BY <1>1, <1>2, <1>3, DecideBinds DEF Magnitude
  <1>10. LoopStep.charged = Charged /\ LoopStep.discharged = Discharged
    BY DEF LoopStep
  <1> DEFINE maxIn == EnergyOver(Limits.maxCharge, m.hours)
             maxOut == EnergyOver(Limits.maxDischarge, m.hours)
  <1> HIDE DEF energy, m, capacity, net, maxIn, maxOut
  <1>11. /\ Charged = IF decision.action = "ChargeBattery"
                      THEN Least(Least(energy, Surplus(net)), capacity - soc) ELSE 0
         /\ Discharged = IF decision.action = "DischargeBattery"
                         THEN Least(Least(energy, Deficit(net)), soc) ELSE 0
    BY <1>3, <1>7 DEF Charged, Discharged, ChargeAccepted, DischargeDelivered, m, capacity
  <1>12. /\ net > BalanceTolerance =>
             energy = Least(net, Least(maxIn, Greatest(0, Limits.maxSoc - soc)))
         /\ -net > BalanceTolerance =>
             energy = Least(-net, Least(maxOut, Greatest(0, soc - Limits.minSoc)))
         /\ maxIn \in Nat /\ maxOut \in Nat
         /\ maxIn >= Surplus(net) /\ maxOut >= Deficit(net)
         /\ net \in Int /\ energy \in Nat
    BY <1>3, <1>4, <1>5, <1>6, <1>9 DEF maxIn, maxOut, energy, m
  <1>13. Charged = Least(Surplus(net), capacity - soc)
    <2>1. CASE net > BalanceTolerance
      <3>1. net \in Nat /\ Surplus(net) = net
        BY <1>3, <1>12, <2>1 DEF Surplus, Greatest
      <3>2. Least(Least(energy, net), capacity - soc) = Least(net, capacity - soc)
        BY <1>3, <1>5, <1>12, <2>1, <3>1 DEF Least, Greatest, capacity
      <3>3. decision.action = "Idle" => Least(net, capacity - soc) = 0
        BY <1>3, <1>9, <3>1, <3>2, <1>12 DEF Least, capacity
      <3> QED  BY <1>9, <1>11, <2>1, <3>1, <3>2, <3>3
    <2>2. CASE ~(net > BalanceTolerance)
      <3>1. Surplus(net) = 0 /\ decision.action # "ChargeBattery"
        BY <1>3, <1>8, <1>9, <1>12, <2>2 DEF Surplus, Greatest
      <3> QED  BY <1>3, <1>11, <3>1 DEF Least, capacity
    <2> QED  BY <2>1, <2>2
  <1>14. Discharged = Least(Deficit(net), soc)
    <2>1. CASE -net > BalanceTolerance
      <3>1. -net \in Nat /\ Deficit(net) = -net
        BY <1>3, <1>12, <2>1 DEF Deficit, Greatest
      <3>2. Least(Least(energy, -net), soc) = Least(-net, soc)
        BY <1>3, <1>5, <1>12, <2>1, <3>1 DEF Least, Greatest
      <3>3. decision.action = "Idle" => Least(-net, soc) = 0
        BY <1>3, <1>9, <3>1, <3>2, <1>12 DEF Least
      <3> QED  BY <1>9, <1>11, <2>1, <3>1, <3>2, <3>3
    <2>2. CASE ~(-net > BalanceTolerance)
      <3>1. Deficit(net) = 0 /\ decision.action # "DischargeBattery"
        BY <1>3, <1>8, <1>9, <1>12, <2>2 DEF Deficit, Greatest
      <3> QED  BY <1>3, <1>11, <3>1 DEF Least
    <2> QED  BY <2>1, <2>2
  <1> QED
    BY <1>10, <1>13, <1>14 DEF BatteryFirst, net, capacity

\* The interval that Apply records is one of those.
LEMMA ApplyShares ==
    ASSUME FirstRunInv, Apply
    PROVE  LET i == Len(steps) + 1
           IN  /\ SharedOut(LoopStep, soc, i)
               /\ LimitsDoNotBind /\ decision = Decide(Limits, measurement) =>
                    BatteryFirst(LoopStep, soc, i)
  <1> DEFINE i == Len(steps) + 1
             surplus == Surplus(Net(i)) - Charged
             deficit == Deficit(Net(i)) - Discharged
             hours == measurement.hours
  <1>1. /\ Inv /\ TypeOK /\ PendingAccepted /\ pc = "apply"
        /\ decision.action \in KnownAction /\ ~NotANumber
    BY DEF FirstRunInv, OrderInv, Inv, Apply
  <1>2. /\ measurement.net = Net(i) /\ hours = scenario.steps[i].hours
        /\ measurement.generated = Generated(scenario.steps[i])
        /\ measurement.consumed = Consumed(scenario.steps[i])
    BY <1>1, PendingInterval
  <1>3. /\ LoopStep.measurement = measurement
        /\ LoopStep.after \in 0 .. scenario.battery.capacity
        /\ LoopStep.after = soc + LoopStep.charged - LoopStep.discharged
        /\ LoopStep.charged + LoopStep.exported + LoopStep.curtailed = Surplus(Net(i))
        /\ LoopStep.discharged + LoopStep.imported + LoopStep.unserved = Deficit(Net(i))
    BY <1>1, <1>2, LoopStepSound
  <1>4. LoopStep.charged = Charged /\ LoopStep.discharged = Discharged
    BY DEF LoopStep
  <1>5. /\ LoopStep.exported = GridShare(scenario.grid.maxExport, surplus, hours)
        /\ LoopStep.imported = GridShare(scenario.grid.maxImport, deficit, hours)
    BY <1>2 DEF LoopStep, GridShare
  <1>6. SharedOut(LoopStep, soc, i)
    BY <1>2, <1>3, <1>4, <1>5 DEF SharedOut
  <1>7. LimitsDoNotBind /\ decision = Decide(Limits, measurement) =>
            BatteryFirst(LoopStep, soc, i)
    BY <1>1, UnboundStep
  <1> QED
    BY <1>6, <1>7

LEMMA ApplyKeepsRecords ==
    ASSUME FirstRunInv, Apply
    PROVE  RecordsOK'
  <1>0. PICK n \in Nat : n = Len(steps)
    BY DEF FirstRunInv, OrderInv, Inv, TypeOK
  <1>1. /\ Inv /\ TypeOK /\ SocLinked /\ RecordsOK
        /\ decision.action \in KnownAction /\ ~NotANumber /\ pc = "apply"
    BY DEF FirstRunInv, OrderInv, Inv, Apply
  <1>2. /\ Len(steps') = n + 1
        /\ \A i \in 1 .. n : steps'[i] = steps[i]
        /\ steps'[n + 1].step = LoopStep
        /\ steps'[n + 1].totals = AddStep(Totals, LoopStep)
        /\ UNCHANGED scenario
    BY <1>0, <1>1, ApplyRecords
  <1>3. LoopStep.measurement = measurement /\ LoopStep.decision = decision
    BY <1>1, LoopStepSound
  <1>4. steps = <<>> <=> n = 0
    BY <1>0, <1>1 DEF TypeOK
  <1>5. /\ \A i \in 1 .. n : SocBefore(i)' = SocBefore(i) /\ TotalsBefore(i)' = TotalsBefore(i)
        /\ SocBefore(n + 1)' = soc
        /\ TotalsBefore(n + 1)' = Totals
    <2>1. \A i \in 1 .. n + 1 : i # 1 => i - 1 \in 1 .. n
      BY <1>2
    <2>2. \A i \in 1 .. n + 1 : i # 1 => steps'[i - 1] = steps[i - 1]
      BY <1>2, <2>1
    <2>3. \A i \in 1 .. n + 1 :
            SocBefore(i)' = SocBefore(i) /\ TotalsBefore(i)' = TotalsBefore(i)
      BY <1>2, <2>2 DEF SocBefore, TotalsBefore
    <2>4. SocBefore(n + 1) = soc /\ TotalsBefore(n + 1) = Totals
      BY <1>0, <1>1, <1>2, <1>4 DEF SocBefore, TotalsBefore, SocLinked, Totals
    <2>5. n + 1 \in 1 .. n + 1 /\ 1 .. n \subseteq 1 .. n + 1
      BY <1>2
    <2> QED
      BY <2>3, <2>4, <2>5
  <1>6. ASSUME NEW i \in 1 .. n PROVE RecordOK(i)'
    <2>1. RecordOK(i)
      BY <1>0, <1>1, <1>6 DEF RecordsOK
    <2>2. steps'[i] = steps[i] /\ UNCHANGED scenario
      BY <1>2, <1>6
    <2> QED
      BY <1>5, <2>1, <2>2
      DEF RecordOK, SharedOut, BatteryFirst, Net, GridShare, LimitsDoNotBind
  <1>7. RecordOK(n + 1)'
    <2>1. /\ SharedOut(LoopStep, soc, n + 1)
          /\ LimitsDoNotBind /\ decision = Decide(Limits, measurement) =>
               BatteryFirst(LoopStep, soc, n + 1)
      BY <1>0, ApplyShares
    <2> DEFINE s == LoopStep
               b == soc
               t == Totals
    <2>2. /\ steps'[n + 1].step = s /\ steps'[n + 1].totals = AddStep(t, s)
          /\ s.measurement = measurement /\ s.decision = decision
          /\ SocBefore(n + 1)' = b /\ TotalsBefore(n + 1)' = t
      BY <1>2, <1>3, <1>5
    <2>3. /\ SharedOut(s, b, n + 1)
          /\ LimitsDoNotBind /\ s.decision = Decide(Limits, s.measurement) =>
               BatteryFirst(s, b, n + 1)
      BY <2>1, <2>2
    <2> HIDE DEF s, b, t
    <2> QED
      BY <1>2, <2>2, <2>3
      DEF RecordOK, SharedOut, BatteryFirst, Net, GridShare, LimitsDoNotBind
  <1>8. \A i \in 1 .. Len(steps') : i \in 1 .. n \/ i = n + 1
    BY <1>2
  <1> QED
    BY <1>6, <1>7, <1>8 DEF RecordsOK

\* A step of the first run is an Apply, or leaves records and battery alone.
LEMMA FirstRunSteps ==
    ASSUME Inv, OpenNext \/ ControllerAnswers
    PROVE  /\ Inv'
           /\ pc # "ended"
           /\ UNCHANGED scenario
           /\ Apply \/ UNCHANGED <<soc, steps>>
  <1>1. CASE ControllerAnswers
    <2> DEFINE command == Decide(Limits, measurement)
    <2>1. CASE MeasurementAccepted(measurement) /\ CommandValid(command)
      <3>1. Answer(command) /\ pc = "await"
        BY <1>1, <2>1 DEF ControllerAnswers, Answer
      <3>2. command \in WireDecision
        BY <2>1, <3>1, PendingDuration, DecideSound
      <3>3. Inv'
        <4> HIDE DEF command
        <4> QED  BY <3>1, <3>2, AnswerKeepsInv
      <3> QED
        BY <3>1, <3>3 DEF Answer, Raise
    <2>2. CASE ~(MeasurementAccepted(measurement) /\ CommandValid(command))
      <3>1. /\ pc = "await" /\ pc' = "ended" /\ outcome' = "ControlApiStatusError"
            /\ UNCHANGED <<scenario, elapsed, soc, measurement, decision, steps>>
        BY <1>1, <2>2 DEF ControllerAnswers, Raise
      <3>2. Inv'
        BY <3>1, EndingKeepsInv
      <3> QED
        BY <3>1, <3>2
    <2> QED
      BY <2>1, <2>2
  <1>2. CASE OpenNext
    <2>1. Inv'
      BY <1>2, OpenInductive
    <2>2. CASE Apply
      BY <2>1, <2>2 DEF Apply
    <2>3. CASE \/ Measure \/ RefuseAction \/ ApplyNotANumber \/ Return
               \/ ProviderFails \/ \E d \in WireDecisions : Answer(d)
      BY <2>1, <2>3
      DEF Measure, RefuseAction, ApplyNotANumber, Return, ProviderFails, Answer
    <2> QED
      BY <1>2, <2>2, <2>3 DEF OpenNext, PlantStep, ProviderStep
  <1> QED
    BY <1>1, <1>2

LEMMA PendingStaysAccepted ==
    ASSUME Inv, PendingAccepted, OpenNext \/ ControllerAnswers
    PROVE  PendingAccepted'
  <1>1. CASE Measure
    BY <1>1, MeasurementValid DEF Measure, Raise, PendingAccepted, Inv
  <1>2. CASE \/ Apply \/ RefuseAction \/ ApplyNotANumber \/ Return \/ ProviderFails
             \/ (\E d \in WireDecisions : Answer(d)) \/ ControllerAnswers
    BY <1>2
    DEF Apply, RefuseAction, ApplyNotANumber, Return, ProviderFails, Answer,
        ControllerAnswers, Raise, PendingAccepted
  <1> QED
    BY <1>1, <1>2 DEF OpenNext, PlantStep, ProviderStep

LEMMA FirstRunKeepsInv ==
    ASSUME FirstRunInv, OpenNext \/ ControllerAnswers
    PROVE  FirstRunInv'
  <1>1. Inv /\ Inv' /\ PendingAccepted'
    BY FirstRunSteps, PendingStaysAccepted DEF FirstRunInv, OrderInv
  <1>2. CASE Apply
    BY <1>1, <1>2, ApplyKeepsOrder, ApplyKeepsRecords DEF FirstRunInv, OrderInv
  <1>3. CASE UNCHANGED <<scenario, soc, steps>>
    <2>1. StepsInOrder' /\ SocLinked'
      BY <1>3 DEF FirstRunInv, OrderInv, StepsInOrder, SocLinked
    <2>2. RecordsOK'
      BY <1>3 DEF FirstRunInv, RecordsOK, RecordOK, SharedOut, BatteryFirst, Net,
                  GridShare, LimitsDoNotBind, SocBefore, TotalsBefore
    <2> QED
      BY <1>1, <2>1, <2>2 DEF FirstRunInv, OrderInv
  <1> QED
    BY <1>1, <1>2, <1>3, FirstRunSteps

\* A step that leaves the first run alone.
LEMMA FirstRunStutters ==
    ASSUME FirstRunInv, UNCHANGED vars
    PROVE  FirstRunInv'
  <1>1. Inv'
    BY StutterKeepsInv DEF FirstRunInv, OrderInv
  <1>2. StepsInOrder' /\ SocLinked'
    BY DEF vars, FirstRunInv, OrderInv, StepsInOrder, SocLinked
  <1>3. PendingAccepted'
    BY DEF vars, FirstRunInv, PendingAccepted
  <1>4. RecordsOK'
    BY DEF vars, FirstRunInv, RecordsOK, RecordOK, SharedOut, BatteryFirst, Net,
           GridShare, LimitsDoNotBind, SocBefore, TotalsBefore
  <1> QED
    BY <1>1, <1>2, <1>3, <1>4 DEF FirstRunInv, OrderInv

LEMMA InitFirstRun == Init => FirstRunInv
  <1> SUFFICES ASSUME Init PROVE FirstRunInv
    OBVIOUS
  <1>1. Len(steps) = 0 /\ pc = "measure"
    BY DEF Init
  <1> QED
    BY <1>1, InitOrder DEF FirstRunInv, PendingAccepted, RecordsOK

-----------------------------------------------------------------------------
(* The second run, interval by interval against the first.                   *)

\* The reference runs after a result, and its battery holds what its last record says.
ReferenceLinked ==
    /\ refResults # <<>> => outcome = "result"
    /\ refSoc = IF refResults = <<>> THEN scenario.battery.soc
                ELSE refResults[Len(refResults)].step.after

ComparisonInv ==
    /\ FirstRunInv /\ Reference!TypeOK /\ ReferenceLinked
    /\ ReferenceDominates /\ SameAsReference

\* The reference takes what it can of a surplus and gives what it can to a deficit, so
\* whatever the other run moves less is still owed or already paid for.
LEMMA BatteryFirstDominates ==
    ASSUME NEW surplus \in Nat, NEW deficit \in Nat, surplus = 0 \/ deficit = 0,
           NEW capacity \in Nat, NEW b \in 0 .. capacity, NEW q \in 0 .. capacity,
           NEW charged \in Nat, charged <= surplus,
           NEW discharged \in Nat, discharged <= deficit,
           b + charged - discharged \in 0 .. capacity,
           NEW more \in Int, more >= Greatest(b - q, 0),
           NEW given \in Int, given >= Greatest(q - b, 0)
    PROVE  LET c == Least(surplus, capacity - q)
               d == Least(deficit, q)
               ahead == (b + charged - discharged) - (q + c - d)
           IN  /\ more + d - discharged >= Greatest(ahead, 0)
               /\ given + c - charged >= Greatest(-ahead, 0)
  <1>1. CASE surplus = 0
    BY <1>1 DEF Least, Greatest
  <1>2. CASE deficit = 0
    BY <1>2 DEF Least, Greatest
  <1> QED
    BY <1>1, <1>2

\* A sum of three naturals is one, and not below the first.
LEMMA SumOfThree ==
    ASSUME NEW x \in Nat, NEW y \in Nat, NEW z \in Nat, NEW sum, x + y + z = sum
    PROVE  sum \in Nat /\ x <= sum
  OBVIOUS

\* An interval adds its own exchange to the sums.
LEMMA ExchangeAdds ==
    ASSUME NEW t, NEW s,
           t.imported \in Nat, t.unserved \in Nat, t.exported \in Nat, t.curtailed \in Nat,
           s.imported \in Nat, s.unserved \in Nat, s.exported \in Nat, s.curtailed \in Nat
    PROVE  /\ FromOutside(t) \in Nat /\ ToOutside(t) \in Nat
           /\ FromOutside(AddStep(t, s)) = FromOutside(t) + (s.imported + s.unserved)
           /\ ToOutside(AddStep(t, s)) = ToOutside(t) + (s.exported + s.curtailed)
  <1>1. /\ AddStep(t, s).imported = t.imported + s.imported
        /\ AddStep(t, s).unserved = t.unserved + s.unserved
        /\ AddStep(t, s).exported = t.exported + s.exported
        /\ AddStep(t, s).curtailed = t.curtailed + s.curtailed
    BY DEF AddStep
  <1> QED
    BY <1>1 DEF FromOutside, ToOutside

\* Where the two runs stand before interval n + 1.
LEMMA StandBefore ==
    ASSUME ComparisonInv, NEW n \in Nat, n = Len(refResults), n < Len(steps)
    PROVE  LET b == SocBefore(n + 1)
               t == TotalsBefore(n + 1)
               u == Reference!Totals
           IN  /\ b \in 0 .. scenario.battery.capacity
               /\ refSoc \in 0 .. scenario.battery.capacity
               /\ t \in RunningTotals /\ u \in RunningTotals
               /\ FromOutside(t) >= FromOutside(u) + Greatest(b - refSoc, 0)
               /\ ToOutside(t) >= ToOutside(u) + Greatest(refSoc - b, 0)
               /\ LimitsDoNotBind /\ FollowsRule => t = u /\ b = refSoc
  <1>1. /\ TypeOK /\ Reference!TypeOK /\ RecordsOK /\ ReferenceLinked
        /\ ReferenceDominates /\ SameAsReference
    BY DEF ComparisonInv, FirstRunInv, OrderInv, Inv
  <1>2. /\ refSoc \in 0 .. scenario.battery.capacity
        /\ Reference!Totals \in RunningTotals
        /\ refResults = <<>> <=> n = 0
    <2>1. Reference!Totals \in RunningTotals
      <3>1. CASE refResults = <<>>
        BY <3>1, ReferencePlant DEF Reference!Totals, NoTotals, RunningTotals
      <3>2. CASE refResults # <<>>
        <4>1. Len(refResults) \in 1 .. Len(refResults)
          BY <1>1, <3>2 DEF Reference!TypeOK
        <4> QED  BY <1>1, <3>2, <4>1, ResultAt DEF Reference!Totals
      <3> QED  BY <3>1, <3>2
    <2> QED
      BY <1>1, <2>1 DEF Reference!TypeOK
  <1>3. CASE n = 0
    <2>1. /\ SocBefore(n + 1) = scenario.battery.soc /\ refSoc = scenario.battery.soc
          /\ TotalsBefore(n + 1) = NoTotals /\ Reference!Totals = NoTotals
      BY <1>1, <1>2, <1>3, ReferencePlant
      DEF SocBefore, TotalsBefore, ReferenceLinked, Reference!Totals
    <2>2. /\ FromOutside(NoTotals) = 0 /\ ToOutside(NoTotals) = 0
          /\ Greatest(refSoc - refSoc, 0) = 0
      BY <1>2, ScenarioParts DEF FromOutside, ToOutside, NoTotals, Greatest, TypeOK
    <2> QED
      BY <1>2, <2>1, <2>2
  <1>4. CASE n # 0
    <2>1. n \in 1 .. Len(refResults) /\ n \in 1 .. Len(steps)
      BY <1>1, <1>4 DEF TypeOK
    <2>2. /\ SocBefore(n + 1) = steps[n].step.after
          /\ TotalsBefore(n + 1) = steps[n].totals
          /\ Reference!Totals = refResults[n].totals
          /\ refSoc = refResults[n].step.after
      BY <1>1, <1>2, <1>4 DEF SocBefore, TotalsBefore, ReferenceLinked, Reference!Totals
    <2>3. /\ steps[n].totals \in RunningTotals
          /\ steps[n].step.after \in 0 .. scenario.battery.capacity
      BY <1>1, <2>1, RecordAt DEF RecordsOK, RecordOK, SharedOut
    <2>4. /\ FromOutside(steps[n].totals) >= FromOutside(refResults[n].totals)
                 + Greatest(steps[n].step.after - refResults[n].step.after, 0)
          /\ ToOutside(steps[n].totals) >= ToOutside(refResults[n].totals)
                 + Greatest(-(steps[n].step.after - refResults[n].step.after), 0)
      BY <1>1, <2>1 DEF ReferenceDominates
    <2>5. -(steps[n].step.after - refSoc) = refSoc - steps[n].step.after
      BY <1>1, <1>2, <2>3, ScenarioParts DEF TypeOK
    <2>6. LimitsDoNotBind /\ FollowsRule =>
            /\ steps[n].totals = refResults[n].totals
            /\ steps[n].step.after = refResults[n].step.after
      BY <1>1, <2>1 DEF SameAsReference
    <2> QED
      BY <1>2, <2>2, <2>3, <2>4, <2>5, <2>6
  <1> QED
    BY <1>3, <1>4

\* What an interval of the reference is, in the terms of the other run.
LEMMA ReferenceShares ==
    ASSUME Reference!TypeOK, Reference!RunInterval, NEW i \in Nat, i = Len(refResults) + 1
    PROVE  LET s == Reference!Managed(scenario.steps[i])
           IN  /\ s \in Reference!ManagedStep
               /\ SharedOut(s, refSoc, i)
               /\ BatteryFirst(s, refSoc, i)
  <1>1. scenario.steps[i] \in Interval
    BY RunIntervalRecords
  <1> QED
    BY <1>1, ManagedSound DEF SharedOut, BatteryFirst, Net

\* One more interval keeps the order of the two runs.
LEMMA IntervalDominates ==
    ASSUME ComparisonInv, Reference!RunInterval, NEW n \in Nat, n = Len(refResults),
           n < Len(steps)
    PROVE  LET c == steps[n + 1]
               r == Reference!Managed(scenario.steps[n + 1])
               totals == AddStep(Reference!Totals, r)
               ahead == c.step.after - r.after
           IN  /\ FromOutside(c.totals) >= FromOutside(totals) + Greatest(ahead, 0)
               /\ ToOutside(c.totals) >= ToOutside(totals) + Greatest(-ahead, 0)
  <1> DEFINE i == n + 1
             c == steps[i].step
             r == Reference!Managed(scenario.steps[i])
             b == SocBefore(i)
             t == TotalsBefore(i)
             u == Reference!Totals
             capacity == scenario.battery.capacity
             surplus == Surplus(Net(i))
             deficit == Deficit(Net(i))
  <1>1. /\ TypeOK /\ Reference!TypeOK /\ RecordOK(i) /\ i \in 1 .. Len(steps)
        /\ capacity \in Nat
    <2>1. TypeOK /\ Reference!TypeOK /\ RecordsOK
      BY DEF ComparisonInv, FirstRunInv, OrderInv, Inv
    <2>2. i \in 1 .. Len(steps)
      BY <2>1 DEF TypeOK
    <2> QED  BY <2>1, <2>2, ScenarioParts DEF RecordsOK, TypeOK
  <1>2. c \in RecordedStep /\ r \in Reference!ManagedStep
    BY <1>1, RecordAt, ReferenceShares
  <1>3. /\ c.charged \in Nat /\ c.discharged \in Nat /\ c.imported \in Nat
        /\ c.exported \in Nat /\ c.curtailed \in Nat /\ c.unserved \in Nat
        /\ r.charged \in Nat /\ r.discharged \in Nat /\ r.imported \in Nat
        /\ r.exported \in Nat /\ r.curtailed \in Nat /\ r.unserved \in Nat
    <2> HIDE DEF c, r
    <2> QED  BY <1>2 DEF RecordedStep, Reference!ManagedStep
  <1>4. /\ SharedOut(c, b, i) /\ SharedOut(r, refSoc, i) /\ BatteryFirst(r, refSoc, i)
        /\ steps[i].totals = AddStep(t, c)
    BY <1>1, ReferenceShares DEF RecordOK
  <1>5. /\ b \in 0 .. capacity /\ refSoc \in 0 .. capacity
        /\ t \in RunningTotals /\ u \in RunningTotals
        /\ FromOutside(t) >= FromOutside(u) + Greatest(b - refSoc, 0)
        /\ ToOutside(t) >= ToOutside(u) + Greatest(refSoc - b, 0)
    BY StandBefore
  <1> HIDE DEF i, c, r, b, t, u, capacity
  <1>6. /\ t.imported \in Nat /\ t.unserved \in Nat /\ t.exported \in Nat /\ t.curtailed \in Nat
        /\ u.imported \in Nat /\ u.unserved \in Nat /\ u.exported \in Nat /\ u.curtailed \in Nat
    BY <1>5 DEF RunningTotals
  <1>7. /\ c.after = b + c.charged - c.discharged /\ c.after \in 0 .. capacity
        /\ c.charged + c.exported + c.curtailed = surplus
        /\ c.discharged + c.imported + c.unserved = deficit
        /\ r.after = refSoc + r.charged - r.discharged
        /\ r.charged + r.exported + r.curtailed = surplus
        /\ r.discharged + r.imported + r.unserved = deficit
        /\ r.charged = Least(surplus, capacity - refSoc)
        /\ r.discharged = Least(deficit, refSoc)
    BY <1>4 DEF SharedOut, BatteryFirst, capacity
  <1> HIDE DEF surplus, deficit
  <1>8. /\ surplus \in Nat /\ deficit \in Nat
        /\ c.charged <= surplus /\ c.discharged <= deficit
        /\ c.imported + c.unserved = deficit - c.discharged
        /\ r.imported + r.unserved = deficit - r.discharged
        /\ c.exported + c.curtailed = surplus - c.charged
        /\ r.exported + r.curtailed = surplus - r.charged
    <2>1. surplus \in Nat /\ c.charged <= surplus
      BY <1>3, <1>7, SumOfThree
    <2>2. deficit \in Nat /\ c.discharged <= deficit
      BY <1>3, <1>7, SumOfThree
    <2>3. c.imported + c.unserved = deficit - c.discharged
      <3>1. /\ c.discharged \in Nat /\ c.imported \in Nat /\ c.unserved \in Nat
            /\ deficit \in Nat
            /\ c.discharged + c.imported + c.unserved = deficit
        BY <1>3, <1>7, <2>2
      <3> QED  BY ONLY <3>1
    <2>4. r.imported + r.unserved = deficit - r.discharged
      <3>1. /\ r.discharged \in Nat /\ r.imported \in Nat /\ r.unserved \in Nat
            /\ deficit \in Nat
            /\ r.discharged + r.imported + r.unserved = deficit
        BY <1>3, <1>7, <2>2
      <3> QED  BY ONLY <3>1
    <2>5. c.exported + c.curtailed = surplus - c.charged
      <3>1. /\ c.charged \in Nat /\ c.exported \in Nat /\ c.curtailed \in Nat /\ surplus \in Nat
            /\ c.charged + c.exported + c.curtailed = surplus
        BY <1>3, <1>7, <2>1
      <3> QED  BY ONLY <3>1
    <2>6. r.exported + r.curtailed = surplus - r.charged
      <3>1. /\ r.charged \in Nat /\ r.exported \in Nat /\ r.curtailed \in Nat /\ surplus \in Nat
            /\ r.charged + r.exported + r.curtailed = surplus
        BY <1>3, <1>7, <2>1
      <3> QED  BY ONLY <3>1
    <2> QED
      BY <2>1, <2>2, <2>3, <2>4, <2>5, <2>6
  <1>9. surplus = 0 \/ deficit = 0
    <2>1. scenario.steps[i] \in Interval
      BY <1>1, RunIntervalRecords DEF i
    <2>2. Net(i) \in Int
      BY <2>1, BalanceOfInterval DEF Net
    <2> QED
      BY <2>2 DEF surplus, deficit, Surplus, Deficit, Greatest
  <1>10. /\ FromOutside(t) \in Nat /\ FromOutside(u) \in Nat
         /\ ToOutside(t) \in Nat /\ ToOutside(u) \in Nat
         /\ FromOutside(AddStep(t, c)) = FromOutside(t) + (deficit - c.discharged)
         /\ FromOutside(AddStep(u, r)) = FromOutside(u) + (deficit - r.discharged)
         /\ ToOutside(AddStep(t, c)) = ToOutside(t) + (surplus - c.charged)
         /\ ToOutside(AddStep(u, r)) = ToOutside(u) + (surplus - r.charged)
    BY <1>3, <1>6, <1>8, ExchangeAdds
  <1>11. /\ FromOutside(t) - FromOutside(u) >= Greatest(b - refSoc, 0)
         /\ ToOutside(t) - ToOutside(u) >= Greatest(refSoc - b, 0)
    <2>1. Greatest(b - refSoc, 0) \in Int /\ Greatest(refSoc - b, 0) \in Int
      BY <1>1, <1>5 DEF Greatest
    <2> QED
      BY <1>5, <1>10, <2>1
  <1> DEFINE ahead == c.after - r.after
  <1>12. /\ FromOutside(t) - FromOutside(u) + r.discharged - c.discharged
                >= Greatest(ahead, 0)
         /\ ToOutside(t) - ToOutside(u) + r.charged - c.charged >= Greatest(-ahead, 0)
    <2> DEFINE more == FromOutside(t) - FromOutside(u)
               given == ToOutside(t) - ToOutside(u)
               d == Least(deficit, refSoc)
               e == Least(surplus, capacity - refSoc)
               lead == (b + c.charged - c.discharged) - (refSoc + e - d)
    <2>1. /\ more \in Int /\ given \in Int
          /\ more >= Greatest(b - refSoc, 0) /\ given >= Greatest(refSoc - b, 0)
          /\ b + c.charged - c.discharged \in 0 .. capacity
      BY <1>7, <1>10, <1>11
    <2> HIDE DEF more, given
    <2>2. /\ more + d - c.discharged >= Greatest(lead, 0)
          /\ given + e - c.charged >= Greatest(-lead, 0)
      BY <1>1, <1>3, <1>5, <1>8, <1>9, <2>1, BatteryFirstDominates
    <2>3. lead = ahead /\ d = r.discharged /\ e = r.charged
      BY <1>7
    <2> QED
      BY <2>2, <2>3 DEF more, given
  <1>13. Greatest(ahead, 0) \in Int /\ Greatest(-ahead, 0) \in Int
    <2>1. ahead \in Int
      BY <1>1, <1>3, <1>5, <1>7
    <2> HIDE DEF ahead
    <2> QED
      BY <2>1 DEF Greatest
  <1> DEFINE x == FromOutside(t)
             y == FromOutside(u)
             v == ToOutside(t)
             w == ToOutside(u)
             f == Greatest(ahead, 0)
             g == Greatest(-ahead, 0)
  <1>14. /\ x + (deficit - c.discharged) >= y + (deficit - r.discharged) + f
         /\ v + (surplus - c.charged) >= w + (surplus - r.charged) + g
    <2>1. /\ x \in Int /\ y \in Int /\ v \in Int /\ w \in Int /\ f \in Int /\ g \in Int
          /\ x - y + r.discharged - c.discharged >= f
          /\ v - w + r.charged - c.charged >= g
      BY <1>10, <1>12, <1>13
    <2> HIDE DEF x, y, v, w, f, g
    <2>2. /\ deficit \in Nat /\ surplus \in Nat
          /\ c.charged \in Nat /\ c.discharged \in Nat
          /\ r.charged \in Nat /\ r.discharged \in Nat
      BY <1>3, <1>8
    <2> QED
      BY ONLY <2>1, <2>2
  <1> QED
    BY <1>4, <1>10, <1>14 DEF i, c, r, u

\* One more interval in which the rule, unbound, does what the reference does.
LEMMA IntervalSame ==
    ASSUME ComparisonInv, Reference!RunInterval, NEW n \in Nat, n = Len(refResults),
           n < Len(steps), LimitsDoNotBind, FollowsRule
    PROVE  LET c == steps[n + 1]
               r == Reference!Managed(scenario.steps[n + 1])
           IN  /\ c.totals = AddStep(Reference!Totals, r)
               /\ c.step.after = r.after
  <1> DEFINE i == n + 1
             c == steps[i].step
             r == Reference!Managed(scenario.steps[i])
             t == TotalsBefore(i)
  <1>1. /\ TypeOK /\ Reference!TypeOK /\ RecordOK(i) /\ i \in 1 .. Len(steps)
    <2>1. TypeOK /\ Reference!TypeOK /\ RecordsOK
      BY DEF ComparisonInv, FirstRunInv, OrderInv, Inv
    <2>2. i \in 1 .. Len(steps)
      BY <2>1 DEF TypeOK
    <2> QED  BY <2>1, <2>2 DEF RecordsOK
  <1>2. /\ SocBefore(i) = refSoc /\ t = Reference!Totals
        /\ c.decision = Decide(Limits, c.measurement)
    BY <1>1, StandBefore DEF FollowsRule
  <1>3. /\ SharedOut(c, refSoc, i) /\ BatteryFirst(c, refSoc, i)
        /\ SharedOut(r, refSoc, i) /\ BatteryFirst(r, refSoc, i)
        /\ steps[i].totals = AddStep(t, c)
    BY <1>1, <1>2, ReferenceShares DEF RecordOK
  <1>4. c \in RecordedStep /\ r \in Reference!ManagedStep
    BY <1>1, RecordAt, ReferenceShares
  <1> HIDE DEF i, c, r, t
  <1>5. /\ c.charged = r.charged /\ c.discharged = r.discharged
        /\ c.after = r.after
        /\ c.measurement.generated = r.measurement.generated
        /\ c.measurement.consumed = r.measurement.consumed
        /\ c.exported = r.exported /\ c.imported = r.imported
    BY <1>3 DEF SharedOut, BatteryFirst
  <1>6. /\ c.charged \in Nat /\ c.discharged \in Nat /\ c.imported \in Nat
        /\ c.exported \in Nat /\ c.curtailed \in Nat /\ c.unserved \in Nat
        /\ r.curtailed \in Nat /\ r.unserved \in Nat
    BY <1>4 DEF RecordedStep, Reference!ManagedStep
  <1>7. c.curtailed = r.curtailed
    <2>1. c.charged + c.exported + c.curtailed = c.charged + c.exported + r.curtailed
      BY <1>3, <1>5 DEF SharedOut
    <2> QED  BY ONLY <1>6, <2>1
  <1>8. c.unserved = r.unserved
    <2>1. c.discharged + c.imported + c.unserved = c.discharged + c.imported + r.unserved
      BY <1>3, <1>5 DEF SharedOut
    <2> QED  BY ONLY <1>6, <2>1
  <1>9. AddStep(t, c) = AddStep(t, r)
    BY <1>5, <1>7, <1>8 DEF AddStep
  <1> QED
    BY <1>2, <1>3, <1>5, <1>9 DEF i, c, r

LEMMA RunIntervalKeepsOrder ==
    ASSUME ComparisonInv, outcome = "result", Reference!RunInterval, UNCHANGED vars
    PROVE  ComparisonInv'
  <1>0. PICK n \in Nat : n = Len(refResults)
    BY DEF ComparisonInv, Reference!TypeOK
  <1> DEFINE r == Reference!Managed(scenario.steps[n + 1])
             u == AddStep(Reference!Totals, r)
  <1>1. /\ FirstRunInv /\ Reference!TypeOK /\ ReferenceDominates /\ SameAsReference
        /\ TypeOK /\ ResultIsComplete
    BY DEF ComparisonInv, FirstRunInv, OrderInv, Inv
  <1>2. /\ n < Len(steps)
        /\ Len(refResults') = n + 1
        /\ \A i \in 1 .. n : refResults'[i] = refResults[i]
        /\ refResults'[n + 1].step = r /\ refResults'[n + 1].totals = u
        /\ refSoc' = r.after
    BY <1>0, <1>1, RunIntervalRecords DEF ResultIsComplete
  <1>3. Reference!TypeOK'
    BY <1>1, ReferenceNextTyped DEF Reference!Next
  <1>4. FirstRunInv'
    BY <1>1, FirstRunStutters
  <1>5. UNCHANGED <<steps, scenario, outcome>>
    BY DEF vars
  <1>6. \A i \in 1 .. Len(refResults') : i \in 1 .. n \/ i = n + 1
    BY <1>2
  <1>7. ReferenceLinked'
    <2>1. Len(refResults') # 0
      BY <1>2
    <2>2. refResults' # <<>>
      BY <2>1
    <2> QED
      BY <1>2, <1>5, <2>2 DEF ReferenceLinked
  <1>8. /\ FromOutside(steps[n + 1].totals)
              >= FromOutside(u) + Greatest(steps[n + 1].step.after - r.after, 0)
        /\ ToOutside(steps[n + 1].totals)
              >= ToOutside(u) + Greatest(-(steps[n + 1].step.after - r.after), 0)
    BY <1>0, <1>2, IntervalDominates
  <1>9. LimitsDoNotBind /\ FollowsRule =>
            steps[n + 1].totals = u /\ steps[n + 1].step.after = r.after
    BY <1>0, <1>2, IntervalSame
  <1> HIDE DEF r, u
  <1>10. ReferenceDominates'
    <2> DEFINE Dominated(c, s) ==
          /\ FromOutside(c.totals)
               >= FromOutside(s.totals) + Greatest(c.step.after - s.step.after, 0)
          /\ ToOutside(c.totals)
               >= ToOutside(s.totals) + Greatest(-(c.step.after - s.step.after), 0)
    <2>1. ASSUME NEW i \in 1 .. n PROVE Dominated(steps[i], refResults'[i])
      <3>1. Dominated(steps[i], refResults[i])
        BY <1>0, <1>1, <2>1 DEF ReferenceDominates
      <3> QED  BY <1>2, <2>1, <3>1
    <2>2. Dominated(steps[n + 1], refResults'[n + 1])
      BY <1>2, <1>8
    <2>3. \A i \in 1 .. Len(refResults') : Dominated(steps'[i], refResults'[i])
      BY <1>5, <1>6, <2>1, <2>2
    <2> QED
      BY <2>3 DEF ReferenceDominates
  <1>11. SameAsReference'
    <2> DEFINE Same(c, s) == c.totals = s.totals /\ c.step.after = s.step.after
    <2>1. (LimitsDoNotBind /\ FollowsRule)' => LimitsDoNotBind /\ FollowsRule
      BY <1>5 DEF LimitsDoNotBind, FollowsRule
    <2>2. ASSUME LimitsDoNotBind, FollowsRule, NEW i \in 1 .. n
          PROVE  Same(steps[i], refResults'[i])
      <3>1. Same(steps[i], refResults[i])
        BY <1>0, <1>1, <2>2 DEF SameAsReference
      <3> QED  BY <1>2, <2>2, <3>1
    <2>3. ASSUME LimitsDoNotBind, FollowsRule
          PROVE  Same(steps[n + 1], refResults'[n + 1])
      BY <1>2, <1>9, <2>3
    <2>4. LimitsDoNotBind /\ FollowsRule =>
            \A i \in 1 .. Len(refResults') : Same(steps'[i], refResults'[i])
      BY <1>5, <1>6, <2>2, <2>3
    <2> QED
      BY <2>1, <2>4 DEF SameAsReference
  <1> QED
    BY <1>3, <1>4, <1>7, <1>10, <1>11 DEF ComparisonInv

LEMMA ComparisonInductive ==
    ComparisonInv /\ [AnyControllerRun \/ ReferenceRun]_<<vars, refVars>> => ComparisonInv'
  <1> SUFFICES ASSUME ComparisonInv, [AnyControllerRun \/ ReferenceRun]_<<vars, refVars>>
               PROVE  ComparisonInv'
    OBVIOUS
  <1>1. CASE AnyControllerRun
    <2>1. /\ OpenNext \/ ControllerAnswers
          /\ UNCHANGED <<refElapsed, refSoc, refResults, refOutcome>>
      BY <1>1 DEF AnyControllerRun, refVars
    <2>2. Inv /\ FirstRunInv /\ ResultIsComplete
      BY DEF ComparisonInv, FirstRunInv, OrderInv, Inv
    <2>3. FirstRunInv' /\ pc # "ended" /\ UNCHANGED scenario
      BY <2>1, <2>2, FirstRunSteps, FirstRunKeepsInv
    <2>4. refResults = <<>>
      BY <2>2, <2>3 DEF ComparisonInv, ReferenceLinked, ResultIsComplete
    <2>5. ReferenceDominates' /\ SameAsReference'
      BY <2>1, <2>4 DEF ReferenceDominates, SameAsReference
    <2>6. Reference!TypeOK' /\ ReferenceLinked'
      BY <2>1, <2>3, <2>4 DEF ComparisonInv, Reference!TypeOK, ReferenceLinked
    <2> QED
      BY <2>3, <2>5, <2>6 DEF ComparisonInv
  <1>2. CASE ReferenceRun /\ Reference!RunInterval
    BY <1>2, RunIntervalKeepsOrder DEF ReferenceRun
  <1>3. CASE UNCHANGED <<vars, refSoc, refResults>> /\ Reference!TypeOK'
    <2>1. FirstRunInv'
      BY <1>3, FirstRunStutters DEF ComparisonInv
    <2>2. UNCHANGED <<scenario, steps, outcome, refSoc, refResults>>
      BY <1>3 DEF vars
    <2>3. ReferenceLinked'
      BY <2>2 DEF ComparisonInv, ReferenceLinked
    <2>4. ReferenceDominates'
      BY <2>2 DEF ComparisonInv, ReferenceDominates
    <2>5. SameAsReference'
      BY <2>2 DEF ComparisonInv, SameAsReference, LimitsDoNotBind, FollowsRule
    <2> QED
      BY <1>3, <2>1, <2>3, <2>4, <2>5 DEF ComparisonInv
  <1>4. CASE ReferenceRun /\ Reference!Return
    <2>1. Reference!TypeOK'
      BY <1>4, ReferenceNextTyped DEF ComparisonInv, Reference!Next
    <2> QED
      BY <1>3, <1>4, <2>1 DEF ReferenceRun, Reference!Return
  <1>5. CASE UNCHANGED <<vars, refVars>>
    <2>1. Reference!TypeOK'
      BY <1>5 DEF ComparisonInv, Reference!TypeOK, vars, refVars
    <2> QED
      BY <1>3, <1>5, <2>1 DEF refVars
  <1> QED
    BY <1>1, <1>2, <1>4, <1>5 DEF ReferenceRun, Reference!Next

LEMMA ComparisonInitInv == ComparisonInit => ComparisonInv
  <1> SUFFICES ASSUME ComparisonInit PROVE ComparisonInv
    OBVIOUS
  <1>1. Init /\ Reference!Init
    BY DEF ComparisonInit
  <1>2. refResults = <<>> /\ Len(refResults) = 0 /\ refSoc = scenario.battery.soc
    BY <1>1 DEF Reference!Init
  <1> QED
    BY <1>1, <1>2, InitFirstRun, ReferenceInitTyped
    DEF ComparisonInv, ReferenceLinked, ReferenceDominates, SameAsReference

\* The invariant of a comparison with any provider.
THEOREM AnyComparisonInv == AnyComparison => []ComparisonInv
  BY ComparisonInitInv, ComparisonInductive, PTL DEF AnyComparison

\* The yardstick is a bound: interval by interval, no provider's run needs less from
\* outside or gives less away than the battery-first reference, but for what it has paid
\* for in stored energy.
THEOREM AnyComparisonReferenceDominates == AnyComparison => []ReferenceDominates
  <1>1. ComparisonInv => ReferenceDominates
    BY DEF ComparisonInv
  <1> QED
    BY <1>1, AnyComparisonInv, PTL

\* The two implementations of the rule coincide where its limits do not bind.
THEOREM AnyComparisonSameAsReference == AnyComparison => []SameAsReference
  <1>1. ComparisonInv => SameAsReference
    BY DEF ComparisonInv
  <1> QED
    BY <1>1, AnyComparisonInv, PTL

\* The second run of a comparison implements the ledger.
THEOREM AnyComparisonReferenceLedger == AnyComparison => ReferenceKeepsLedger
  <1>1. ComparisonInit => Reference!Ledger!Init
    BY ReferenceInitKeepsLedger DEF ComparisonInit
  <1>2. /\ ComparisonInv /\ ComparisonInv'
        /\ [AnyControllerRun \/ ReferenceRun]_<<vars, refVars>>
        => [Reference!Ledger!Next]_(Reference!Ledger!ledger)
    <2> SUFFICES ASSUME ComparisonInv, ComparisonInv',
                        [AnyControllerRun \/ ReferenceRun]_<<vars, refVars>>
                 PROVE  [Reference!Ledger!Next]_(Reference!Ledger!ledger)
      OBVIOUS
    <2>1. Reference!TypeOK /\ Reference!TypeOK' /\ Inv
      BY DEF ComparisonInv, FirstRunInv, OrderInv
    <2>2. [Reference!Next]_(Reference!vars)
      <3>1. CASE AnyControllerRun
        BY <2>1, <3>1, FirstRunSteps DEF AnyControllerRun, refVars, Reference!vars
      <3>2. CASE ReferenceRun
        BY <3>2 DEF ReferenceRun
      <3>3. CASE UNCHANGED <<vars, refVars>>
        BY <3>3 DEF vars, refVars, Reference!vars
      <3> QED  BY <3>1, <3>2, <3>3
    <2> QED
      BY <2>1, <2>2, ReferenceStepKeepsLedger
  <1> QED
    BY <1>1, <1>2, AnyComparisonInv, PTL
    DEF AnyComparison, ReferenceKeepsLedger, Reference!KeepsLedger, Reference!Ledger!Spec

-----------------------------------------------------------------------------
(* The comparison with the C++ controller behind the network.                *)

\* The comparison with the C++ controller is one with some provider: all that holds
\* whatever the provider does, holds of it.
THEOREM ComparisonIsOpen == Comparison => AnyComparison
  <1>1. [ComparisonNext]_<<vars, refVars>> =>
            [AnyControllerRun \/ ReferenceRun]_<<vars, refVars>>
    BY DEF ComparisonNext, ControllerRun, AnyControllerRun, ClosedNext, OpenNext,
           ProviderStep
  <1> QED
    BY <1>1, PTL DEF Comparison, AnyComparison

LEMMA ComparisonFollows ==
    ClosedInv /\ FollowsRule /\ [ComparisonNext]_<<vars, refVars>> =>
        ClosedInv' /\ FollowsRule'
  <1> SUFFICES ASSUME ClosedInv, FollowsRule, [ComparisonNext]_<<vars, refVars>>
               PROVE  ClosedInv' /\ FollowsRule'
    OBVIOUS
  <1>1. [ClosedNext]_vars
    BY DEF ComparisonNext, ControllerRun, ReferenceRun
  <1>2. ClosedInv'
    BY <1>1, ClosedInductive
  <1>3. Inv
    BY DEF ClosedInv
  <1>4. CASE Apply
    <2>1. PICK n \in Nat : n = Len(steps)
      BY <1>3 DEF Inv, TypeOK
    <2>2. /\ Len(steps') = n + 1
          /\ \A i \in 1 .. n : steps'[i] = steps[i]
          /\ steps'[n + 1].step = LoopStep
      BY <1>3, <1>4, <2>1, ApplyRecords
    <2>3. LoopStep.decision = decision /\ LoopStep.measurement = measurement
      BY DEF LoopStep
    <2>4. decision = Decide(Limits, measurement)
      BY <1>4 DEF Apply, ClosedInv, Asked
    <2> SUFFICES ASSUME NEW i \in 1 .. n + 1
                 PROVE  steps'[i].step.decision =
                            Decide(Limits, steps'[i].step.measurement)
      BY <1>2, <2>2 DEF FollowsRule
    <2>5. CASE i = n + 1
      BY <2>2, <2>3, <2>4, <2>5
    <2>6. CASE i \in 1 .. n
      BY <2>1, <2>2, <2>6 DEF FollowsRule
    <2> QED
      BY <2>1, <2>5, <2>6
  <1>5. CASE UNCHANGED steps
    BY <1>2, <1>5 DEF FollowsRule
  <1>6. Apply \/ UNCHANGED steps
    <2>1. CASE ClosedNext
      BY <1>3, <2>1, FirstRunSteps DEF ClosedNext, OpenNext, ProviderStep
    <2>2. CASE UNCHANGED vars
      BY <2>2 DEF vars
    <2> QED
      BY <1>1, <2>1, <2>2
  <1> QED
    BY <1>4, <1>5, <1>6

LEMMA ComparisonFollowsInit == ComparisonInit => ClosedInv /\ FollowsRule
  <1> SUFFICES ASSUME ComparisonInit PROVE ClosedInv /\ FollowsRule
    OBVIOUS
  <1>1. Init /\ Len(steps) = 0
    BY DEF ComparisonInit, Init
  <1>2. ClosedInv
    BY <1>1, InitInv DEF Init, ClosedInv, NeverRefused, Asked
  <1> QED
    BY <1>1, <1>2 DEF FollowsRule

\* Nothing but a decision of the C++ rule, with the limits the controller was created
\* with, ever moves the plant.
THEOREM ComparisonFollowsRule == Comparison => []FollowsRule
  BY ComparisonFollowsInit, ComparisonFollows, PTL DEF Comparison

\* So where the limits do not bind, the C++ controller behind the network and the Python
\* strategy are one: the same energy moved, bought, sold and missing after every interval.
THEOREM ComparisonSameStrategy ==
    Comparison => [](LimitsDoNotBind =>
                        \A i \in 1 .. Len(refResults) :
                            /\ steps[i].totals = refResults[i].totals
                            /\ steps[i].step.after = refResults[i].step.after)
  <1>1. FollowsRule /\ SameAsReference =>
            (LimitsDoNotBind =>
                \A i \in 1 .. Len(refResults) :
                    /\ steps[i].totals = refResults[i].totals
                    /\ steps[i].step.after = refResults[i].step.after)
    BY DEF SameAsReference
  <1> QED
    BY <1>1, ComparisonIsOpen, ComparisonFollowsRule, AnyComparisonSameAsReference, PTL
=============================================================================
