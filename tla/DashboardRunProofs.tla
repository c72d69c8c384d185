--------------------------- MODULE DashboardRunProofs ---------------------------
(***************************************************************************)
(* Proofs about DashboardRun: a request of the dashboard compares two runs   *)
(* as the command does, and the document it is answered with explains what   *)
(* the rule decided and what the plant did.                                  *)
(***************************************************************************)
EXTENDS DashboardRun, ScenarioComparisonProofs

-----------------------------------------------------------------------------
(* The arithmetic of an explanation.                                         *)

\* A power is a natural, and zero only for an energy of zero.
LEMMA PowerOverNat ==
    ASSUME NEW energy \in Nat, NEW hours \in Nat \ {0}
    PROVE  PowerOver(energy, hours) \in Nat
  <1>1. energy * PowerScale \in Nat
    BY UnitsAssumption, ProductNat
  <1> QED
    BY <1>1, QuotientNat DEF PowerOver

\* A power below the one that moves an energy moves less than that energy.
LEMMA LessPowerLessEnergy ==
    ASSUME NEW energy \in Nat, NEW hours, ExactDuration(hours),
           NEW power \in Nat, power < PowerOver(energy, hours)
    PROVE  EnergyOver(power, hours) < energy
  <1>1. PICK k \in 1 .. PowerScale : PowerScale = hours * k
    BY DEF ExactDuration
  <1>2. /\ hours \in Nat \ {0} /\ k \in Nat \ {0} /\ PowerScale \in Nat \ {0}
        /\ energy * k \in Nat
    BY <1>1, UnitsAssumption, ProductNat DEF ExactDuration
  <1>3. PowerOver(energy, hours) = energy * k
    <2>1. energy * PowerScale = (energy * k) * hours
      BY <1>1, <1>2
    <2> QED
      BY <1>2, <2>1, ExactQuotient DEF PowerOver
  <1>4. power + 1 <= energy * k
    BY <1>2, <1>3
  <1>5. (power + 1) * hours <= energy * PowerScale
    <2>1. (power + 1) * hours <= (energy * k) * hours
      BY <1>2, <1>4, ProductMonotone
    <2>2. (energy * k) * hours = energy * PowerScale
      BY <1>1, <1>2
    <2> QED
      BY <2>1, <2>2
  <1>6. power * hours \in Nat /\ power * hours < energy * PowerScale
    <2>1. (power + 1) * hours = power * hours + hours
      BY <1>2
    <2>2. power * hours \in Nat /\ energy * PowerScale \in Nat
      BY <1>2, ProductNat
    <2> QED
      BY <1>2, <1>5, <2>1, <2>2
  <1> QED
    <2> DEFINE a == power * hours
    <2>1. a \in Nat /\ a < energy * PowerScale
      BY <1>6
    <2> HIDE DEF a
    <2>2. a \div PowerScale < energy
      BY <1>2, <2>1
    <2> QED
      BY <2>2 DEF a, EnergyOver

\* The candidate that is named is the first of the smallest.
LEMMA BindingIsFirstLeast ==
    ASSUME NEW a, NEW b, NEW c, a.power \in Int, b.power \in Int, c.power \in Int
    PROVE  LET chosen == Binding(<<a, b, c>>)
           IN  \/ chosen = a /\ a.power <= b.power /\ a.power <= c.power
               \/ chosen = b /\ b.power < a.power /\ b.power <= c.power
               \/ chosen = c /\ c.power < a.power /\ c.power < b.power
  <1> DEFINE s == <<a, b, c>>
             first(i) == \A j \in DOMAIN s :
                            \/ s[i].power < s[j].power
                            \/ s[i].power = s[j].power /\ i <= j
             i == CHOOSE n \in DOMAIN s : first(n)
  <1>1. DOMAIN s = {1, 2, 3} /\ s[1] = a /\ s[2] = b /\ s[3] = c
    OBVIOUS
  <1>2. \E n \in DOMAIN s : first(n)
    <2>1. CASE a.power <= b.power /\ a.power <= c.power
      <3>1. first(1)
        BY <1>1, <2>1
      <3> QED  BY <1>1, <3>1
    <2>2. CASE b.power < a.power /\ b.power <= c.power
      <3>1. first(2)
        BY <1>1, <2>2
      <3> QED  BY <1>1, <3>1
    <2>3. CASE c.power < a.power /\ c.power < b.power
      <3>1. first(3)
        BY <1>1, <2>3
      <3> QED  BY <1>1, <3>1
    <2> QED  BY <2>1, <2>2, <2>3
  <1>3. i \in DOMAIN s /\ first(i)
    BY <1>2
  <1>4. Binding(s) = s[i]
    BY DEF Binding
  <1> HIDE DEF i
  <1>5. CASE i = 1
    <2>1. a.power <= b.power /\ a.power <= c.power
      BY <1>1, <1>3, <1>5
    <2> QED  BY <1>1, <1>4, <1>5, <2>1
  <1>6. CASE i = 2
    <2>1. b.power < a.power /\ b.power <= c.power
      BY <1>1, <1>3, <1>6
    <2> QED  BY <1>1, <1>4, <1>6, <2>1
  <1>7. CASE i = 3
    <2>1. c.power < a.power /\ c.power < b.power
      BY <1>1, <1>3, <1>7
    <2> QED  BY <1>1, <1>4, <1>7, <2>1
  <1> QED
    BY <1>1, <1>3, <1>5, <1>6, <1>7

-----------------------------------------------------------------------------
(* One rule in two languages: the candidates of the explanation are the      *)
(* powers the controller takes the minimum of.                               *)

LimitRecord == [maxCharge: Nat, maxDischarge: Nat, minSoc: Nat, maxSoc: Nat]

Needed(m) == PowerOver(Magnitude(m.net), m.hours)
PowerLimit(limits, m) == IF m.net > 0 THEN limits.maxCharge ELSE limits.maxDischarge
Reserve(limits, m) ==
    IF m.net > 0 THEN Greatest(0, limits.maxSoc - m.soc)
    ELSE Greatest(0, m.soc - limits.minSoc)
Smallest(limits, m) ==
    Least(Needed(m), Least(PowerLimit(limits, m), PowerOver(Reserve(limits, m), m.hours)))

\* The three powers are naturals.
LEMMA PowersNat ==
    ASSUME NEW limits \in LimitRecord, NEW m \in Measured, m.hours > 0
    PROVE  /\ m.net \in Int /\ m.soc \in Nat /\ m.hours \in Nat \ {0}
           /\ Needed(m) \in Nat /\ PowerLimit(limits, m) \in Nat
           /\ Reserve(limits, m) \in Nat
           /\ PowerOver(Reserve(limits, m), m.hours) \in Nat
           /\ Smallest(limits, m) \in Nat
  <1>1. /\ m.net \in Int /\ m.soc \in Nat /\ m.hours \in Nat \ {0}
        /\ limits.maxCharge \in Nat /\ limits.maxDischarge \in Nat
        /\ limits.minSoc \in Nat /\ limits.maxSoc \in Nat
    BY DEF LimitRecord, Measured
  <1>2. /\ Magnitude(m.net) \in Nat /\ PowerLimit(limits, m) \in Nat
        /\ Reserve(limits, m) \in Nat
    BY <1>1 DEF Magnitude, PowerLimit, Reserve, Greatest
  <1>3. Needed(m) \in Nat /\ PowerOver(Reserve(limits, m), m.hours) \in Nat
    BY <1>1, <1>2, PowerOverNat DEF Needed
  <1> QED
    BY <1>1, <1>2, <1>3 DEF Smallest, Least

\* The candidate that is named has the smallest of the three powers, and its code says
\* which of them it is.
LEMMA BindingNames ==
    ASSUME NEW limits \in LimitRecord, NEW m \in Measured, m.hours > 0, m.net # 0
    PROVE  LET b == Binding(Candidates(limits, m))
               reserved == PowerOver(Reserve(limits, m), m.hours)
           IN  /\ b.power = Smallest(limits, m)
               /\ \/ /\ b.code = IF m.net > 0 THEN "covers-surplus" ELSE "covers-deficit"
                     /\ b.power = Needed(m)
                  \/ /\ b.code = IF m.net > 0 THEN "max-charge-power"
                                 ELSE "max-discharge-power"
                     /\ b.power = PowerLimit(limits, m) /\ b.power < Needed(m)
                  \/ /\ b.code = IF m.net > 0 THEN "soc-maximum" ELSE "soc-minimum"
                     /\ b.power = reserved
                     /\ b.power < Needed(m) /\ b.power < PowerLimit(limits, m)
  <1> DEFINE n == Needed(m)
             l == PowerLimit(limits, m)
             r == PowerOver(Reserve(limits, m), m.hours)
             x == [code |-> IF m.net > 0 THEN "covers-surplus" ELSE "covers-deficit",
                   power |-> n]
             y == [code |-> IF m.net > 0 THEN "max-charge-power" ELSE "max-discharge-power",
                   power |-> l]
             z == [code |-> IF m.net > 0 THEN "soc-maximum" ELSE "soc-minimum",
                   power |-> r]
  <1>1. /\ m.net \in Int /\ n \in Nat /\ l \in Nat /\ r \in Nat
    BY PowersNat
  <1>2. Candidates(limits, m) = <<x, y, z>>
    <2>1. CASE m.net > 0
      <3>1. Magnitude(m.net) = m.net
        BY <1>1, <2>1 DEF Magnitude
      <3> QED
        BY <2>1, <3>1 DEF Candidates, Needed, PowerLimit, Reserve
    <2>2. CASE ~(m.net > 0)
      <3>1. Magnitude(m.net) = -m.net
        BY <1>1, <2>2 DEF Magnitude
      <3> QED
        BY <2>2, <3>1 DEF Candidates, Needed, PowerLimit, Reserve
    <2> QED
      BY <2>1, <2>2
  <1>3. /\ x.power = n /\ y.power = l /\ z.power = r
        /\ x.code = IF m.net > 0 THEN "covers-surplus" ELSE "covers-deficit"
        /\ y.code = IF m.net > 0 THEN "max-charge-power" ELSE "max-discharge-power"
        /\ z.code = IF m.net > 0 THEN "soc-maximum" ELSE "soc-minimum"
    OBVIOUS
  <1>4. Smallest(limits, m) = Least(n, Least(l, r))
    BY DEF Smallest
  <1> HIDE DEF n, l, r, x, y, z
  <1> DEFINE b == Binding(<<x, y, z>>)
  <1>5. \/ b = x /\ x.power <= y.power /\ x.power <= z.power
        \/ b = y /\ y.power < x.power /\ y.power <= z.power
        \/ b = z /\ z.power < x.power /\ z.power < y.power
    BY <1>1, <1>3, BindingIsFirstLeast
  <1> HIDE DEF b
  <1>6. b.power = Least(n, Least(l, r))
    BY <1>1, <1>3, <1>5 DEF Least
  <1>7. \/ b.code = x.code /\ b.power = n
        \/ b.code = y.code /\ b.power = l /\ b.power < n
        \/ b.code = z.code /\ b.power = r /\ b.power < n /\ b.power < l
    BY <1>3, <1>5
  <1> QED
    BY <1>2, <1>3, <1>4, <1>6, <1>7 DEF b, n, l, r

\* The rule moves the smallest of the three powers, and is idle when that is none.
LEMMA RuleMovesSmallest ==
    ASSUME NEW limits \in LimitRecord, NEW m \in Measured, m.hours > 0,
           Magnitude(m.net) > BalanceTolerance
    PROVE  LET d == Decide(limits, m)
           IN  /\ d.power = Smallest(limits, m)
               /\ d.action = IF Smallest(limits, m) = 0 THEN "Idle"
                             ELSE IF m.net > 0 THEN "ChargeBattery"
                             ELSE "DischargeBattery"
  <1>1. m.net \in Int /\ Smallest(limits, m) \in Nat /\ BalanceTolerance \in Nat
    BY PowersNat, UnitsAssumption
  <1>2. Decide(limits, m) =
          Command(m, IF m.net > 0 THEN "ChargeBattery" ELSE "DischargeBattery",
                  Smallest(limits, m))
    <2>1. ~(Magnitude(m.net) <= BalanceTolerance)
      BY <1>1 DEF Magnitude
    <2>2. CASE m.net > 0
      <3>1. Magnitude(m.net) = m.net
        BY <1>1, <2>2 DEF Magnitude
      <3> QED
        BY <2>1, <2>2, <3>1
        DEF Decide, DecideSurplus, Smallest, Needed, PowerLimit, Reserve
    <2>3. CASE ~(m.net > 0)
      BY <2>1, <2>3 DEF Decide, DecideDeficit, Smallest, Needed, PowerLimit, Reserve
    <2> QED
      BY <2>2, <2>3
  <1> DEFINE p == Smallest(limits, m)
  <1> HIDE DEF p
  <1>3. CASE p = 0
    BY <1>2, <1>3 DEF Command, p
  <1>4. CASE p # 0
    <2>1. ~(p <= 0)
      BY <1>1, <1>4 DEF p
    <2> QED
      BY <1>2, <1>4, <2>1 DEF Command, p
  <1> QED
    BY <1>3, <1>4 DEF p

\* What an explanation accepts is what the rule, with the limits that are known, would
\* have moved in the same direction.
LEMMA ExplainedByRule ==
    ASSUME NEW limits \in LimitRecord, limits # NoLimits,
           NEW m \in Measured, m.hours > 0,
           NEW d, d.power \in Int \cup {NaN},
           d.action \in {"ChargeBattery", "DischargeBattery"} => d.power # NaN
    PROVE  LET code == Explain(limits, m, d)
               direction == IF m.net > 0 THEN "ChargeBattery" ELSE "DischargeBattery"
               moved == IF d.action = "Idle" THEN 0 ELSE d.power
           IN  code \notin {"balanced", "limits-unknown"} =>
                   (code # "unexplained" <=>
                       /\ d.action \in {"Idle", direction}
                       /\ Magnitude(moved - Decide(limits, m).power) <= MatchTolerance)
  <1> DEFINE code == Explain(limits, m, d)
             direction == IF m.net > 0 THEN "ChargeBattery" ELSE "DischargeBattery"
             moved == IF d.action = "Idle" THEN 0 ELSE d.power
             b == Binding(Candidates(limits, m))
             p == Smallest(limits, m)
  <1>1. m.net \in Int /\ p \in Nat /\ BalanceTolerance \in Nat /\ MatchTolerance \in Nat
    BY PowersNat, UnitsAssumption, DashboardAssumption
  <1> SUFFICES ASSUME code \notin {"balanced", "limits-unknown"}
               PROVE  code # "unexplained" <=>
                          /\ d.action \in {"Idle", direction}
                          /\ Magnitude(moved - Decide(limits, m).power) <= MatchTolerance
    OBVIOUS
  <1>2. Magnitude(m.net) > BalanceTolerance /\ m.net # 0
    BY <1>1 DEF Explain, Magnitude
  <1>3. Decide(limits, m).power = p
    BY <1>2, RuleMovesSmallest
  <1>4. b.power = p /\ b.code # "unexplained"
    BY <1>2, BindingNames
  <1>5. code = IF d.action = "Idle" /\ p <= MatchTolerance
               THEN IF m.net > 0 THEN "battery-full" ELSE "battery-at-minimum"
               ELSE IF /\ d.action = direction /\ d.power # NaN
                       /\ Magnitude(d.power - p) <= MatchTolerance
               THEN b.code ELSE "unexplained"
    <2>1. ~(Magnitude(m.net) <= BalanceTolerance)
      BY <1>1, <1>2 DEF Magnitude
    <2> HIDE DEF b, p
    <2> QED
      BY <1>4, <2>1 DEF Explain, b
  <1> HIDE DEF b, p, code
  <1>6. CASE d.action = "Idle"
    <2>1. moved = 0 /\ d.action # direction /\ Magnitude(0 - p) = p
      BY <1>1, <1>6 DEF Magnitude
    <2> QED
      BY <1>3, <1>5, <1>6, <2>1
  <1>7. CASE d.action = direction
    <2>1. d.power # NaN /\ moved = d.power /\ d.action # "Idle"
      BY <1>7
    <2> QED
      BY <1>3, <1>4, <1>5, <1>7, <2>1
  <1>8. CASE d.action \notin {"Idle", direction}
    BY <1>5, <1>8
  <1> QED
    BY <1>6, <1>7, <1>8

\* How the rule's own decision is explained.
LEMMA ExplainOfRule ==
    ASSUME NEW limits \in LimitRecord, limits # NoLimits,
           NEW m \in Measured, m.hours > 0, Magnitude(m.net) > BalanceTolerance,
           NEW d, d = Decide(limits, m)
    PROVE  Explain(limits, m, d) =
               IF Smallest(limits, m) = 0
               THEN IF m.net > 0 THEN "battery-full" ELSE "battery-at-minimum"
               ELSE Binding(Candidates(limits, m)).code
  <1> DEFINE p == Smallest(limits, m)
             b == Binding(Candidates(limits, m))
  <1>1. /\ m.net \in Int /\ p \in Nat /\ BalanceTolerance \in Nat
        /\ MatchTolerance \in Nat /\ NaN \notin Int
    BY PowersNat, UnitsAssumption, DashboardAssumption
  <1>2. ~(Magnitude(m.net) <= BalanceTolerance) /\ m.net # 0
    BY <1>1 DEF Magnitude
  <1>3. /\ d.power = p /\ b.power = p
        /\ d.action = IF p = 0 THEN "Idle"
                      ELSE IF m.net > 0 THEN "ChargeBattery" ELSE "DischargeBattery"
    BY <1>2, RuleMovesSmallest, BindingNames
  <1> HIDE DEF p
  <1>4. p # NaN /\ Magnitude(p - p) <= MatchTolerance /\ (p = 0 => p <= MatchTolerance)
    BY <1>1 DEF Magnitude
  <1> HIDE DEF b
  <1>5. Explain(limits, m, d) =
          IF d.action = "Idle" /\ p <= MatchTolerance
          THEN IF m.net > 0 THEN "battery-full" ELSE "battery-at-minimum"
          ELSE IF /\ d.action = (IF m.net > 0 THEN "ChargeBattery" ELSE "DischargeBattery")
                  /\ d.power # NaN
                  /\ Magnitude(d.power - p) <= MatchTolerance
          THEN b.code ELSE "unexplained"
    BY <1>2, <1>3 DEF Explain, b
  <1>6. CASE p = 0
    BY <1>3, <1>4, <1>5, <1>6 DEF p
  <1>7. CASE p # 0
    <2>1. d.action # "Idle"
      BY <1>3, <1>7
    <2> QED
      BY <1>3, <1>4, <1>5, <1>7, <2>1 DEF p, b
  <1> QED
    BY <1>6, <1>7

-----------------------------------------------------------------------------
(* What a record says of its interval, as far as an explanation speaks of it. *)

Outside(s) == s.imported + s.exported + s.curtailed + s.unserved

\* The measurement is one the controller accepts, no power that moved the battery was no
\* number, the interval is shared out completely, and a battery that is as large as the
\* controller takes it for moved what the controller decided.
Told(s, capacity) ==
    LET m == s.measurement
        d == s.decision
    IN  /\ MeasurementAccepted(m) /\ ExactDuration(m.hours)
        /\ m.net = NetEnergy(m.generated, m.consumed)
        /\ d.action \in {"ChargeBattery", "DischargeBattery"} => d.power # NaN
        /\ s.after = m.soc + s.charged - s.discharged
        /\ s.charged + s.exported + s.curtailed = Surplus(m.net)
        /\ s.discharged + s.imported + s.unserved = Deficit(m.net)
        /\ Limits.maxSoc <= capacity /\ d = Decide(Limits, m) =>
             s.charged + s.discharged = EnergyOver(d.power, m.hours)

\* What the plant makes of the rule's own decision, in either direction.
LEMMA RuleOutcome ==
    ASSUME NEW s \in RecordedStep, NEW capacity, Told(s, capacity),
           Limits.maxSoc <= capacity,
           s.decision = Decide(Limits, s.measurement)
    PROVE  LET m == s.measurement
               energy == EnergyOver(s.decision.power, m.hours)
           IN  /\ m.net = 0 \/ Magnitude(m.net) > BalanceTolerance
               /\ m.net = 0 => s.charged + s.discharged + Outside(s) = 0
               /\ m.net > 0 => /\ s.charged = energy /\ s.after = m.soc + energy
                               /\ Outside(s) = m.net - energy
               /\ m.net < 0 => /\ s.discharged = energy /\ s.after = m.soc - energy
                               /\ Outside(s) = -m.net - energy
  <1> DEFINE m == s.measurement
             energy == EnergyOver(s.decision.power, m.hours)
             net == m.net
  <1>1. /\ m \in Measured /\ net \in Int /\ m.soc \in Nat
        /\ m.generated \in Int /\ m.consumed \in Int
        /\ s.charged \in Nat /\ s.discharged \in Nat /\ s.imported \in Nat
        /\ s.exported \in Nat /\ s.curtailed \in Nat /\ s.unserved \in Nat
    BY DEF RecordedStep, Measured
  <1>2. /\ s.after = m.soc + s.charged - s.discharged
        /\ s.charged + s.exported + s.curtailed = Surplus(net)
        /\ s.discharged + s.imported + s.unserved = Deficit(net)
        /\ s.charged + s.discharged = energy
        /\ net = NetEnergy(m.generated, m.consumed)
    BY DEF Told
  <1>3. net = 0 \/ Magnitude(net) > BalanceTolerance
    BY <1>1, <1>2, UnitsAssumption DEF NetEnergy, Magnitude
  <1>4. /\ Surplus(net) = IF net > 0 THEN net ELSE 0
        /\ Deficit(net) = IF net < 0 THEN -net ELSE 0
    BY <1>1 DEF Surplus, Deficit, Greatest
  <1>5. PICK c \in Nat, d \in Nat, i \in Nat, e \in Nat, k \in Nat, u \in Nat :
          /\ c = s.charged /\ d = s.discharged /\ i = s.imported
          /\ e = s.exported /\ k = s.curtailed /\ u = s.unserved
    BY <1>1
  <1>6. Outside(s) = i + e + k + u
    BY <1>5 DEF Outside
  <1> HIDE DEF energy, net, m
  <1>7. /\ c + e + k = IF net > 0 THEN net ELSE 0
        /\ d + i + u = IF net < 0 THEN -net ELSE 0
        /\ c + d = energy /\ s.after = m.soc + c - d
    BY <1>2, <1>4, <1>5
  <1>8. /\ net = 0 => c + d + (i + e + k + u) = 0
        /\ net > 0 => d = 0 /\ c = energy /\ i + e + k + u = net - energy
        /\ net < 0 => c = 0 /\ d = energy /\ i + e + k + u = -net - energy
    BY <1>1, <1>7
  <1>9. /\ net > 0 => s.after = m.soc + energy
        /\ net < 0 => s.after = m.soc - energy
    BY <1>1, <1>7, <1>8
  <1> QED
    BY <1>3, <1>5, <1>6, <1>8, <1>9 DEF net, m, energy

\* The energy of the rule's power, and of each power it may be limited by.
LEMMA SmallestMoves ==
    ASSUME NEW limits \in LimitRecord, NEW m \in Measured, ExactDuration(m.hours)
    PROVE  LET p == Smallest(limits, m)
               need == Magnitude(m.net)
               stock == Reserve(limits, m)
           IN  /\ p = Needed(m) => EnergyOver(p, m.hours) = need
               /\ p < Needed(m) => EnergyOver(p, m.hours) < need
               /\ p = PowerOver(stock, m.hours) => EnergyOver(p, m.hours) = stock
               /\ p = 0 => EnergyOver(p, m.hours) = 0
               /\ p = 0 /\ PowerLimit(limits, m) > 0 => need = 0 \/ stock = 0
  <1> DEFINE p == Smallest(limits, m)
             need == Magnitude(m.net)
             stock == Reserve(limits, m)
             l == PowerLimit(limits, m)
  <1>1. /\ m.hours \in Nat \ {0} /\ m.hours > 0
    BY DEF ExactDuration
  <1>2. /\ m.net \in Int /\ p \in Nat /\ stock \in Nat /\ l \in Nat
    BY <1>1, PowersNat
  <1>3. need \in Nat
    BY <1>2 DEF Magnitude
  <1>4. /\ Needed(m) = PowerOver(need, m.hours)
        /\ p = Least(Needed(m), Least(l, PowerOver(stock, m.hours)))
    BY DEF Needed, Smallest
  <1> HIDE DEF p, need, stock, l
  <1>5. /\ EnergyOver(PowerOver(need, m.hours), m.hours) = need
        /\ EnergyOver(PowerOver(stock, m.hours), m.hours) = stock
        /\ PowerOver(need, m.hours) \in Nat /\ PowerOver(stock, m.hours) \in Nat
    BY <1>2, <1>3, PowerRoundTrip
  <1>6. p < Needed(m) => EnergyOver(p, m.hours) < need
    BY <1>2, <1>3, <1>4, LessPowerLessEnergy
  <1>7. EnergyOver(0, m.hours) = 0
    BY <1>1, UnitsAssumption DEF EnergyOver
  <1>8. p = 0 /\ l > 0 => need = 0 \/ stock = 0
    <2>1. p = 0 /\ l > 0 => PowerOver(need, m.hours) = 0 \/ PowerOver(stock, m.hours) = 0
      BY <1>2, <1>4, <1>5 DEF Least
    <2> QED
      BY <1>5, <1>7, <2>1
  <1> QED
    BY <1>4, <1>5, <1>6, <1>7, <1>8 DEF p, need, stock, l

\* The limits of the controller are limits, and distinct from having none.
LEMMA LimitsKnown ==
    /\ Limits \in LimitRecord /\ OtherLimits \subseteq LimitRecord
    /\ \A limits \in {Limits} \cup OtherLimits :
            limits # NoLimits /\ limits # NotAsked
    /\ Limits.maxCharge > 0 /\ Limits.maxDischarge > 0
  BY LoopAssumption, DashboardAssumption DEF LimitRecord, LimitsValid

\* A decision of the rule is explained, and the explanation is true of what the plant
\* did with it.
LEMMA ExplainedByPlant ==
    ASSUME NEW s \in RecordedStep, NEW capacity, Told(s, capacity),
           Limits.maxSoc <= capacity,
           s.decision = Decide(Limits, s.measurement)
    PROVE  ReasonHolds(Explain(Limits, s.measurement, s.decision), s, Limits)
  <1> DEFINE m == s.measurement
             d == s.decision
             p == Smallest(Limits, m)
             stock == Reserve(Limits, m)
             b == Binding(Candidates(Limits, m))
             energy == EnergyOver(p, m.hours)
             out == s.imported + s.exported + s.curtailed + s.unserved
             code == Explain(Limits, m, d)
  <1> SUFFICES ReasonHolds(code, s, Limits)
    OBVIOUS
  <1>1. /\ m \in Measured /\ m.hours > 0 /\ ExactDuration(m.hours)
        /\ m.net \in Int /\ m.soc \in Nat /\ BalanceTolerance \in Nat
        /\ Limits \in LimitRecord /\ Limits # NoLimits
        /\ Limits.maxCharge \in Nat /\ Limits.maxCharge > 0
        /\ Limits.maxDischarge \in Nat /\ Limits.maxDischarge > 0
        /\ Limits.minSoc \in Nat /\ Limits.maxSoc \in Nat
        /\ s.charged \in Nat /\ s.discharged \in Nat /\ out \in Nat
    <2>1. m \in Measured /\ ExactDuration(m.hours) /\ m.hours > 0
      BY DEF Told, RecordedStep, ExactDuration
    <2>2. m.net \in Int /\ m.soc \in Nat /\ BalanceTolerance \in Nat
      BY <2>1, UnitsAssumption DEF Measured
    <2>3. /\ s.charged \in Nat /\ s.discharged \in Nat /\ s.imported \in Nat
          /\ s.exported \in Nat /\ s.curtailed \in Nat /\ s.unserved \in Nat
      BY DEF RecordedStep
    <2>4. /\ Limits \in LimitRecord /\ Limits # NoLimits
          /\ Limits.maxCharge > 0 /\ Limits.maxDischarge > 0
      BY LimitsKnown
    <2>5. /\ Limits.maxCharge \in Nat /\ Limits.maxDischarge \in Nat
          /\ Limits.minSoc \in Nat /\ Limits.maxSoc \in Nat
      BY <2>4 DEF LimitRecord
    <2>6. out \in Nat
      BY <2>3
    <2> HIDE DEF m, out
    <2> QED
      BY <2>1, <2>2, <2>3, <2>4, <2>5, <2>6
  <1>2. p \in Nat /\ stock \in Nat
    BY <1>1, PowersNat
  <1>3. CASE m.net = 0
    <2>1. code = "balanced"
      BY <1>1, <1>3 DEF Explain, Magnitude
    <2>2. s.charged + s.discharged + out = 0
      BY <1>3, RuleOutcome DEF Outside
    <2> QED
      BY <2>1, <2>2 DEF ReasonHolds
  <1>4. CASE m.net # 0
    <2>1. Magnitude(m.net) > BalanceTolerance
      BY <1>4, RuleOutcome
    <2>2. d.power = p
      BY <1>1, <2>1, RuleMovesSmallest
    <2>3. code = IF p = 0
                 THEN IF m.net > 0 THEN "battery-full" ELSE "battery-at-minimum"
                 ELSE b.code
      BY <1>1, <2>1, ExplainOfRule
    <2>4. /\ b.power = p
          /\ \/ /\ b.code = IF m.net > 0 THEN "covers-surplus" ELSE "covers-deficit"
                /\ p = Needed(m)
             \/ /\ b.code = IF m.net > 0 THEN "max-charge-power" ELSE "max-discharge-power"
                /\ p = PowerLimit(Limits, m) /\ p < Needed(m)
             \/ /\ b.code = IF m.net > 0 THEN "soc-maximum" ELSE "soc-minimum"
                /\ p = PowerOver(stock, m.hours) /\ p < Needed(m)
      BY <1>1, <1>4, BindingNames
    <2>5. /\ p = Needed(m) => energy = Magnitude(m.net)
          /\ p < Needed(m) => energy < Magnitude(m.net)
          /\ p = PowerOver(stock, m.hours) => energy = stock
          /\ p = 0 => energy = 0
          /\ p = 0 => Magnitude(m.net) = 0 \/ stock = 0
      <3>1. PowerLimit(Limits, m) > 0
        BY <1>1 DEF PowerLimit
      <3> QED
        BY <1>1, <3>1, SmallestMoves
    <2>6. energy \in Nat /\ (p # 0 /\ p = PowerOver(stock, m.hours) => stock > 0)
      <3>1. energy \in Nat
        BY <1>1, <1>2, EnergyOverNat DEF Measured
      <3>2. p # 0 /\ p = PowerOver(stock, m.hours) => stock # 0
        <4>1. PowerOver(0, m.hours) = 0
          BY <1>1, UnitsAssumption DEF PowerOver, ExactDuration
        <4> QED  BY <4>1
      <3> QED
        BY <1>2, <3>1, <3>2
    <2>7. CASE m.net > 0
      <3>1. /\ s.charged = energy /\ s.after = m.soc + energy /\ out = m.net - energy
        BY <2>2, <2>7, RuleOutcome DEF Outside
      <3>2. Magnitude(m.net) = m.net /\ stock = Greatest(0, Limits.maxSoc - m.soc)
        BY <1>1, <2>7 DEF Magnitude, Reserve
      <3>3. /\ energy = EnergyOver(p, m.hours)
            /\ p = PowerLimit(Limits, m) => p = Limits.maxCharge
        BY <2>7 DEF PowerLimit
      <3> HIDE DEF m, d, p, stock, b, energy, out, code
      <3>4. CASE p = 0
        <4>1. code = "battery-full" /\ stock = 0 /\ energy = 0
          BY <1>1, <1>4, <2>3, <2>5, <2>7, <3>2, <3>4
        <4>2. s.charged = 0 /\ s.after >= Limits.maxSoc
          BY <1>1, <3>1, <3>2, <4>1 DEF Greatest
        <4> QED
          BY <4>1, <4>2 DEF ReasonHolds
      <3>5. CASE p # 0 /\ p = Needed(m) /\ b.code = "covers-surplus"
        <4>1. code = "covers-surplus" /\ out = 0
          BY <1>1, <2>3, <2>5, <3>1, <3>2, <3>5
        <4> QED
          BY <4>1 DEF ReasonHolds, out
      <3>6. CASE /\ p # 0 /\ p = PowerLimit(Limits, m) /\ p < Needed(m)
                 /\ b.code = "max-charge-power"
        <4>1. code = "max-charge-power" /\ out > 0
              /\ s.charged = EnergyOver(Limits.maxCharge, m.hours)
          BY <1>1, <2>3, <2>5, <2>6, <3>1, <3>2, <3>3, <3>6
        <4> QED
          BY <4>1 DEF ReasonHolds, out, m
      <3>7. CASE /\ p # 0 /\ p = PowerOver(stock, m.hours) /\ p < Needed(m)
                 /\ b.code = "soc-maximum"
        <4>1. code = "soc-maximum" /\ out > 0 /\ energy = stock
          BY <1>1, <2>3, <2>5, <2>6, <3>1, <3>2, <3>7
        <4>2. s.after = Limits.maxSoc
          BY <1>1, <2>6, <3>1, <3>2, <3>7, <4>1 DEF Greatest
        <4> QED
          BY <4>1, <4>2 DEF ReasonHolds, out
      <3> QED
        BY <2>4, <2>7, <3>4, <3>5, <3>6, <3>7
    <2>8. CASE m.net < 0
      <3>1. /\ s.discharged = energy /\ s.after = m.soc - energy /\ out = -m.net - energy
        BY <2>2, <2>8, RuleOutcome DEF Outside
      <3>2. /\ Magnitude(m.net) = -m.net /\ ~(m.net > 0)
            /\ stock = Greatest(0, m.soc - Limits.minSoc)
        BY <1>1, <2>8 DEF Magnitude, Reserve
      <3>3. /\ energy = EnergyOver(p, m.hours)
            /\ p = PowerLimit(Limits, m) => p = Limits.maxDischarge
        BY <3>2 DEF PowerLimit
      <3> HIDE DEF m, d, p, stock, b, energy, out, code
      <3>4. CASE p = 0
        <4>1. code = "battery-at-minimum" /\ stock = 0 /\ energy = 0
          BY <1>1, <1>4, <2>3, <2>5, <3>2, <3>4
        <4>2. s.discharged = 0 /\ s.after <= Limits.minSoc
          BY <1>1, <3>1, <3>2, <4>1 DEF Greatest
        <4> QED
          BY <4>1, <4>2 DEF ReasonHolds
      <3>5. CASE p # 0 /\ p = Needed(m) /\ b.code = "covers-deficit"
        <4>1. code = "covers-deficit" /\ out = 0
          BY <1>1, <2>3, <2>5, <3>1, <3>2, <3>5
        <4> QED
          BY <4>1 DEF ReasonHolds, out
      <3>6. CASE /\ p # 0 /\ p = PowerLimit(Limits, m) /\ p < Needed(m)
                 /\ b.code = "max-discharge-power"
        <4>1. code = "max-discharge-power" /\ out > 0
              /\ s.discharged = EnergyOver(Limits.maxDischarge, m.hours)
          BY <1>1, <2>3, <2>5, <2>6, <3>1, <3>2, <3>3, <3>6
        <4> QED
          BY <4>1 DEF ReasonHolds, out, m
      <3>7. CASE /\ p # 0 /\ p = PowerOver(stock, m.hours) /\ p < Needed(m)
                 /\ b.code = "soc-minimum"
        <4>1. code = "soc-minimum" /\ out > 0 /\ energy = stock
          BY <1>1, <2>3, <2>5, <2>6, <3>1, <3>2, <3>7
        <4>2. s.after = Limits.minSoc
          BY <1>1, <2>6, <3>1, <3>2, <3>7, <4>1 DEF Greatest
        <4> QED
          BY <4>1, <4>2 DEF ReasonHolds, out
      <3> QED
        BY <2>4, <3>2, <3>4, <3>5, <3>6, <3>7
    <2> QED
      BY <1>1, <1>4, <2>7, <2>8
  <1> QED
    BY <1>3, <1>4

-----------------------------------------------------------------------------
(* The request as a comparison of two runs.                                  *)

\* Whatever the service does, the two runs make a step of a comparison with any provider,
\* or none.
LEMMA DashboardSteps ==
    ASSUME [OpenDashboardNext]_runVars
    PROVE  [AnyControllerRun \/ ReferenceRun]_<<vars, refVars>>
  <1>1. CASE RefuseRequest \/ ReadStatus \/ StatusRaises \/ Complete \/ Fail
    BY <1>1 DEF RefuseRequest, ReadStatus, StatusRaises, Complete, Fail
  <1>2. CASE RunPlant
    BY <1>2 DEF RunPlant, AnyControllerRun, OpenNext, ProviderStep
  <1>3. CASE RunReference
    BY <1>3 DEF RunReference
  <1>4. CASE Exchange(ControllerAnswers)
    BY <1>4 DEF Exchange, AnyControllerRun
  <1>5. ASSUME NEW d \in WireDecisions, Exchange(Answer(d))
        PROVE  AnyControllerRun
    BY <1>5 DEF Exchange, AnyControllerRun, OpenNext, ProviderStep
  <1>6. CASE UNCHANGED runVars
    BY <1>6 DEF runVars
  <1> QED
    BY <1>1, <1>2, <1>3, <1>4, <1>5, <1>6 DEF OpenDashboardNext, DashboardNext, Serve

\* A request of the dashboard implements the comparison of the command, for every backend:
\* reading the status, recording the exchanges and answering take no part in it.
THEOREM DashboardImplementsComparison == OpenDashboard => AnyComparison
  <1>1. DashboardInit => ComparisonInit
    BY DEF DashboardInit
  <1>2. [OpenDashboardNext]_runVars => [AnyControllerRun \/ ReferenceRun]_<<vars, refVars>>
    BY DashboardSteps
  <1> QED
    BY <1>1, <1>2, PTL DEF OpenDashboard, AnyComparison

-----------------------------------------------------------------------------
(* What holds while a request is served.                                     *)

RecordsTold == \A i \in 1 .. Len(steps) : Told(steps[i].step, scenario.battery.capacity)

\* Every decision that reached the plant was recorded, in order, and the last one that was
\* recorded is the one the plant is about to apply.
PassedOn ==
    /\ exchanges \in Seq(WireDecision)
    /\ \A i \in 1 .. Len(steps) : exchanges[i] = steps[i].step.decision
    /\ pc = "apply" => /\ Len(exchanges) = Len(steps) + 1
                       /\ exchanges[Len(steps) + 1] = decision
    /\ pc \in {"measure", "await"} \/ outcome = "result" => Len(exchanges) = Len(steps)

\* Neither run fails for a reason of its own, and the reference only follows a result.
RunsSound ==
    /\ outcome # "ValueError" /\ refOutcome # "ValueError"
    /\ refOutcome = "result" =>
         outcome = "result" /\ Len(refResults) = Len(scenario.steps)

\* The answer that was given, and for what.
Sent ==
    /\ request \in Request
    /\ reported \in {NotAsked} \cup Reports
    /\ response \in {"none", "OK", "BadGateway", "Dropped",
                     "NotFound", "BadRequest", "UnsupportedMediaType"}
    /\ response # "OK" => document = <<>>
    /\ response = "OK" => /\ refOutcome = "result" /\ reported \notin {NotAsked, Unusable}
                          /\ document = Explanations
    /\ response = "BadGateway" => outcome \in {"ControlApiError", "ControlApiStatusError"}
    /\ response = "Dropped" =>
        \/ reported = NotAsked
        \/ outcome \in {"OtherError", "AssertionError"}
        \/ reported = Unusable /\ outcome = "result" /\ refOutcome = "result"

DashboardInv == ComparisonInv /\ RecordsTold /\ PassedOn /\ RunsSound /\ Sent

\* What the plant records has been told it.
LEMMA ToldByApply ==
    ASSUME FirstRunInv, Apply
    PROVE  Told(LoopStep, scenario.battery.capacity)
  <1> DEFINE m == measurement
             d == decision
             s == LoopStep
  <1>1. /\ Inv /\ TypeOK /\ PhaseOK /\ ResultIsComplete /\ pc = "apply"
        /\ decision.action \in KnownAction /\ ~NotANumber /\ MeasurementAccepted(m)
    BY DEF FirstRunInv, OrderInv, Inv, PendingAccepted, Apply
  <1>2. /\ s.measurement = m /\ s.decision = d /\ m.soc = soc
        /\ s.after = soc + s.charged - s.discharged
        /\ s.charged + s.exported + s.curtailed = Surplus(m.net)
        /\ s.discharged + s.imported + s.unserved = Deficit(m.net)
        /\ m.net = NetEnergy(m.generated, m.consumed)
    BY <1>1, LoopStepSound DEF PhaseOK
  <1>3. ExactDuration(m.hours)
    BY <1>1, PendingDuration
  <1>4. d.action \in {"ChargeBattery", "DischargeBattery"} => d.power # NaN
    BY <1>1 DEF NotANumber
  <1>5. ASSUME Limits.maxSoc <= scenario.battery.capacity, d = Decide(Limits, m)
        PROVE  s.charged + s.discharged = EnergyOver(d.power, m.hours)
    <2>1. NeverRefused
      BY <1>1 DEF ResultIsComplete, NeverRefused
    <2>2. ClosedInv
      BY <1>1, <1>5, <2>1 DEF ClosedInv, Asked
    <2> QED
      BY <1>5, <2>2, AppliedSound
  <1> QED
    BY <1>1, <1>2, <1>3, <1>4, <1>5 DEF Told

LEMMA ApplyKeepsTold ==
    ASSUME FirstRunInv, RecordsTold, Apply
    PROVE  RecordsTold'
  <1>1. /\ Inv /\ TypeOK
    BY DEF FirstRunInv, OrderInv, Inv
  <1>2. PICK n \in Nat : n = Len(steps)
    BY <1>1 DEF TypeOK
  <1>3. /\ Len(steps') = n + 1 /\ UNCHANGED scenario
        /\ \A i \in 1 .. n : steps'[i] = steps[i]
        /\ steps'[n + 1].step = LoopStep
    BY <1>1, <1>2, ApplyRecords
  <1>4. Told(LoopStep, scenario.battery.capacity)
    BY ToldByApply
  <1> SUFFICES ASSUME NEW i \in 1 .. n + 1
               PROVE  Told(steps'[i].step, scenario.battery.capacity)
    BY <1>3 DEF RecordsTold
  <1>5. CASE i = n + 1
    BY <1>3, <1>4, <1>5
  <1>6. CASE i \in 1 .. n
    BY <1>2, <1>3, <1>6 DEF RecordsTold
  <1> QED
    BY <1>2, <1>5, <1>6

LEMMA StepKeepsTold ==
    ASSUME ComparisonInv, RecordsTold, [OpenDashboardNext]_runVars
    PROVE  RecordsTold'
  <1>1. FirstRunInv /\ Inv
    BY DEF ComparisonInv, FirstRunInv, OrderInv
  <1>2. CASE AnyControllerRun
    <2>1. UNCHANGED scenario /\ (Apply \/ UNCHANGED steps)
      BY <1>1, <1>2, FirstRunSteps DEF AnyControllerRun
    <2>2. CASE UNCHANGED steps
      BY <2>1, <2>2 DEF RecordsTold
    <2> QED
      BY <1>1, <2>1, <2>2, ApplyKeepsTold
  <1>3. CASE UNCHANGED vars
    BY <1>3 DEF vars, RecordsTold
  <1> QED
    BY <1>2, <1>3, DashboardSteps DEF ReferenceRun

-----------------------------------------------------------------------------

\* How a step of the plant or a failure of the client moves the run on.
LEMMA PlantPhases ==
    ASSUME Inv, PlantStep \/ RefuseAction \/ ApplyNotANumber \/ ProviderFails
    PROVE  /\ pc # "ended" /\ outcome = "none"
           /\ \/ Apply
              \/ pc = "measure" /\ pc' = "await" /\ UNCHANGED <<steps, decision, outcome>>
              \/ /\ pc = "measure" /\ pc' = "ended" /\ outcome' = "result"
                 /\ UNCHANGED <<steps, decision>>
              \/ /\ pc' = "ended" /\ UNCHANGED <<steps, decision>>
                 /\ outcome' \in {"AssertionError", "ControlApiError", "OtherError"}
  <1>1. pc # "ended" => outcome = "none"
    BY DEF Inv, ResultIsComplete
  <1>2. CASE Measure
    <2>1. pc' = "await"
      BY <1>2, MeasureKeepsInv
    <2>2. pc = "measure" /\ UNCHANGED <<steps, decision, outcome>>
      BY <1>2, <2>1 DEF Measure, Raise
    <2> QED
      BY <1>1, <2>1, <2>2
  <1>3. CASE Apply
    BY <1>1, <1>3 DEF Apply
  <1>4. CASE Return
    BY <1>1, <1>4 DEF Return
  <1>5. CASE RefuseAction \/ ApplyNotANumber \/ ProviderFails
    BY <1>1, <1>5 DEF RefuseAction, ApplyNotANumber, ProviderFails, Raise
  <1> QED
    BY <1>2, <1>3, <1>4, <1>5 DEF PlantStep

\* How an answer moves it on.
LEMMA ExchangePhases ==
    ASSUME Inv, NEW d, Answer(d) \/ ControllerAnswers
    PROVE  /\ pc = "await" /\ outcome = "none" /\ UNCHANGED steps
           /\ \/ pc' = "apply" /\ UNCHANGED outcome
              \/ pc' = "ended" /\ outcome' \in {"ControlApiError", "ControlApiStatusError"}
  <1>1. pc # "ended" => outcome = "none"
    BY DEF Inv, ResultIsComplete
  <1>2. CASE \E e : Answer(e)
    BY <1>1, <1>2 DEF Answer, Raise
  <1>3. CASE ControllerAnswers /\ ~(\E e : Answer(e))
    BY <1>1, <1>3 DEF ControllerAnswers, Raise
  <1> QED
    BY <1>2, <1>3

\* Every step of the service, by what it does to the two runs and to the exchanges.
LEMMA ServiceSteps ==
    ASSUME Inv, [OpenDashboardNext]_runVars
    PROVE  \/ UNCHANGED runVars
           \/ /\ RefuseRequest \/ ReadStatus \/ StatusRaises \/ Complete \/ Fail
              /\ UNCHANGED <<vars, refVars, exchanges>>
           \/ /\ Running /\ ReferenceRun /\ UNCHANGED serviceVars
           \/ /\ Running /\ UNCHANGED <<refVars, serviceVars>>
              /\ PlantStep \/ RefuseAction \/ ApplyNotANumber \/ ProviderFails
           \/ /\ Running /\ UNCHANGED <<refVars, request, reported, response, document>>
              /\ \E d : Answer(d) \/ ControllerAnswers
              /\ exchanges' = IF pc' = "apply" THEN Append(exchanges, decision')
                              ELSE exchanges
  <1>1. CASE RefuseRequest \/ ReadStatus \/ StatusRaises \/ Complete \/ Fail
    BY <1>1 DEF RefuseRequest, ReadStatus, StatusRaises, Complete, Fail
  <1>2. CASE RunPlant \/ RunReference
    BY <1>2 DEF RunPlant, RunReference
  <1>3. CASE Exchange(ControllerAnswers)
    BY <1>3 DEF Exchange
  <1>4. ASSUME NEW d \in WireDecisions, Exchange(Answer(d))
        PROVE  /\ Running /\ UNCHANGED <<refVars, request, reported, response, document>>
               /\ \E e : Answer(e) \/ ControllerAnswers
               /\ exchanges' = IF pc' = "apply" THEN Append(exchanges, decision')
                               ELSE exchanges
    BY <1>4 DEF Exchange
  <1> QED
    BY <1>1, <1>2, <1>3, <1>4 DEF OpenDashboardNext, DashboardNext, Serve

LEMMA StepKeepsPassedOn ==
    ASSUME ComparisonInv, PassedOn, [OpenDashboardNext]_runVars
    PROVE  PassedOn'
  <1>1. Inv /\ TypeOK /\ TypeOK'
    <2>1. Inv
      BY DEF ComparisonInv, FirstRunInv, OrderInv
    <2>2. ComparisonInv'
      BY DashboardSteps, ComparisonInductive
    <2> QED
      BY <2>1, <2>2 DEF ComparisonInv, FirstRunInv, OrderInv, Inv
  <1>2. PICK n \in Nat : n = Len(steps)
    BY <1>1 DEF TypeOK
  <1>3. CASE UNCHANGED <<pc, steps, decision, outcome, exchanges>>
    BY <1>3 DEF PassedOn
  <1>4. CASE /\ UNCHANGED exchanges
             /\ PlantStep \/ RefuseAction \/ ApplyNotANumber \/ ProviderFails
    <2>1. CASE Apply
      <3>1. /\ Len(steps') = n + 1 /\ \A i \in 1 .. n : steps'[i] = steps[i]
            /\ steps'[n + 1].step.decision = decision
            /\ pc = "apply" /\ pc' = "measure"
        BY <1>1, <1>2, <2>1, ApplyRecords DEF LoopStep
      <3>2. /\ exchanges' \in Seq(WireDecision) /\ Len(exchanges') = n + 1
            /\ exchanges'[n + 1] = decision
            /\ \A i \in 1 .. n : exchanges'[i] = steps[i].step.decision
        BY <1>2, <1>4, <3>1 DEF PassedOn
      <3>3. \A i \in 1 .. Len(steps') : exchanges'[i] = steps'[i].step.decision
        <4>1. \A i \in 1 .. Len(steps') : i \in 1 .. n \/ i = n + 1
          BY <3>1
        <4> QED
          BY <3>1, <3>2, <4>1
      <3> QED
        BY <3>1, <3>2, <3>3 DEF PassedOn
    <2>2. CASE ~Apply
      <3>1. /\ pc' \in {"await", "ended"}
            /\ pc' = "await" \/ outcome' = "result" => pc = "measure"
            /\ UNCHANGED <<steps, decision, exchanges>>
        BY <1>1, <1>4, <2>2, PlantPhases
      <3> QED
        BY <3>1 DEF PassedOn
    <2> QED
      BY <2>1, <2>2
  <1>5. CASE /\ \E d : Answer(d) \/ ControllerAnswers
             /\ exchanges' = IF pc' = "apply" THEN Append(exchanges, decision')
                             ELSE exchanges
    <2>1. /\ pc = "await" /\ UNCHANGED steps
          /\ \/ pc' = "apply" /\ outcome' # "result"
             \/ pc' = "ended" /\ outcome' # "result"
      BY <1>1, <1>5, ExchangePhases
    <2>2. exchanges \in Seq(WireDecision) /\ Len(exchanges) = n
      BY <1>2, <2>1 DEF PassedOn
    <2>3. CASE pc' = "apply"
      <3>1. decision' \in WireDecision /\ exchanges' = Append(exchanges, decision')
        BY <1>1, <1>5, <2>3 DEF TypeOK
      <3>2. /\ exchanges' \in Seq(WireDecision) /\ Len(exchanges') = n + 1
            /\ exchanges'[n + 1] = decision'
            /\ \A i \in 1 .. n : exchanges'[i] = exchanges[i]
        <4> DEFINE W == WireDecision
        <4>1. exchanges \in Seq(W) /\ decision' \in W
          BY <2>2, <3>1
        <4> HIDE DEF W
        <4>2. /\ exchanges' \in Seq(W) /\ Len(exchanges') = n + 1
              /\ exchanges'[n + 1] = decision'
              /\ \A i \in 1 .. n : exchanges'[i] = exchanges[i]
          BY <2>2, <3>1, <4>1
        <4> QED
          BY <4>2 DEF W
      <3> QED
        BY <1>2, <2>1, <2>3, <3>2 DEF PassedOn
    <2>4. CASE pc' # "apply"
      <3>1. UNCHANGED <<exchanges, steps>> /\ pc' = "ended" /\ outcome' # "result"
        BY <1>5, <2>1, <2>4
      <3> QED
        BY <3>1 DEF PassedOn
    <2> QED
      BY <2>3, <2>4
  <1>6. \/ UNCHANGED <<vars, exchanges>>
        \/ /\ UNCHANGED exchanges
           /\ PlantStep \/ RefuseAction \/ ApplyNotANumber \/ ProviderFails
        \/ /\ \E d : Answer(d) \/ ControllerAnswers
           /\ exchanges' = IF pc' = "apply" THEN Append(exchanges, decision')
                           ELSE exchanges
    BY <1>1, ServiceSteps DEF runVars, serviceVars, ReferenceRun
  <1> QED
    BY <1>3, <1>4, <1>5, <1>6 DEF vars

LEMMA StepKeepsRunsSound ==
    ASSUME ComparisonInv, RunsSound, [OpenDashboardNext]_runVars
    PROVE  RunsSound'
  <1>1. Inv /\ Reference!TypeOK
    BY DEF ComparisonInv, FirstRunInv, OrderInv
  <1>2. CASE UNCHANGED <<vars, refVars>>
    BY <1>2 DEF vars, refVars, RunsSound
  <1>3. CASE ReferenceRun
    <2>1. CASE Reference!RunInterval
      <3>1. UNCHANGED <<refOutcome, outcome>> /\ refOutcome = "none"
        BY <1>1, <1>3, <2>1, RunIntervalRecords DEF ReferenceRun, vars
      <3> QED
        BY <3>1 DEF RunsSound
    <2>2. CASE Reference!Return
      <3>1. /\ outcome = "result" /\ UNCHANGED <<outcome, scenario, refResults>>
            /\ refOutcome' = "result" /\ Len(refResults) = Len(scenario.steps)
        BY <1>3, <2>2 DEF ReferenceRun, vars, Reference!Return
      <3> QED
        BY <3>1 DEF RunsSound
    <2> QED
      BY <1>3, <2>1, <2>2 DEF ReferenceRun, Reference!Next
  <1>4. CASE /\ PlantStep \/ RefuseAction \/ ApplyNotANumber \/ ProviderFails
             /\ UNCHANGED refVars
    <2>1. outcome = "none" /\ (Apply \/ outcome' # "ValueError")
      BY <1>1, <1>4, PlantPhases
    <2>2. outcome' # "ValueError"
      BY <1>1, <2>1, ApplyRecords
    <2> QED
      BY <1>4, <2>1, <2>2 DEF RunsSound, refVars
  <1>5. CASE (\E d : Answer(d) \/ ControllerAnswers) /\ UNCHANGED refVars
    <2>1. outcome = "none" /\ outcome' # "ValueError"
      BY <1>1, <1>5, ExchangePhases
    <2> QED
      BY <1>5, <2>1 DEF RunsSound, refVars
  <1> QED
    BY <1>1, <1>2, <1>3, <1>4, <1>5, ServiceSteps DEF runVars

\* An answer is given once: the request is then as it was left.
LEMMA StepKeepsSent ==
    ASSUME ComparisonInv, PassedOn, RunsSound, Sent, [OpenDashboardNext]_runVars
    PROVE  Sent'
  <1>1. Inv /\ TypeOK /\ ResultIsComplete
    BY DEF ComparisonInv, FirstRunInv, OrderInv, Inv
  <1>2. CASE UNCHANGED runVars
    BY <1>2 DEF runVars, vars, refVars, serviceVars, Sent, Explanations
  <1>3. CASE Running /\ UNCHANGED <<request, reported, response, document>>
    BY <1>3 DEF Running, Sent
  <1>4. CASE RefuseRequest
    <2>1. Refusal \in {"NotFound", "BadRequest", "UnsupportedMediaType"}
      BY <1>4 DEF RefuseRequest, Refusal
    <2> QED
      BY <1>4, <2>1 DEF RefuseRequest, Answered, Sent
  <1>5. CASE ReadStatus
    BY <1>5 DEF ReadStatus, Sent
  <1>6. CASE StatusRaises
    BY <1>6 DEF StatusRaises, Answered, Sent
  <1>7. CASE Complete
    <2>1. refOutcome = "result" /\ outcome = "result" /\ Len(exchanges) = Len(steps)
      BY <1>7 DEF Complete, RunsSound, PassedOn
    <2>2. reported # NotAsked /\ UNCHANGED <<vars, refVars, request, reported>>
      BY <1>7 DEF Complete, Running
    <2>3. Explanations' = Explanations
      BY <2>2 DEF Explanations, vars
    <2>4. CASE reported # Unusable
      <3>1. response' = "OK" /\ document' = Explanations
        BY <1>7, <2>1, <2>4 DEF Complete, Answered
      <3> QED
        BY <2>1, <2>2, <2>3, <2>4, <3>1 DEF Sent, refVars
    <2>5. CASE reported = Unusable
      <3>1. response' = "Dropped" /\ document' = document /\ response = "none"
        BY <1>7, <2>5 DEF Complete, Answered, Running
      <3> QED
        BY <2>1, <2>2, <2>5, <3>1 DEF Sent, refVars, vars
    <2> QED
      BY <2>4, <2>5
  <1>8. CASE Fail
    <2>1. /\ outcome \in {"AssertionError", "ControlApiError", "ControlApiStatusError",
                          "OtherError"}
          /\ response = "none"
      BY <1>1, <1>8 DEF Fail, Running, RunsSound, TypeOK, Outcome
    <2>2. UNCHANGED <<request, reported, document, outcome, refOutcome>>
      BY <1>8 DEF Fail, vars, refVars
    <2>3. response' = IF outcome \in {"ControlApiError", "ControlApiStatusError"}
                      THEN "BadGateway" ELSE "Dropped"
      BY <1>8 DEF Fail, Answered
    <2> QED
      BY <2>1, <2>2, <2>3 DEF Sent
  <1> QED
    BY <1>1, <1>2, <1>3, <1>4, <1>5, <1>6, <1>7, <1>8, ServiceSteps DEF serviceVars

LEMMA DashboardInductive ==
    DashboardInv /\ [OpenDashboardNext]_runVars => DashboardInv'
  <1> SUFFICES ASSUME DashboardInv, [OpenDashboardNext]_runVars PROVE DashboardInv'
    OBVIOUS
  <1>1. ComparisonInv'
    BY DashboardSteps, ComparisonInductive DEF DashboardInv
  <1>2. RecordsTold'
    BY StepKeepsTold DEF DashboardInv
  <1>3. PassedOn'
    BY StepKeepsPassedOn DEF DashboardInv
  <1>4. RunsSound'
    BY StepKeepsRunsSound DEF DashboardInv
  <1>5. Sent'
    BY StepKeepsSent DEF DashboardInv
  <1> QED
    BY <1>1, <1>2, <1>3, <1>4, <1>5 DEF DashboardInv

LEMMA DashboardInitInv == DashboardInit => DashboardInv
  <1> SUFFICES ASSUME DashboardInit PROVE DashboardInv
    OBVIOUS
  <1>1. ComparisonInit /\ Init /\ Reference!Init
    BY DEF DashboardInit, ComparisonInit
  <1>2. /\ Len(steps) = 0 /\ pc = "measure" /\ outcome = "none" /\ refOutcome = "none"
        /\ exchanges = <<>> /\ Len(exchanges) = 0
    BY <1>1 DEF DashboardInit, Init, Reference!Init
  <1>3. ComparisonInv
    BY <1>1, ComparisonInitInv
  <1>4. RecordsTold /\ RunsSound
    BY <1>2 DEF RecordsTold, RunsSound
  <1>5. PassedOn
    BY <1>2 DEF PassedOn
  <1>6. Sent
    BY DEF DashboardInit, Sent
  <1> QED
    BY <1>3, <1>4, <1>5, <1>6 DEF DashboardInv

\* The invariant of a request with any backend.
THEOREM OpenDashboardInv == OpenDashboard => []DashboardInv
  <1> QED
    BY DashboardInitInv, DashboardInductive, PTL DEF OpenDashboard

-----------------------------------------------------------------------------
(* What a document says.                                                     *)

\* An explained interval is a recorded one, and its code the one that Explain gives it.
LEMMA ExplainedRecord ==
    ASSUME DashboardInv, NEW i \in Explained
    PROVE  /\ response = "OK" /\ i \in 1 .. Len(steps)
           /\ steps[i].step \in RecordedStep
           /\ Told(steps[i].step, scenario.battery.capacity)
           /\ document[i] = Explain(reported, steps[i].step.measurement,
                                    steps[i].step.decision)
           /\ reported = NoLimits \/ (reported \in LimitRecord /\ reported # NoLimits)
  <1>1. TypeOK /\ Sent /\ RecordsTold
    BY DEF DashboardInv, ComparisonInv, FirstRunInv, OrderInv, Inv
  <1>2. response = "OK"
    <2>1. CASE response # "OK"
      <3>1. document = <<>> /\ Len(document) = 0
        BY <1>1, <2>1 DEF Sent
      <3> QED
        BY <3>1 DEF Explained
    <2> QED
      BY <2>1
  <1>3. document = Explanations /\ reported \notin {NotAsked, Unusable}
    BY <1>1, <1>2 DEF Sent
  <1>4. PICK n \in Nat : n = Len(steps)
    BY <1>1 DEF TypeOK
  <1>5. DOMAIN document = 1 .. n /\ Len(document) = n
    <2>1. document = [j \in 1 .. n |-> Explain(reported, steps[j].step.measurement,
                                               steps[j].step.decision)]
      BY <1>3, <1>4 DEF Explanations
    <2> QED
      BY <1>4, <2>1
  <1>6. i \in 1 .. Len(steps)
    BY <1>4, <1>5 DEF Explained
  <1>7. document[i] = Explain(reported, steps[i].step.measurement, steps[i].step.decision)
    BY <1>3, <1>6 DEF Explanations
  <1>8. steps[i].step \in RecordedStep
    BY <1>1, <1>6, RecordAt
  <1>9. Told(steps[i].step, scenario.battery.capacity)
    BY <1>1, <1>6 DEF RecordsTold
  <1>10. reported = NoLimits \/ (reported \in LimitRecord /\ reported # NoLimits)
    BY <1>1, <1>3, LimitsKnown DEF Sent, Reports
  <1> QED
    BY <1>2, <1>6, <1>7, <1>8, <1>9, <1>10

\* An interval is given a limit as its reason exactly when the C++ rule, with the limits
\* that were read, would have moved the same power in the same direction: whatever the
\* backend answered, and whichever of its limits were read.
THEOREM OpenDashboardExplainsTheRule == OpenDashboard => []ExplainsTheRule
  <1>1. DashboardInv => ExplainsTheRule
    <2> SUFFICES ASSUME DashboardInv, NEW i \in Explained
                 PROVE  LET m == steps[i].step.measurement
                            d == steps[i].step.decision
                            direction == IF m.net > 0 THEN "ChargeBattery"
                                         ELSE "DischargeBattery"
                            moved == IF d.action = "Idle" THEN 0 ELSE d.power
                        IN  document[i] \notin {"balanced", "limits-unknown"} =>
                              (document[i] # "unexplained" <=>
                                 /\ d.action \in {"Idle", direction}
                                 /\ Magnitude(moved - Decide(reported, m).power)
                                      <= MatchTolerance)
      BY DEF ExplainsTheRule
    <2> DEFINE m == steps[i].step.measurement
               d == steps[i].step.decision
    <2>1. /\ steps[i].step \in RecordedStep
          /\ Told(steps[i].step, scenario.battery.capacity)
          /\ document[i] = Explain(reported, m, d)
          /\ reported = NoLimits \/ (reported \in LimitRecord /\ reported # NoLimits)
      BY ExplainedRecord
    <2>2. /\ m \in Measured /\ m.hours > 0 /\ d.power \in Int \cup {NaN}
          /\ d.action \in {"ChargeBattery", "DischargeBattery"} => d.power # NaN
      BY <2>1 DEF RecordedStep, Told, ExactDuration
    <2> HIDE DEF m, d
    <2>3. CASE reported = NoLimits
      <3>1. document[i] \in {"balanced", "limits-unknown"}
        BY <2>1, <2>3 DEF Explain
      <3> QED
        BY <3>1
    <2>4. CASE reported \in LimitRecord /\ reported # NoLimits
      <3>1. LET direction == IF m.net > 0 THEN "ChargeBattery" ELSE "DischargeBattery"
                moved == IF d.action = "Idle" THEN 0 ELSE d.power
            IN  document[i] \notin {"balanced", "limits-unknown"} =>
                  (document[i] # "unexplained" <=>
                     /\ d.action \in {"Idle", direction}
                     /\ Magnitude(moved - Decide(reported, m).power) <= MatchTolerance)
        BY <2>1, <2>2, <2>4, ExplainedByRule
      <3> QED
        BY <3>1 DEF m, d
    <2> QED
      BY <2>1, <2>3, <2>4
  <1> QED
    BY <1>1, OpenDashboardInv, PTL

\* The reason that is given for a decision of the rule is true of what the plant did in
\* that interval: a named limit was used in full and energy still crossed the boundary, a
\* full or an emptied battery moved nothing, and a covered balance left nothing over.
THEOREM OpenDashboardReasonsHold == OpenDashboard => []ReasonsHold
  <1>1. DashboardInv => ReasonsHold
    <2> SUFFICES ASSUME DashboardInv, reported = Limits,
                        Limits.maxSoc <= scenario.battery.capacity, NEW i \in Explained,
                        steps[i].step.decision = Decide(Limits, steps[i].step.measurement)
                 PROVE  ReasonHolds(document[i], steps[i].step, Limits)
      BY DEF ReasonsHold
    <2> DEFINE s == steps[i].step
               capacity == scenario.battery.capacity
    <2>1. /\ s \in RecordedStep /\ Told(s, capacity)
          /\ document[i] = Explain(Limits, s.measurement, s.decision)
          /\ Limits.maxSoc <= capacity
          /\ s.decision = Decide(Limits, s.measurement)
      BY ExplainedRecord
    <2> HIDE DEF s, capacity
    <2>2. ReasonHolds(document[i], s, Limits)
      BY <2>1, ExplainedByPlant
    <2> QED
      BY <2>2 DEF s
  <1> QED
    BY <1>1, OpenDashboardInv, PTL

\* A document has a decision, an explanation and a reference for every interval, its
\* exchanges are those the plant applied, and a request is left without an answer only
\* by the client's own exceptions, by an answer that is not a number, or by a status that
\* cannot be converted.
THEOREM OpenDashboardDocumentComplete == OpenDashboard => []DocumentComplete
  <1>1. DashboardInv => DocumentComplete
    <2> SUFFICES ASSUME DashboardInv PROVE DocumentComplete
      OBVIOUS
    <2>1. /\ TypeOK /\ ResultIsComplete /\ BooksBalance
          /\ PassedOn /\ RunsSound /\ Sent
      BY DEF DashboardInv, ComparisonInv, FirstRunInv, OrderInv, Inv
    <2>2. ASSUME response = "OK"
          PROVE  /\ Len(document) = Len(scenario.steps)
                 /\ Len(refResults) = Len(scenario.steps)
      <3>1. /\ document = Explanations /\ outcome = "result"
            /\ Len(refResults) = Len(scenario.steps)
            /\ Len(steps) = Len(scenario.steps)
        BY <2>1, <2>2 DEF Sent, RunsSound, ResultIsComplete
      <3>2. PICK n \in Nat : n = Len(steps)
        BY <2>1 DEF TypeOK
      <3>3. Len(document) = n
        <4>1. document = [j \in 1 .. n |-> Explain(reported, steps[j].step.measurement,
                                                   steps[j].step.decision)]
          BY <3>1, <3>2 DEF Explanations
        <4> QED
          BY <3>2, <4>1
      <3> QED
        BY <3>1, <3>2, <3>3
    <2>3. \A i \in Explained : exchanges[i] = steps[i].step.decision
      BY <2>1, ExplainedRecord DEF PassedOn
    <2>4. outcome = "AssertionError" => decision.power = NaN
      BY <2>1 DEF BooksBalance, NotANumber
    <2> QED
      BY <2>1, <2>2, <2>3, <2>4 DEF DocumentComplete, Sent
  <1> QED
    BY <1>1, OpenDashboardInv, PTL

-----------------------------------------------------------------------------
(* The dashboard with the C++ controller behind the API.                     *)

\* The controller names only actions that are known and powers that are numbers, so the
\* plant neither refuses nor fails on what it answered.
LEMMA ControllerDashboardSteps ==
    ASSUME ClosedInv, [DashboardNext]_runVars
    PROVE  [ComparisonNext]_<<vars, refVars>>
  <1>1. CASE RefuseRequest \/ ReadStatus \/ StatusRaises \/ Complete \/ Fail
    BY <1>1 DEF RefuseRequest, ReadStatus, StatusRaises, Complete, Fail
  <1>2. ~(RefuseAction \/ ApplyNotANumber)
    <2> SUFFICES ASSUME pc = "apply"
                 PROVE  decision.action \in KnownAction /\ ~NotANumber
      BY DEF RefuseAction, ApplyNotANumber
    <2>1. /\ MeasurementAccepted(measurement) /\ decision = Decide(Limits, measurement)
          /\ measurement \in Measured /\ ExactDuration(measurement.hours)
      BY PendingDuration DEF ClosedInv, Asked
    <2>2. CommandValid(decision) /\ decision.power \in Nat
      BY <2>1, DecideSound
    <2>3. decision.action \in KnownAction
      BY <2>1 DEF Decide, DecideSurplus, DecideDeficit, Command, KnownAction, ControlAction
    <2> QED
      BY <2>2, <2>3, UnitsAssumption DEF NotANumber
  <1>3. CASE RunPlant
    BY <1>2, <1>3 DEF RunPlant, ComparisonNext, ControllerRun, ClosedNext
  <1>4. CASE RunReference
    BY <1>4 DEF RunReference, ComparisonNext
  <1>5. CASE Exchange(ControllerAnswers)
    BY <1>5 DEF Exchange, ComparisonNext, ControllerRun, ClosedNext
  <1>6. CASE UNCHANGED runVars
    BY <1>6 DEF runVars
  <1> QED
    BY <1>1, <1>3, <1>4, <1>5, <1>6 DEF DashboardNext, Serve

\* A request of the dashboard implements the comparison of the command with the same
\* controller.
THEOREM ControllerDashboardImplementsComparison == Dashboard => Comparison
  <1>1. DashboardInit => ComparisonInit /\ ClosedInv
    BY ComparisonFollowsInit DEF DashboardInit
  <1>2. ClosedInv /\ [DashboardNext]_runVars => [ComparisonNext]_<<vars, refVars>>
    BY ControllerDashboardSteps
  <1>3. ClosedInv /\ [DashboardNext]_runVars => ClosedInv'
    <2> SUFFICES ASSUME ClosedInv, [DashboardNext]_runVars PROVE ClosedInv'
      OBVIOUS
    <2>1. [ClosedNext]_vars
      BY ControllerDashboardSteps DEF ComparisonNext, ControllerRun, ReferenceRun
    <2> QED
      BY <2>1, ClosedInductive
  <1> QED
    BY <1>1, <1>2, <1>3, PTL DEF Dashboard, Comparison

\* With the limits of the controller at hand, every interval has a reason, and with a
\* battery as large as the controller takes it for, every reason is true.
EveryReasonTrue ==
    reported = Limits =>
        \A i \in Explained :
            /\ document[i] \notin {"unexplained", "limits-unknown"}
            /\ Limits.maxSoc <= scenario.battery.capacity =>
                 ReasonHolds(document[i], steps[i].step, Limits)

\* The Python explanation recomputes the decision of the C++ controller without fail: it
\* never finds one "unexplained", whose limits it knows.
THEOREM ControllerDashboardExplains == Dashboard => []EveryReasonTrue
  <1>1. DashboardInv /\ FollowsRule /\ ExplainsTheRule /\ ReasonsHold => EveryReasonTrue
    <2> SUFFICES ASSUME DashboardInv, FollowsRule, ExplainsTheRule, ReasonsHold,
                        reported = Limits, NEW i \in Explained
                 PROVE  /\ document[i] \notin {"unexplained", "limits-unknown"}
                        /\ Limits.maxSoc <= scenario.battery.capacity =>
                             ReasonHolds(document[i], steps[i].step, Limits)
      BY DEF EveryReasonTrue
    <2> DEFINE m == steps[i].step.measurement
               d == steps[i].step.decision
               direction == IF m.net > 0 THEN "ChargeBattery" ELSE "DischargeBattery"
               moved == IF d.action = "Idle" THEN 0 ELSE d.power
               code == document[i]
    <2>1. /\ i \in 1 .. Len(steps) /\ steps[i].step \in RecordedStep
          /\ Told(steps[i].step, scenario.battery.capacity)
          /\ code = Explain(Limits, m, d)
      BY ExplainedRecord
    <2>2. d = Decide(Limits, m)
      BY <2>1 DEF FollowsRule
    <2>3. Limits.maxSoc <= scenario.battery.capacity =>
              ReasonHolds(code, steps[i].step, Limits)
      BY <2>2 DEF ReasonsHold
    <2>4. code \notin {"balanced", "limits-unknown"} =>
            (code # "unexplained" <=>
                /\ d.action \in {"Idle", direction}
                /\ Magnitude(moved - Decide(Limits, m).power) <= MatchTolerance)
      BY DEF ExplainsTheRule
    <2>5. m \in Measured /\ m.hours > 0 /\ m.net \in Int
      <3>1. m \in Measured /\ ExactDuration(m.hours)
        BY <2>1 DEF RecordedStep, Told
      <3> HIDE DEF m
      <3> QED
        BY <3>1 DEF ExactDuration, Measured
    <2>6. code # "limits-unknown"
      <3>1. /\ code \in {"balanced", "unexplained", "battery-full", "battery-at-minimum"}
               \/ (m.net # 0 /\ code = Binding(Candidates(Limits, m)).code)
        <4>1. m.net = 0 => Magnitude(m.net) <= BalanceTolerance
          BY UnitsAssumption DEF Magnitude
        <4> HIDE DEF m, d
        <4> QED
          BY <2>1, <4>1, LimitsKnown DEF Explain
      <3>2. m.net # 0 => Binding(Candidates(Limits, m)).code # "limits-unknown"
        BY <2>5, LimitsKnown, BindingNames
      <3> QED
        BY <3>1, <3>2
    <2>7. code = "balanced" \/ Magnitude(m.net) > BalanceTolerance
      <3>1. Magnitude(m.net) \in Int /\ BalanceTolerance \in Int
        BY <2>5, UnitsAssumption DEF Magnitude
      <3> HIDE DEF m, d
      <3> QED
        BY <2>1, <3>1 DEF Explain
    <2>8. ASSUME Magnitude(m.net) > BalanceTolerance
          PROVE  /\ d.action \in {"Idle", direction}
                 /\ Magnitude(moved - Decide(Limits, m).power) <= MatchTolerance
      <3> DEFINE p == Smallest(Limits, m)
      <3>1. /\ p \in Nat /\ d.power = p
            /\ d.action = IF p = 0 THEN "Idle" ELSE direction
        BY <2>2, <2>5, <2>8, LimitsKnown, PowersNat, RuleMovesSmallest
      <3> HIDE DEF p, m, d
      <3>2. moved = p /\ Magnitude(p - p) = 0 /\ MatchTolerance \in Nat
        BY <3>1, DashboardAssumption DEF Magnitude
      <3> QED
        BY <2>2, <3>1, <3>2
    <2> QED
      BY <2>3, <2>4, <2>6, <2>7, <2>8
  <1>2. Dashboard => OpenDashboard
    <2>1. [DashboardNext]_runVars => [OpenDashboardNext]_runVars
      BY DEF OpenDashboardNext
    <2> QED
      BY <2>1, PTL DEF Dashboard, OpenDashboard
  <1> QED
    BY <1>1, <1>2, OpenDashboardInv, OpenDashboardExplainsTheRule,
       OpenDashboardReasonsHold, ControllerDashboardImplementsComparison,
       ComparisonFollowsRule, PTL
=============================================================================
