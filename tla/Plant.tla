--------------------------------- MODULE Plant ---------------------------------
(***************************************************************************)
(* The simulated installation of the Python package: battery, grid          *)
(* connection, solar array, building and the energy balance between them.    *)
(* The objects are small and sequential, so each method is an operator; the  *)
(* runs that call them are state machines in the modules that extend this    *)
(* one.                                                                      *)
(***************************************************************************)
EXTENDS EnergyUnits, Sequences

CONSTANT Scenarios          \* the scenarios that may be run

\* A scenario: the configuration of the components and the intervals to run.
\* A step carries the output power of the array and the load of the building,
\* which the source computes from an irradiance and an activity factor.
Battery == [capacity: Nat \ {0}, soc: Nat]
Grid == [maxImport: Nat, maxExport: Nat, available: BOOLEAN]
Interval == [hours: Nat \ {0}, solar: Nat, load: Nat]

BatteryValid(battery) ==
    battery \in Battery /\ battery.soc <= battery.capacity

ScenarioValid(s) ==
    /\ BatteryValid(s.battery)
    /\ s.grid \in Grid
    /\ s.steps \in Seq(Interval)
    /\ Len(s.steps) > 0
    /\ \A i \in 1 .. Len(s.steps) : ExactDuration(s.steps[i].hours)

ASSUME ScenariosAssumption == \A s \in Scenarios : ScenarioValid(s)

Generated(interval) == interval.solar * interval.hours
Consumed(interval) == interval.load * interval.hours

-----------------------------------------------------------------------------
(* The energy balance of an interval; a near-zero balance is exactly zero.   *)

NetEnergy(generated, consumed) ==
    LET net == generated - consumed
    IN  IF Magnitude(net) <= BalanceTolerance THEN 0 ELSE net

Surplus(net) == Greatest(net, 0)
Deficit(net) == Greatest(-net, 0)

-----------------------------------------------------------------------------
(* What the battery accepts or delivers of a request.                        *)

\* Mutant: the room in the battery is not looked at.
ChargeAcceptedInFull(capacity, soc, requested) == requested

ChargeAccepted(capacity, soc, requested) == Least(requested, capacity - soc)
DischargeDelivered(soc, requested) == Least(requested, soc)

-----------------------------------------------------------------------------
(* What the grid transfers of a request, and what it leaves.                 *)

Transferred(available, maxPower, requested, hours) ==
    IF available THEN Least(requested, EnergyOver(maxPower, hours)) ELSE 0

\* Mutant: what was transferred is not subtracted.
RemainingInFull(requested, transferred) == requested

Remaining(requested, transferred) == Greatest(requested - transferred, 0)

-----------------------------------------------------------------------------
(* The measurement snapshot.  The Python class repeats the rules of the C++  *)
(* constructor so that both accept the same measurements.                    *)

SnapshotTolerance(m) ==
    NetAbsoluteTolerance + Greatest(m.generated, m.consumed) \div NetRelativeDivisor

SnapshotValid(m) ==
    /\ m.step > 0
    /\ m.elapsed > 0 /\ m.hours > 0
    /\ m.generated >= 0 /\ m.consumed >= 0
    /\ m.soc >= 0
    /\ m.imported >= 0 /\ m.exported >= 0 /\ m.unresolved >= 0
    /\ m.imported = 0 \/ m.exported = 0
    /\ Magnitude(m.net - (m.generated - m.consumed)) <= SnapshotTolerance(m)

Measured ==
    [step: Nat, elapsed: Nat, hours: Nat, generated: Nat, consumed: Nat, net: Int,
     soc: Nat, imported: Nat, exported: Nat, unresolved: Nat]

-----------------------------------------------------------------------------
(* The sums a result computes over its intervals, kept as they grow.         *)

NoTotals == [generated |-> 0, consumed |-> 0, charged |-> 0, discharged |-> 0,
             imported |-> 0, exported |-> 0, curtailed |-> 0, unserved |-> 0]

RunningTotals ==
    [generated: Nat, consumed: Nat, charged: Nat, discharged: Nat,
     imported: Nat, exported: Nat, curtailed: Nat, unserved: Nat]

\* Mutant: curtailed energy is left out of the sums.
AddStepUncurtailed(t, s) ==
    [generated  |-> t.generated + s.measurement.generated,
     consumed   |-> t.consumed + s.measurement.consumed,
     charged    |-> t.charged + s.charged,
     discharged |-> t.discharged + s.discharged,
     imported   |-> t.imported + s.imported,
     exported   |-> t.exported + s.exported,
     curtailed  |-> t.curtailed,
     unserved   |-> t.unserved + s.unserved]

AddStep(t, s) ==
    [generated  |-> t.generated + s.measurement.generated,
     consumed   |-> t.consumed + s.measurement.consumed,
     charged    |-> t.charged + s.charged,
     discharged |-> t.discharged + s.discharged,
     imported   |-> t.imported + s.imported,
     exported   |-> t.exported + s.exported,
     curtailed  |-> t.curtailed + s.curtailed,
     unserved   |-> t.unserved + s.unserved]
=============================================================================
