--------------------------- MODULE EnergyController ---------------------------
(***************************************************************************)
(* The decision rule of the C++ controller (controller/src): which           *)
(* measurements it accepts, which limits it can be created with and the      *)
(* command it returns.  The controller keeps no state between decisions, so  *)
(* it is a function of its limits and of one measurement.                    *)
(***************************************************************************)
EXTENDS EnergyUnits

ControlAction ==
    {"Idle", "ChargeBattery", "DischargeBattery", "ImportFromGrid", "ExportToGrid"}

\* The rules the ControllerLimits constructor enforces.
LimitsValid(limits) ==
    /\ limits.maxCharge > 0
    /\ limits.maxDischarge > 0
    /\ limits.minSoc >= 0
    /\ limits.maxSoc > limits.minSoc

\* Mutant: no absolute tolerance, so a snapped balance is off.
NetToleranceRelative(m) == Greatest(m.generated, m.consumed) \div NetRelativeDivisor

NetTolerance(m) ==
    NetAbsoluteTolerance + Greatest(m.generated, m.consumed) \div NetRelativeDivisor

\* The rules the EnergyMeasurement constructor enforces.
MeasurementAccepted(m) ==
    /\ m.step > 0
    /\ m.elapsed > 0
    /\ m.hours > 0
    /\ m.generated >= 0
    /\ m.consumed >= 0
    /\ m.soc >= 0
    /\ m.imported >= 0
    /\ m.exported >= 0
    /\ m.unresolved >= 0
    /\ ~(m.imported > 0 /\ m.exported > 0)
    /\ Magnitude(m.net - (m.generated - m.consumed)) <= NetTolerance(m)

\* The rules the ControlCommand constructor enforces.
CommandValid(c) ==
    /\ c.step # 0
    /\ c.action \in ControlAction
    /\ c.power >= 0
    /\ (c.action = "Idle") <=> (c.power = 0)

Command(m, action, power) ==
    IF power <= 0
    THEN [step |-> m.step, action |-> "Idle", power |-> 0]
    ELSE [step |-> m.step, action |-> action, power |-> power]

\* Mutant: the state of charge does not limit charging.
DecideSurplusUnlimited(limits, m) ==
    Command(m, "ChargeBattery", Least(PowerOver(m.net, m.hours), limits.maxCharge))

\* Charge with the surplus, limited by the charge power and the room below maxSoc.
DecideSurplus(limits, m) ==
    LET room == Greatest(0, limits.maxSoc - m.soc)
        allowed == Least(PowerOver(m.net, m.hours),
                         Least(limits.maxCharge, PowerOver(room, m.hours)))
    IN  Command(m, "ChargeBattery", allowed)

\* Mutants: the reserve is ignored; the wrong end of the window is the reserve.
DecideDeficitNoReserve(limits, m) ==
    Command(m, "DischargeBattery",
            Least(PowerOver(Magnitude(m.net), m.hours),
                  Least(limits.maxDischarge, PowerOver(m.soc, m.hours))))

DecideDeficitAboveMaximum(limits, m) ==
    LET stock == Greatest(0, m.soc - limits.maxSoc)
    IN  Command(m, "DischargeBattery",
                Least(PowerOver(Magnitude(m.net), m.hours),
                      Least(limits.maxDischarge, PowerOver(stock, m.hours))))

\* Cover the deficit, limited by the discharge power and the energy above minSoc.
DecideDeficit(limits, m) ==
    LET stock == Greatest(0, m.soc - limits.minSoc)
        allowed == Least(PowerOver(Magnitude(m.net), m.hours),
                         Least(limits.maxDischarge, PowerOver(stock, m.hours)))
    IN  Command(m, "DischargeBattery", allowed)

Decide(limits, m) ==
    IF Magnitude(m.net) <= BalanceTolerance THEN Command(m, "Idle", 0)
    ELSE IF m.net > 0 THEN DecideSurplus(limits, m)
    ELSE DecideDeficit(limits, m)
=============================================================================
