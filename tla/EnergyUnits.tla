----------------------------- MODULE EnergyUnits -----------------------------
(***************************************************************************)
(* Quantities shared by the controller and the plant.                       *)
(*                                                                          *)
(* Energies (kWh in the source) are integers: a whole number of quanta.      *)
(* Durations are whole hours.  A power is counted in 1/PowerScale quanta per *)
(* hour, so that dividing an energy by a duration, as the controller does,   *)
(* and multiplying the power by that duration again, as the plant does, are  *)
(* both modelled by what they do and are exact for every duration that       *)
(* divides PowerScale.  The arithmetic is exact: the rounding of IEEE        *)
(* doubles is outside this module.                                           *)
(***************************************************************************)
EXTENDS Integers

CONSTANTS
    PowerScale,             \* power units per quantum and hour
    BalanceTolerance,       \* a net energy this close to zero counts as balanced
    NetAbsoluteTolerance,   \* by how much a reported net energy may be off,
    NetRelativeDivisor,     \*   plus this fraction of the larger energy
    ConservationTolerance,  \* by how much an interval's books may be off
    NaN                     \* what a power is that is not a number

\* 1e-9 (balance) is below 1e-6 (reported net energy, conservation) in the code.
ASSUME UnitsAssumption ==
    /\ PowerScale \in Nat \ {0}
    /\ BalanceTolerance \in Nat
    /\ NetAbsoluteTolerance \in Nat
    /\ NetRelativeDivisor \in Nat \ {0}
    /\ ConservationTolerance \in Nat
    /\ BalanceTolerance <= NetAbsoluteTolerance
    /\ BalanceTolerance <= ConservationTolerance
    /\ NaN \notin Int

Least(a, b) == IF a <= b THEN a ELSE b
Greatest(a, b) == IF a >= b THEN a ELSE b
Magnitude(a) == IF a >= 0 THEN a ELSE -a

\* The power that moves an energy in a duration, and the energy a power moves.
PowerOver(energy, hours) == (energy * PowerScale) \div hours
EnergyOver(power, hours) == (power * hours) \div PowerScale

\* A duration for which PowerOver is exact.
ExactDuration(hours) ==
    hours \in Nat \ {0} /\ \E k \in 1 .. PowerScale : PowerScale = hours * k
=============================================================================
