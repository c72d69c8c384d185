------------------------------ MODULE FloatBattery ------------------------------
(***************************************************************************)
(* The battery in the arithmetic it is computed in.  Plant counts energy in  *)
(* whole units, which are exact; Python counts it in floating point, where a *)
(* difference is rounded and its sum with the subtrahend is rounded again.   *)
(*                                                                          *)
(* A float is a whole number of the smallest unit, with at most Precision    *)
(* significant bits: the doubles of the program with fewer bits, whose       *)
(* rounding is the same, to the nearest float and to the even one of two.    *)
(***************************************************************************)
EXTENDS Integers

CONSTANTS
    Precision,          \* significant bits of a float
    MaxExponent,        \* bound: no float has more bits than Precision + MaxExponent
    MaxCapacity         \* bound: the largest battery

\* The distance of the floats of the size of x.
Spacing(x) ==
    2 ^ (CHOOSE e \in 0 .. MaxExponent :
            /\ x < 2 ^ (Precision + e)
            /\ e > 0 => x >= 2 ^ (Precision + e - 1))

RoundUp(whole, rest, spacing) ==
    2 * rest > spacing \/ (2 * rest = spacing /\ whole % 2 = 1)

RoundMagnitude(x) ==
    LET spacing == Spacing(x)
        whole == x \div spacing
    IN  spacing * IF RoundUp(whole, x % spacing, spacing) THEN whole + 1 ELSE whole

\* The float a sum or a difference is.
Round(x) == IF x < 0 THEN -RoundMagnitude(-x) ELSE RoundMagnitude(x)

Floats == { x \in 0 .. MaxCapacity : Round(x) = x }

Lesser(x, y) == IF x <= y THEN x ELSE y

VARIABLES
    capacity,           \* capacity_kwh
    soc                 \* state_of_charge_kwh

vars == <<capacity, soc>>

\* Any battery that the dataclass accepts.
Init ==
    /\ capacity \in Floats \ {0}
    /\ soc \in { x \in Floats : x <= capacity }

Available == Round(capacity - soc)

Charge(requested) ==
    /\ soc' = Round(soc + Lesser(requested, Available))
    /\ UNCHANGED capacity

Discharge(requested) ==
    /\ soc' = Round(soc - Lesser(requested, soc))
    /\ UNCHANGED capacity

Next == \E requested \in Floats : Charge(requested) \/ Discharge(requested)

Spec == Init /\ [][Next]_vars

\* "The battery cannot be charged beyond its total capacity" (the docstring of charge).
\* The energy that fills the battery is the rounded difference of the two, and where it
\* was rounded up, adding it to what is stored may round up again.
NeverBeyondCapacity == soc <= capacity

=============================================================================
