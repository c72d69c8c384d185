------------------------------ MODULE EnergyLedger ------------------------------
(***************************************************************************)
(* What every strategy that runs a scenario promises, however it decides:    *)
(* interval by interval, the battery stays between empty and full, energy is *)
(* neither created nor lost (up to Slack per interval), and a run either     *)
(* completes after exactly the planned intervals or is aborted and has no    *)
(* result.  Both the controller in the loop and the battery-first reference  *)
(* implement it.                                                             *)
(***************************************************************************)
EXTENDS Integers

CONSTANT Slack              \* by how much one interval's books may be off

VARIABLES
    capacity,               \* what the battery can hold
    planned,                \* intervals the scenario has
    closed,                 \* intervals accounted for so far
    stored,                 \* energy in the battery
    supplied,               \* energy generated, imported or left unserved
    used,                   \* energy consumed, exported or curtailed
    status                  \* "running", "complete" or "aborted"

ledger == <<capacity, planned, closed, stored, supplied, used, status>>

Init ==
    /\ capacity \in Nat \ {0}
    /\ planned \in Nat \ {0}
    /\ closed = 0
    /\ stored \in 0 .. capacity
    /\ supplied = 0
    /\ used = 0
    /\ status = "running"

CloseInterval ==
    /\ status = "running"
    /\ closed < planned
    /\ closed' = closed + 1
    /\ stored' \in 0 .. capacity
    /\ supplied' >= supplied
    /\ used' >= used
    /\ (stored' - stored) - ((supplied' - supplied) - (used' - used)) \in -Slack .. Slack
    /\ UNCHANGED <<capacity, planned, status>>

Complete ==
    /\ status = "running"
    /\ closed = planned
    /\ status' = "complete"
    /\ UNCHANGED <<capacity, planned, closed, stored, supplied, used>>

Abort ==
    /\ status = "running"
    /\ status' = "aborted"
    /\ UNCHANGED <<capacity, planned, closed, stored, supplied, used>>

Next == CloseInterval \/ Complete \/ Abort

Spec == Init /\ [][Next]_ledger
=============================================================================
