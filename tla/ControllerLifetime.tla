--------------------------- MODULE ControllerLifetime ---------------------------
(***************************************************************************)
(* What a gateway promises of the native controller it shares among its      *)
(* callers: it is created at most once, entered only while it is open,       *)
(* closed at most once, and destroyed as soon as it is closed and the last   *)
(* caller has left it, never before.  A controller that is gone does not     *)
(* come back.                                                                *)
(***************************************************************************)
CONSTANT Callers

VARIABLES
    phase,                  \* "absent", "open", "closing" or "gone"
    inside                  \* the callers that are in the controller

lifetime == <<phase, inside>>

Init ==
    /\ phase = "absent"
    /\ inside = {}

Create ==
    /\ phase = "absent"
    /\ phase' = "open"
    /\ UNCHANGED inside

Enter(c) ==
    /\ phase = "open"
    /\ c \notin inside
    /\ inside' = inside \cup {c}
    /\ UNCHANGED phase

\* With the last caller a closed controller goes.
Leave(c) ==
    /\ c \in inside
    /\ inside' = inside \ {c}
    /\ phase' = IF phase = "closing" /\ inside' = {} THEN "gone" ELSE phase

Close ==
    /\ phase = "open"
    /\ phase' = IF inside = {} THEN "gone" ELSE "closing"
    /\ UNCHANGED inside

Next == Create \/ Close \/ \E c \in Callers : Enter(c) \/ Leave(c)

Spec == Init /\ [][Next]_lifetime
=============================================================================
