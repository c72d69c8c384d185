--------------------------- MODULE ScenarioComparison ---------------------------
(***************************************************************************)
(* ControllerInTheLoopRunner.compare: one scenario is run with the           *)
(* controller in the loop and, when that run returned a result, again from   *)
(* its initial state with the battery-first reference.  An exception of the  *)
(* first run ends the comparison before the second begins.                   *)
(***************************************************************************)
EXTENDS ControllerLoop

VARIABLES refElapsed, refSoc, refResults, refOutcome

refVars == <<refElapsed, refSoc, refResults, refOutcome>>

Reference == INSTANCE ReferenceTimeline WITH
    elapsed <- refElapsed,
    soc     <- refSoc,
    results <- refResults,
    outcome <- refOutcome

ComparisonInit == Init /\ Reference!Init

ControllerRun == ClosedNext /\ UNCHANGED refVars

ReferenceRun ==
    /\ outcome = "result"
    /\ Reference!Next
    /\ UNCHANGED vars

ComparisonNext == ControllerRun \/ ReferenceRun

Comparison == ComparisonInit /\ [][ComparisonNext]_<<vars, refVars>>

\* The same with any provider in the place of the controller: one that answers as the
\* controller does, and in any other way.
AnyControllerRun == (OpenNext \/ ControllerAnswers) /\ UNCHANGED refVars

AnyComparison ==
    ComparisonInit /\ [][AnyControllerRun \/ ReferenceRun]_<<vars, refVars>>

-----------------------------------------------------------------------------

FromOutside(t) == t.imported + t.unserved
ToOutside(t) == t.exported + t.curtailed

\* The yardstick is a bound: after every interval, no controller has needed less
\* energy from outside or given away less of its own than the battery-first
\* reference, and what it has stored beyond the reference it has paid for.
ReferenceDominates ==
    \A i \in 1 .. Len(refResults) :
        LET c == steps[i]
            r == refResults[i]
            ahead == c.step.after - r.step.after
        IN  /\ FromOutside(c.totals) >= FromOutside(r.totals) + Greatest(ahead, 0)
            /\ ToOutside(c.totals) >= ToOutside(r.totals) + Greatest(-ahead, 0)

\* The limits leave the controller as free as the battery and the balances do.
LimitsDoNotBind ==
    /\ Limits.minSoc = 0
    /\ Limits.maxSoc >= scenario.battery.capacity
    /\ \A i \in 1 .. Len(scenario.steps) :
        LET interval == scenario.steps[i]
            net == NetEnergy(Generated(interval), Consumed(interval))
        IN  /\ EnergyOver(Limits.maxCharge, interval.hours) >= Surplus(net)
            /\ EnergyOver(Limits.maxDischarge, interval.hours) >= Deficit(net)

\* Every decision that was applied is the one the C++ rule makes with these limits.
FollowsRule ==
    \A i \in 1 .. Len(steps) :
        steps[i].step.decision = Decide(Limits, steps[i].step.measurement)

\* With limits that do not bind, the C++ rule behind the network and the Python
\* rule are the same strategy: every interval moves the same energy.
SameAsReference ==
    LimitsDoNotBind /\ FollowsRule =>
        \A i \in 1 .. Len(refResults) :
            /\ steps[i].totals = refResults[i].totals
            /\ steps[i].step.after = refResults[i].step.after

\* The second run keeps the contract of the ledger, which the first one keeps too:
\* every step of the reference is a step the ledger allows.
ReferenceKeepsLedger == Reference!KeepsLedger
=============================================================================
