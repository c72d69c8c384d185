------------------------------ MODULE DashboardPage ------------------------------
(***************************************************************************)
(* The dashboard in the browser (dashboard.js).  Its handlers run one at a   *)
(* time, but a run is requested in one and shown in another: meanwhile the   *)
(* user may select, request a second run, or play the run that is shown, and *)
(* answers arrive in any order.  Playback is a chain of timers, each of      *)
(* which reads the state the handlers before it have left.                   *)
(*                                                                          *)
(* The line with the state of the API, which every run refreshes, is written *)
(* by its own answers and read by nothing, and is left out.                  *)
(***************************************************************************)
EXTENDS Integers, Sequences

CONSTANTS
    Catalogue,      \* the names of the scenarios, as a sequence
    Intervals,      \* how many intervals each of them has
    None,           \* no scenario, no run, no timer
    Unreadable,     \* the {} that an answer without readable JSON is taken for
    MaxRequests     \* bound: runs requested

Names == {Catalogue[i] : i \in DOMAIN Catalogue}

ASSUME PageAssumption ==
    /\ Catalogue \in Seq(Names)
    /\ Catalogue # <<>>
    /\ Intervals \in [Names -> Nat \ {0}]
    /\ None \notin Names \cup Int
    /\ Unreadable \notin Names \cup {None}
    /\ MaxRequests \in Nat

VARIABLES
    loaded,         \* the catalogue was loaded: "waiting", "loaded" or "failed"
    selected,       \* state.selected
    run,            \* state.run, by its scenario
    charts,         \* the run that was rendered last
    index,          \* state.index
    timer,          \* state.timer, by the last interval its playback plays to
    ticking,        \* whether its tick is still to come
    playLabel,      \* the play button: "Play" or "Pause"
    runDisabled,    \* the run button
    runStatus,      \* the line that reports the run, and the scenario it names
    hash,           \* location.hash
    requests,       \* the runs requested so far, by scenario
    pending         \* the places in requests of those without an answer

shown == <<run, charts, index, hash>>
playback == <<timer, ticking, playLabel>>
form == <<loaded, selected, runDisabled>>
traffic == <<requests, pending>>
vars == <<form, shown, playback, runStatus, traffic>>

Init ==
    /\ loaded = "waiting"
    /\ selected = None
    /\ run = None /\ charts = None
    /\ index = 0
    /\ timer = None /\ ticking = FALSE /\ playLabel = "Play"
    /\ runDisabled = TRUE
    /\ runStatus = [kind |-> "idle", name |-> None]
    /\ hash \in Names \cup {None}
    /\ requests = <<>> /\ pending = {}

Last == Intervals[run] - 1

-----------------------------------------------------------------------------
(* Scenario selection.                                                       *)

\* loadScenarios: the hash preselects a scenario.
Load ==
    /\ loaded = "waiting"
    /\ loaded' = "loaded"
    /\ selected' = IF hash \in Names THEN hash ELSE Catalogue[1]
    /\ runDisabled' = FALSE
    /\ UNCHANGED <<shown, playback, runStatus, traffic>>

LoadFails ==
    /\ loaded = "waiting"
    /\ loaded' = "failed"
    /\ runStatus' = [kind |-> "error", name |-> None]
    /\ UNCHANGED <<selected, runDisabled, shown, playback, traffic>>

\* selectScenario: it also enables the run button, while a run is on its way.
Select(name) ==
    /\ loaded = "loaded"
    /\ selected' = name
    /\ runDisabled' = FALSE
    /\ UNCHANGED <<loaded, shown, playback, runStatus, traffic>>

-----------------------------------------------------------------------------
(* Playback and the interval on show.                                        *)

StopPlayback == timer' = None /\ ticking' = FALSE /\ playLabel' = "Play"

\* Mutant: an index beyond the run is taken as it is.
ClampedAbove(i) == IF i < 0 THEN 0 ELSE i

\* setIndex.
Clamped(i) == IF i < 0 THEN 0 ELSE IF i > Last THEN Last ELSE i

\* The buttons, the slider, the arrow keys, a chart and a row of the table.  Without steps
\* in the run setIndex raises before it changes anything, after playback was stopped.
MoveTo(i) ==
    /\ run # None
    /\ StopPlayback
    /\ index' = IF run = Unreadable THEN index ELSE Clamped(i)
    /\ UNCHANGED <<form, run, charts, hash, runStatus, traffic>>

Move ==
    \/ MoveTo(index - 1)
    \/ MoveTo(index + 1)
    \/ \E i \in 0 .. (IF run \in Names THEN Last ELSE 0) : MoveTo(i)

\* togglePlayback.  The tick keeps the last interval of the run on show now.
TogglePlayback ==
    /\ run # None
    /\ \/ timer # None /\ StopPlayback /\ UNCHANGED index
       \/ /\ timer = None /\ run # Unreadable
          /\ index' = IF index >= Last THEN 0 ELSE index
          /\ timer' = Last /\ ticking' = TRUE
          /\ playLabel' = "Pause"
    /\ UNCHANGED <<form, run, charts, hash, runStatus, traffic>>

\* What a tick does that is not the last: the next interval and the next tick, or none if
\* setIndex raises for a run without steps; state.timer and the button stay as they are.
PlayOn ==
    \/ run # Unreadable /\ index' = Clamped(index + 1) /\ UNCHANGED playback
    \/ run = Unreadable /\ ticking' = FALSE /\ UNCHANGED <<index, timer, playLabel>>

\* Mutants: it plays one interval too far; it ends without a word.
TickBeyond ==
    /\ ticking
    /\ IF index > timer THEN StopPlayback /\ UNCHANGED index ELSE PlayOn
    /\ UNCHANGED <<form, run, charts, hash, runStatus, traffic>>

TickSilent ==
    /\ ticking
    /\ IF index >= timer THEN ticking' = FALSE /\ UNCHANGED <<index, timer, playLabel>>
       ELSE PlayOn
    /\ UNCHANGED <<form, run, charts, hash, runStatus, traffic>>

\* The timer is due.
Tick ==
    /\ ticking
    /\ IF index >= timer THEN StopPlayback /\ UNCHANGED index ELSE PlayOn
    /\ UNCHANGED <<form, run, charts, hash, runStatus, traffic>>

-----------------------------------------------------------------------------
(* Runs.                                                                     *)

\* runSelectedScenario, up to the request.
RequestRun ==
    /\ ~runDisabled
    /\ Len(requests) < MaxRequests
    /\ StopPlayback
    /\ runDisabled' = TRUE
    /\ runStatus' = [kind |-> "running", name |-> selected]
    /\ requests' = Append(requests, selected)
    /\ pending' = pending \cup {Len(requests) + 1}
    /\ UNCHANGED <<loaded, selected, shown>>

\* Mutants: the answer is announced as what is selected now; the button comes back
\* after a run only.
RunArrivesSelected(r) ==
    /\ r \in pending
    /\ run' = requests[r] /\ charts' = requests[r] /\ hash' = selected
    /\ runStatus' = [kind |-> "done", name |-> selected]
    /\ index' = 0
    /\ runDisabled' = FALSE
    /\ pending' = pending \ {r}
    /\ UNCHANGED <<loaded, selected, playback, requests>>

RunFailsDisabled(r) ==
    /\ r \in pending
    /\ runStatus' = [kind |-> "error", name |-> None]
    /\ pending' = pending \ {r}
    /\ UNCHANGED <<form, shown, playback, requests>>

\* runSelectedScenario after the request, with renderRun.  A playback that was begun
\* meanwhile goes on, from the first interval of the new run.
RunArrives(r) ==
    /\ r \in pending
    /\ run' = requests[r] /\ charts' = requests[r] /\ hash' = requests[r]
    /\ runStatus' = [kind |-> "done", name |-> requests[r]]
    /\ index' = 0
    /\ runDisabled' = FALSE
    /\ pending' = pending \ {r}
    /\ UNCHANGED <<loaded, selected, playback, requests>>

\* A 200 whose body is no JSON, or is cut off, becomes {}: it replaces the run and sets the
\* link before the first look at its steps raises, and nothing is rendered.
RunUnreadable(r) ==
    /\ r \in pending
    /\ run' = Unreadable /\ hash' = requests[r]
    /\ runStatus' = [kind |-> "error", name |-> None]
    /\ runDisabled' = FALSE
    /\ pending' = pending \ {r}
    /\ UNCHANGED <<loaded, selected, charts, index, playback, requests>>

\* A problem, or no answer at all; the run on show stays.
RunFails(r) ==
    /\ r \in pending
    /\ runStatus' = [kind |-> "error", name |-> None]
    /\ runDisabled' = FALSE
    /\ pending' = pending \ {r}
    /\ UNCHANGED <<loaded, selected, shown, playback, requests>>

-----------------------------------------------------------------------------

Loading == Load \/ LoadFails
User == (\E n \in Names : Select(n)) \/ Move \/ TogglePlayback \/ RequestRun
Answer(r) == RunArrives(r) \/ RunUnreadable(r) \/ RunFails(r)

Next == Loading \/ User \/ Tick \/ \E r \in 1 .. MaxRequests : Answer(r)

Spec == Init /\ [][Next]_vars

\* A browser runs its timers when they are due, and every request is answered or
\* given up.  Nothing is asked of the user.
FairSpec ==
    /\ Spec
    /\ WF_vars(Loading) /\ WF_vars(Tick)
    /\ \A r \in 1 .. MaxRequests : WF_vars(Answer(r))

-----------------------------------------------------------------------------
(* Properties.                                                               *)

\* The type invariant.  The interval on show exists in the run that was rendered,
\* whichever handlers ran in between, so the inspector never reads beyond the steps.
TypeOK ==
    /\ loaded \in {"waiting", "loaded", "failed"}
    /\ selected \in Names \cup {None}
    /\ charts \in Names \cup {None}
    /\ run \in {charts, Unreadable}
    /\ index \in 0 .. (IF charts = None THEN 0 ELSE Intervals[charts] - 1)
    /\ timer \in Nat \cup {None}
    /\ ticking \in BOOLEAN
    /\ playLabel \in {"Play", "Pause"}
    /\ runDisabled \in BOOLEAN
    /\ runStatus \in [kind: {"idle", "running", "done", "error"}, name: Names \cup {None}]
    /\ hash \in Names \cup {None}
    /\ requests \in Seq(Names) /\ Len(requests) <= MaxRequests
    /\ pending \subseteq 1 .. Len(requests)

\* A run that arrives late is announced as what it is, not as what is selected or was
\* asked for last: the line that reports a run, the link to it and the charts agree.  An
\* unreadable answer, which takes the link with it and leaves the charts, is never
\* reported as a run.
ShownAsAnnounced ==
    /\ run \in Names => hash = run /\ charts = run
    /\ runStatus.kind = "done" => runStatus.name = run /\ run \in Names

\* The play button offers a pause exactly while state.timer is set, and no tick is to come
\* otherwise: a step by hand or a new request is never followed by a tick of a playback
\* that was stopped.  The converse, a pause that is offered for a playback which no longer
\* ticks, comes about in one way, by a tick that meets an unreadable run.
PlayButtonTrue ==
    /\ [](playLabel = "Pause" <=> timer # None)
    /\ [](ticking => timer # None)
    /\ [][ticking /\ ~ticking' => timer' = None \/ run = Unreadable]_vars

\* A request in the air and an enabled run button go together only when the user has
\* selected again; in any case the button comes back.
RunButtonReturns == (loaded = "loaded" /\ runDisabled) ~> ~runDisabled

\* Playback comes to its end by itself and says so, also when runs arrive in the middle of
\* it, unless such a run is unreadable, or is shorter than the one it was started on (the
\* scenarios of the catalogue are equally long).
PlaybackEnds == ticking ~> (playLabel = "Play" \/ run = Unreadable \/ timer > Last)
=============================================================================
