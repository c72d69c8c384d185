--------------------------- MODULE SoftwareInTheLoop ---------------------------
(***************************************************************************)
(* The gridflex-sil command: it waits until the API is ready, runs the       *)
(* scenarios one after the other with one request per interval, and writes a *)
(* document per scenario and a page over all of them.  The backend and the   *)
(* network fail as they like meanwhile: a request or its answer is lost, the *)
(* backend decides for a client that has given up, or is started again and   *)
(* has forgotten what it decided.  The command may be killed at any moment.  *)
(*                                                                          *)
(* What a decision says, and what the plant makes of it, is ControllerLoop's *)
(* matter; here a decision is only asked for, made and received.             *)
(***************************************************************************)
EXTENDS Naturals, Sequences

CONSTANTS
    Intervals,          \* the number of intervals of each scenario
    Commands,           \* the scenarios named on the command line, a repeated one twice
    WaitTime,           \* --wait-seconds
    PollInterval,       \* poll_interval_seconds
    AttemptTime,        \* the longest an attempt to reach the API takes
    MaxCrashes,         \* bound: how often the backend is lost
    Page,               \* index.html
    Absent, Earlier, Torn   \* no file, one of an earlier command, one half written

ScenarioNames == DOMAIN Intervals

ASSUME CommandAssumption ==
    /\ Intervals \in [ScenarioNames -> Nat \ {0}]
    /\ Commands \subseteq Seq(ScenarioNames) \ {<<>>}
    /\ WaitTime \in Nat
    /\ PollInterval \in Nat \ {0}
    /\ AttemptTime \in Nat
    /\ MaxCrashes \in Nat
    /\ Page \notin ScenarioNames
    /\ Absent \notin Nat /\ Earlier \notin Nat /\ Torn \notin Nat
    /\ Absent # Earlier /\ Absent # Torn /\ Earlier # Torn

VARIABLES
    names,      \* the scenarios of this command
    wanted,     \* whether there is a --report-dir
    pc,         \* where main is
    now,        \* the monotonic clock, counted from the first attempt to reach the API
    run, step,  \* the scenario and the interval that come next, from 1
    written,    \* the documents written, the page being the last one
    disk,       \* the report directory: whose scenario each document shows
    outcome,    \* "none", "ok", or why the command ended without a success
    serving,    \* the backend: "down", "unready" or "ready"
    crashes,    \* how often it was lost
    request,    \* the last decision request: where it is, and for which interval
    decided     \* how often a controller has decided for each interval

command == <<names, wanted>>
client == <<pc, now, run, step, written, disk, outcome>>
backend == <<serving, crashes>>
vars == <<command, client, backend, request, decided>>

\* The intervals a command asks about, by the position of the scenario in the command.
AllIntervals == UNION { {r} \X (1 .. Intervals[names[r]]) : r \in 1 .. Len(names) }

NoRequest == [at |-> "nowhere", for |-> <<0, 0>>]

Init ==
    /\ names \in Commands
    /\ wanted \in BOOLEAN
    /\ pc = "poll"
    /\ now = 0
    /\ run = 1 /\ step = 1
    /\ written = 0
    /\ disk \in { [d \in ScenarioNames \cup {Page} |-> state] : state \in {Absent, Earlier} }
    /\ outcome = "none"
    /\ serving \in {"down", "unready", "ready"}
    /\ crashes = 0
    /\ request = NoRequest
    /\ decided = [i \in AllIntervals |-> 0]

End(why) == pc' = "ended" /\ outcome' = why

-----------------------------------------------------------------------------
(* wait_until_ready.  An attempt takes its time, and fails on a ready        *)
(* backend too; the deadline is looked at after a failed attempt only.       *)

\* An attempt that is answered, when the backend says that it is ready.
Ready ==
    /\ pc = "poll" /\ serving = "ready"
    /\ \E time \in 0 .. AttemptTime : now' = now + time
    /\ pc' = "send"
    /\ UNCHANGED <<command, run, step, written, disk, outcome, backend, request, decided>>

\* Mutant: the deadline is compared with the time before the attempt.
NotReadyBefore ==
    /\ pc = "poll"
    /\ \E time \in 0 .. AttemptTime : now' = now + time
    /\ IF now >= WaitTime THEN End("notReady") ELSE pc' = "sleep" /\ UNCHANGED outcome
    /\ UNCHANGED <<command, run, step, written, disk, backend, request, decided>>

NotReady ==
    /\ pc = "poll"
    /\ \E time \in 0 .. AttemptTime : now' = now + time
    /\ IF now' >= WaitTime THEN End("notReady") ELSE pc' = "sleep" /\ UNCHANGED outcome
    /\ UNCHANGED <<command, run, step, written, disk, backend, request, decided>>

\* Mutant: the clock stands still while the command sleeps.
SleepUncounted ==
    /\ pc = "sleep"
    /\ pc' = "poll"
    /\ UNCHANGED <<command, now, run, step, written, disk, outcome, backend,
                   request, decided>>

Sleep ==
    /\ pc = "sleep"
    /\ now' = now + PollInterval
    /\ pc' = "poll"
    /\ UNCHANGED <<command, run, step, written, disk, outcome, backend, request, decided>>

-----------------------------------------------------------------------------
(* One request per interval: compare, for one scenario after the other.      *)

Last == step = Intervals[names[run]]

Send ==
    /\ pc = "send"
    /\ request' = [at |-> "sent", for |-> <<run, step>>]
    /\ pc' = "await"
    /\ UNCHANGED <<command, now, run, step, written, disk, outcome, backend, decided>>

\* The decision arrives and is applied.
Receive ==
    /\ pc = "await" /\ request.at = "decided"
    /\ request' = NoRequest
    /\ run' = IF Last THEN run + 1 ELSE run
    /\ step' = IF Last THEN 1 ELSE step + 1
    /\ pc' = IF run' <= Len(names) THEN "send" ELSE "print"
    /\ UNCHANGED <<command, now, written, disk, outcome, backend, decided>>

\* Mutant: a request that failed is sent once more.
DecideFailsRetried ==
    /\ pc = "await"
    /\ pc' = "send"
    /\ UNCHANGED <<command, now, run, step, written, disk, outcome, backend,
                   request, decided>>

\* The client does not wait for ever, and does not try again: it gives up on an error
\* status, on a connection that fails and on a timeout, wherever the request then is.
DecideFails ==
    /\ pc = "await"
    /\ End("noDecision")
    /\ UNCHANGED <<command, now, run, step, written, disk, backend, request, decided>>

-----------------------------------------------------------------------------
(* What main does with the comparisons: it prints them, and writes the report *)
(* if there is a place for it.                                               *)

PrintComparisons ==
    /\ pc = "print"
    /\ IF wanted THEN pc' = "status" /\ UNCHANGED outcome ELSE End("ok")
    /\ UNCHANGED <<command, now, run, step, written, disk, backend, request, decided>>

\* get_status: without an answer the report goes without the limits.
GetStatus ==
    /\ pc = "status"
    /\ pc' = "directory"
    /\ UNCHANGED <<command, now, run, step, written, disk, outcome, backend,
                   request, decided>>

MakeDirectory ==
    /\ pc = "directory"
    /\ pc' = "write"
    /\ UNCHANGED <<command, now, run, step, written, disk, outcome, backend,
                   request, decided>>

Document == IF written < Len(names) THEN names[written + 1] ELSE Page

\* Mutant: the page comes first.
WritePageFirst ==
    LET document == IF written = 0 THEN Page ELSE names[written]
    IN  /\ pc = "write"
        /\ disk' = [disk EXCEPT ![document] = written + 1]
        /\ written' = written + 1
        /\ pc' = IF written = Len(names) THEN "announce" ELSE "write"
        /\ UNCHANGED <<command, now, run, step, outcome, backend, request, decided>>

Write ==
    /\ pc = "write"
    /\ disk' = [disk EXCEPT ![Document] = written + 1]
    /\ written' = written + 1
    /\ pc' = IF Document = Page THEN "announce" ELSE "write"
    /\ UNCHANGED <<command, now, run, step, outcome, backend, request, decided>>

\* Where the report is, which is printed before the command has succeeded.
Announce ==
    /\ pc = "announce"
    /\ End("ok")
    /\ UNCHANGED <<command, now, run, step, written, disk, backend, request, decided>>

\* An exception that main does not catch: one of the transport that is no
\* ControlApiError, an OSError of the report or of a print; or the process is killed.  A
\* file that was opened for writing is left as far as it got.
Abort ==
    /\ pc # "ended"
    /\ End("aborted")
    /\ \/ UNCHANGED disk
       \/ pc = "write" /\ disk' = [disk EXCEPT ![Document] = Torn]
    /\ UNCHANGED <<command, now, run, step, written, backend, request, decided>>

-----------------------------------------------------------------------------
(* The backend and the network.                                              *)

Start ==
    /\ serving = "down"
    /\ serving' = "unready"
    /\ UNCHANGED <<command, client, crashes, request, decided>>

\* The readiness check resolves the gateway, which is then there to stay.
BecomeReady ==
    /\ serving = "unready"
    /\ serving' = "ready"
    /\ UNCHANGED <<command, client, crashes, request, decided>>

\* Lost with the requests it has and the answers under way.
Crash ==
    /\ serving # "down" /\ crashes < MaxCrashes
    /\ serving' = "down"
    /\ crashes' = crashes + 1
    /\ request' = [request EXCEPT !.at = "nowhere"]
    /\ UNCHANGED <<command, client, decided>>

\* A decision is made and counted whether or not the client is still waiting for it.
Decide ==
    /\ request.at = "sent" /\ serving = "ready"
    /\ decided' = [decided EXCEPT ![request.for] = @ + 1]
    /\ request' = [request EXCEPT !.at = "decided"]
    /\ UNCHANGED <<command, client, backend>>

\* The request or its answer is lost, or the answer is an error.
Lose ==
    /\ request.at # "nowhere"
    /\ request' = [request EXCEPT !.at = "nowhere"]
    /\ UNCHANGED <<command, client, backend, decided>>

-----------------------------------------------------------------------------

ClientStep ==
    \/ Ready \/ NotReady \/ Sleep
    \/ Send \/ Receive \/ DecideFails
    \/ PrintComparisons \/ GetStatus \/ MakeDirectory \/ Write \/ Announce

Next ==
    \/ ClientStep \/ Abort
    \/ Start \/ BecomeReady \/ Crash \/ Decide \/ Lose

\* The command runs on, and no attempt and no request is waited for longer than its
\* timeout; nothing is asked of the backend.
Spec == Init /\ [][Next]_vars /\ WF_vars(ClientStep)

-----------------------------------------------------------------------------

Places == {"poll", "sleep", "send", "await", "print",
           "status", "directory", "write", "announce", "ended"}

\* The type invariant: the next interval is one of the command's until all are decided,
\* and no document but those named and the page is ever written.
TypeOK ==
    /\ names \in Commands
    /\ wanted \in BOOLEAN
    /\ pc \in Places
    /\ now \in Nat
    /\ \/ <<run, step>> \in AllIntervals
       \/ run = Len(names) + 1 /\ step = 1
    /\ written \in 0 .. Len(names) + 1
    /\ disk \in [ScenarioNames \cup {Page} -> Nat \cup {Absent, Earlier, Torn}]
    /\ outcome \in {"none", "ok", "notReady", "noDecision", "aborted"}
    /\ serving \in {"down", "unready", "ready"}
    /\ crashes \in 0 .. MaxCrashes
    /\ request \in [at: {"nowhere", "sent", "decided"}, for: AllIntervals \cup {<<0, 0>>}]
    /\ decided \in [AllIntervals -> Nat]

\* Whether an interval comes before the next one.
Passed(i) == i[1] < run \/ (i[1] = run /\ i[2] < step)

\* The backend decides at most once for an interval of the command, over timeouts, lost
\* answers and restarts: once for every interval the command has passed, and at most one
\* interval more, for which the command is waiting or on which it has given up.
DecidedOnce ==
    \A i \in AllIntervals :
        IF Passed(i) THEN decided[i] = 1
        ELSE /\ decided[i] <= 1
             /\ decided[i] = 1 => i = <<run, step>> /\ pc \in {"await", "ended"}

\* The command gives up on the API not before --wait-seconds, and although it looks at
\* the clock only after an attempt, less than one sleep and one attempt later; it has
\* asked for no decision by then.
GivesUpInTime ==
    outcome = "notReady" =>
        /\ now >= WaitTime /\ now < WaitTime + PollInterval + AttemptTime
        /\ \A i \in AllIntervals : decided[i] = 0

\* The last of the runs of a scenario that was named more than once.
LastRun(name) ==
    CHOOSE r \in 1 .. Len(names) :
        names[r] = name /\ \A q \in r + 1 .. Len(names) : names[q] # name

\* A page stands beside the last run of every scenario it shows, and a command that
\* succeeds has left one if it was to write a report.  A document shows a run of its own
\* scenario, of which every interval was decided.  While the command writes, and for good
\* if it is aborted then, new documents may stand beside an earlier page or half a one: an
\* exit status says so, for a command that succeeds, or fails for want of the API, leaves
\* a whole report or the directory as it was.
ReportComplete ==
    /\ disk[Page] \in Nat => \A r \in 1 .. Len(names) : disk[names[r]] = LastRun(names[r])
    /\ outcome = "ok" =>
        /\ wanted => disk[Page] \in Nat
        /\ \A i \in AllIntervals : decided[i] = 1
    /\ \A name \in ScenarioNames : disk[name] \in Nat =>
        /\ disk[name] \in 1 .. Len(names) /\ names[disk[name]] = name
        /\ \A s \in 1 .. Intervals[name] : decided[<<disk[name], s>>] = 1
    /\ \A document \in DOMAIN disk :
        /\ disk[document] = Torn => outcome = "aborted"
        /\ disk[document] \notin {Absent, Earlier} =>
            /\ wanted
            /\ disk[Page] \in Nat \/ pc = "write" \/ outcome = "aborted"

\* The command ends: it neither waits for a backend that never becomes ready, nor for a
\* decision that never comes.
CommandEnds == <>(pc = "ended")

=============================================================================
