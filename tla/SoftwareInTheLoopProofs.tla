------------------------ MODULE SoftwareInTheLoopProofs ------------------------
(***************************************************************************)
(* The safety of the gridflex-sil command, for any scenarios, any command    *)
(* line, any times and any number of restarts.                               *)
(***************************************************************************)
EXTENDS SoftwareInTheLoop, TLAPS

\* Where main is, and what it has come to.
PlaceOK ==
    /\ (pc = "ended") <=> (outcome # "none")
    /\ pc \in {"poll", "sleep", "send", "await"} => run <= Len(names)
    /\ pc \in {"print", "status", "directory", "write", "announce"} \/ outcome = "ok" =>
        run = Len(names) + 1
    /\ pc \in {"status", "directory", "write", "announce"} => wanted
    /\ pc = "write" => written <= Len(names)

\* Until the API was ready nothing is asked; between attempts the clock is short of the
\* deadline.
WaitOK ==
    /\ pc \in {"poll", "sleep"} \/ outcome = "notReady" =>
        request = NoRequest /\ \A i \in AllIntervals : decided[i] = 0
    /\ pc = "sleep" => now < WaitTime
    /\ pc = "poll" => now < WaitTime + PollInterval

\* A request that is somewhere is the one the command is waiting for or gave up on, and
\* is decided once it says so.
RequestOK ==
    request.at # "nowhere" =>
        /\ request.for = <<run, step>>
        /\ request.for \in AllIntervals
        /\ pc \in {"await", "ended"}
        /\ decided[request.for] = IF request.at = "sent" THEN 0 ELSE 1

Untouched == \A document \in DOMAIN disk : disk[document] \in {Absent, Earlier}

\* A document shows the last of the first n runs that is one of its scenario.
ShowsLast(name, n) ==
    \/ /\ disk[name] \in 1 .. n
       /\ names[disk[name]] = name
       /\ \A q \in disk[name] + 1 .. n : names[q] # name
    \/ /\ disk[name] \in {Absent, Earlier}
       /\ \A q \in 1 .. n : names[q] # name

\* The report directory, up to the end and after it.
DiskOK ==
    /\ pc \notin {"write", "announce", "ended"} => written = 0 /\ Untouched
    /\ outcome \in {"notReady", "noDecision"} => Untouched
    /\ ~wanted => Untouched
    /\ pc = "write" =>
        /\ disk[Page] \in {Absent, Earlier}
        /\ \A name \in ScenarioNames : ShowsLast(name, written)
    /\ pc = "announce" \/ (outcome = "ok" /\ wanted) =>
        /\ disk[Page] \in Nat
        /\ \A name \in ScenarioNames : ShowsLast(name, Len(names))
    /\ outcome = "aborted" =>
        /\ disk[Page] \in Nat => \A name \in ScenarioNames : ShowsLast(name, Len(names))
        /\ \A name \in ScenarioNames : disk[name] \in Nat =>
            /\ disk[name] \in 1 .. Len(names) /\ names[disk[name]] = name
            /\ run = Len(names) + 1

Inv == TypeOK /\ PlaceOK /\ WaitOK /\ RequestOK /\ DecidedOnce /\ GivesUpInTime /\ DiskOK

-----------------------------------------------------------------------------

\* What the command line gives: scenarios with at least one interval each.
LEMMA CommandParts ==
    ASSUME TypeOK
    PROVE  /\ names \in Seq(ScenarioNames)
           /\ Len(names) \in Nat \ {0}
           /\ \A r \in 1 .. Len(names) :
                names[r] \in ScenarioNames /\ Intervals[names[r]] \in Nat \ {0}
  <1>1. names \in Seq(ScenarioNames) /\ names # <<>>
    BY CommandAssumption DEF TypeOK
  <1>2. \A n \in ScenarioNames : Intervals[n] \in Nat \ {0}
    BY CommandAssumption DEF ScenarioNames
  <1> QED
    BY <1>1, <1>2

LEMMA IntervalParts ==
    \A i : i \in AllIntervals <=>
        \E r \in 1 .. Len(names) : \E s \in 1 .. Intervals[names[r]] : i = <<r, s>>
  BY DEF AllIntervals

\* The next interval, while there is one, and the one after it.
LEMMA NextInterval ==
    ASSUME TypeOK, run <= Len(names)
    PROVE  /\ run \in 1 .. Len(names) /\ step \in 1 .. Intervals[names[run]]
           /\ <<run, step>> \in AllIntervals
  <1>1. Len(names) \in Nat
    BY CommandParts
  <1>2. run # Len(names) + 1
    BY <1>1
  <1>3. <<run, step>> \in AllIntervals
    BY <1>2 DEF TypeOK
  <1> QED
    BY <1>3, IntervalParts

LEMMA InitInv == Init => Inv
  <1> SUFFICES ASSUME Init PROVE Inv
    OBVIOUS
  <1> USE DEF Init
  <1>1. names \in Seq(ScenarioNames) /\ Len(names) \in Nat \ {0}
    BY CommandAssumption
  <1>2. names[1] \in ScenarioNames /\ Intervals[names[1]] \in Nat \ {0}
    BY <1>1, CommandAssumption DEF ScenarioNames
  <1>3. <<run, step>> \in AllIntervals
    BY <1>1, <1>2, IntervalParts
  <1>4. /\ disk \in [ScenarioNames \cup {Page} -> Nat \cup {Absent, Earlier, Torn}]
        /\ Untouched
    BY DEF Untouched
  <1>5. TypeOK
    BY <1>1, <1>3, <1>4, CommandAssumption DEF TypeOK, Places, NoRequest
  <1>6. DecidedOnce
    <2>1. ASSUME NEW i \in AllIntervals PROVE ~Passed(i) /\ decided[i] = 0
      BY <2>1, IntervalParts, <1>1 DEF Passed
    <2> QED
      BY <2>1 DEF DecidedOnce
  <1> QED
    BY <1>1, <1>4, <1>5, <1>6, CommandAssumption
       DEF Inv, PlaceOK, WaitOK, RequestOK, GivesUpInTime, DiskOK, NoRequest

\* A step that moves neither the requests nor the next interval.
LEMMA WaitingStep ==
    ASSUME Inv, Ready \/ NotReady \/ Sleep
    PROVE  Inv'
  <1>1. /\ TypeOK /\ PlaceOK /\ WaitOK /\ RequestOK /\ DecidedOnce /\ DiskOK
        /\ now \in Nat /\ WaitTime \in Nat /\ PollInterval \in Nat \ {0} /\ AttemptTime \in Nat
    BY CommandAssumption DEF Inv, TypeOK
  <1>2. /\ UNCHANGED <<command, run, step, written, disk, backend, request, decided>>
        /\ pc \in {"poll", "sleep"} /\ outcome = "none"
    BY <1>1 DEF Ready, NotReady, Sleep, PlaceOK
  <1>3. AllIntervals' = AllIntervals
    BY <1>2 DEF AllIntervals, command
  <1>4. /\ now' \in Nat
        /\ pc' \in {"poll", "sleep", "send", "ended"} /\ outcome' \in {"none", "notReady"}
        /\ (pc' = "ended") <=> (outcome' = "notReady")
        /\ pc' = "ended" => now' >= WaitTime /\ now' < WaitTime + PollInterval + AttemptTime
        /\ pc' = "sleep" => now' < WaitTime
        /\ pc' = "poll" => now' < WaitTime + PollInterval
    <2>1. CASE Ready
      BY <2>1, <1>1, <1>2 DEF Ready
    <2>2. CASE NotReady
      <3>1. pc = "poll" /\ now < WaitTime + PollInterval
        BY <2>2, <1>1 DEF NotReady, WaitOK
      <3>2. PICK time \in 0 .. AttemptTime : now' = now + time
        BY <2>2 DEF NotReady
      <3>3. now' \in Nat /\ now' < WaitTime + PollInterval + AttemptTime
        BY <3>1, <3>2, <1>1
      <3>4. IF now' >= WaitTime THEN pc' = "ended" /\ outcome' = "notReady"
            ELSE pc' = "sleep" /\ outcome' = "none"
        BY <2>2, <1>2 DEF NotReady, End
      <3> QED  BY <3>3, <3>4, <1>1
    <2>3. CASE Sleep
      BY <2>3, <1>1, <1>2 DEF Sleep, WaitOK
    <2> QED
      BY <2>1, <2>2, <2>3
  <1>5. TypeOK'
    BY <1>1, <1>2, <1>3, <1>4 DEF TypeOK, Places, command, backend
  <1>6. PlaceOK'
    BY <1>1, <1>2, <1>4 DEF PlaceOK, command
  <1>7. WaitOK' /\ GivesUpInTime'
    BY <1>1, <1>2, <1>3, <1>4 DEF WaitOK, GivesUpInTime
  <1>8. RequestOK'
    BY <1>1, <1>2, <1>3 DEF RequestOK, WaitOK, NoRequest
  <1>9. DecidedOnce'
    BY <1>1, <1>2, <1>3 DEF DecidedOnce, WaitOK, Passed
  <1>10. DiskOK'
    BY <1>1, <1>2, <1>4 DEF DiskOK, Untouched
  <1> QED
    BY <1>5, <1>6, <1>7, <1>8, <1>9, <1>10 DEF Inv

LEMMA SendKeepsInv ==
    ASSUME Inv, Send
    PROVE  Inv'
  <1>1. /\ TypeOK /\ PlaceOK /\ WaitOK /\ RequestOK /\ DecidedOnce /\ DiskOK
        /\ pc = "send" /\ pc' = "await"
        /\ request' = [at |-> "sent", for |-> <<run, step>>]
        /\ UNCHANGED <<command, now, run, step, written, disk, outcome, backend, decided>>
    BY DEF Inv, Send
  <1>2. AllIntervals' = AllIntervals /\ UNCHANGED <<names, wanted>>
    BY <1>1 DEF AllIntervals, command
  <1>3. /\ run \in 1 .. Len(names) /\ step \in 1 .. Intervals[names[run]]
        /\ <<run, step>> \in AllIntervals
    BY <1>1, NextInterval DEF PlaceOK
  <1>4. decided[<<run, step>>] = 0
    <2>1. ~Passed(<<run, step>>)
      BY <1>3, CommandParts, <1>1 DEF Passed
    <2>2. decided[<<run, step>>] \in Nat
      BY <1>1, <1>3 DEF TypeOK
    <2> QED
      BY <1>1, <1>3, <2>1, <2>2 DEF DecidedOnce
  <1>5. TypeOK'
    BY <1>1, <1>2, <1>3 DEF TypeOK, Places, backend
  <1>6. PlaceOK' /\ WaitOK' /\ DiskOK'
    BY <1>1, <1>2 DEF PlaceOK, WaitOK, DiskOK, Untouched
  <1>7. RequestOK'
    BY <1>1, <1>2, <1>3, <1>4 DEF RequestOK
  <1>8. DecidedOnce' /\ GivesUpInTime'
    BY <1>1, <1>2 DEF DecidedOnce, Passed, GivesUpInTime, PlaceOK
  <1> QED
    BY <1>5, <1>6, <1>7, <1>8 DEF Inv

\* What Receive makes of the next interval.
LEMMA ReceiveMoves ==
    ASSUME TypeOK, run <= Len(names), Receive
    PROVE  /\ \/ <<run', step'>> \in AllIntervals /\ run' <= Len(names)
              \/ run' = Len(names) + 1 /\ step' = 1
           /\ \A i \in AllIntervals : Passed(i)' <=> Passed(i) \/ i = <<run, step>>
  <1>1. /\ run \in 1 .. Len(names) /\ step \in 1 .. Intervals[names[run]]
        /\ Len(names) \in Nat
        /\ \A r \in 1 .. Len(names) : Intervals[names[r]] \in Nat \ {0}
    BY NextInterval, CommandParts
  <1>2. IF step = Intervals[names[run]] THEN run' = run + 1 /\ step' = 1
        ELSE run' = run /\ step' = step + 1
    BY DEF Receive, Last
  <1>3. \/ run' \in 1 .. Len(names) /\ step' \in 1 .. Intervals[names[run']]
        \/ run' = Len(names) + 1 /\ step' = 1
    BY <1>1, <1>2
  <1>4. \/ <<run', step'>> \in AllIntervals /\ run' <= Len(names)
        \/ run' = Len(names) + 1 /\ step' = 1
    BY <1>1, <1>3, IntervalParts
  <1>5. ASSUME NEW r \in 1 .. Len(names), NEW s \in 1 .. Intervals[names[r]]
        PROVE  (r < run' \/ (r = run' /\ s < step')) <=>
                    (r < run \/ (r = run /\ s < step)) \/ (r = run /\ s = step)
    BY <1>1, <1>2, <1>5
  <1>6. ASSUME NEW i \in AllIntervals
        PROVE  Passed(i)' <=> Passed(i) \/ i = <<run, step>>
    <2>1. PICK r \in 1 .. Len(names) : \E s \in 1 .. Intervals[names[r]] : i = <<r, s>>
      BY <1>6, IntervalParts
    <2>2. PICK s \in 1 .. Intervals[names[r]] : i = <<r, s>>
      BY <2>1
    <2> QED
      BY <2>2, <1>5 DEF Passed
  <1> QED
    BY <1>4, <1>6

LEMMA ReceiveKeepsInv ==
    ASSUME Inv, Receive
    PROVE  Inv'
  <1>1. /\ TypeOK /\ PlaceOK /\ WaitOK /\ RequestOK /\ DecidedOnce /\ DiskOK
        /\ pc = "await" /\ request.at = "decided" /\ request' = NoRequest
        /\ UNCHANGED <<command, now, written, disk, backend, decided>>
    BY DEF Inv, Receive
  <1>2. AllIntervals' = AllIntervals /\ UNCHANGED <<names, wanted>>
    BY <1>1 DEF AllIntervals, command
  <1>3. /\ run <= Len(names) /\ outcome = "none"
        /\ Len(names) \in Nat
    BY <1>1, CommandParts DEF PlaceOK
  <1>4. /\ \/ <<run', step'>> \in AllIntervals /\ run' <= Len(names)
           \/ run' = Len(names) + 1 /\ step' = 1
        /\ \A i \in AllIntervals : Passed(i)' <=> Passed(i) \/ i = <<run, step>>
    BY <1>1, <1>3, ReceiveMoves
  <1>5. /\ outcome' = "none"
        /\ \/ run' <= Len(names) /\ pc' = "send"
           \/ run' = Len(names) + 1 /\ pc' = "print"
    BY <1>3, <1>4 DEF Receive
  <1>6. TypeOK'
    BY <1>1, <1>2, <1>4, <1>5 DEF TypeOK, Places, NoRequest, backend
  <1>7. PlaceOK'
    BY <1>1, <1>2, <1>3, <1>4, <1>5 DEF PlaceOK
  <1>8. WaitOK' /\ RequestOK' /\ GivesUpInTime'
    BY <1>1, <1>5 DEF WaitOK, RequestOK, GivesUpInTime, NoRequest
  <1>9. DecidedOnce'
    <2>1. decided[<<run, step>>] = 1
      BY <1>1 DEF RequestOK
    <2> QED
      BY <1>1, <1>2, <1>4, <2>1 DEF DecidedOnce
  <1>10. DiskOK'
    BY <1>1, <1>2, <1>5 DEF DiskOK, Untouched
  <1> QED
    BY <1>6, <1>7, <1>8, <1>9, <1>10 DEF Inv

LEMMA DecideFailsKeepsInv ==
    ASSUME Inv, DecideFails
    PROVE  Inv'
  <1>1. /\ TypeOK /\ PlaceOK /\ WaitOK /\ RequestOK /\ DecidedOnce /\ DiskOK
        /\ pc = "await" /\ pc' = "ended" /\ outcome' = "noDecision"
        /\ UNCHANGED <<command, now, run, step, written, disk, backend, request, decided>>
    BY DEF Inv, DecideFails, End
  <1>2. AllIntervals' = AllIntervals /\ UNCHANGED <<names, wanted>>
    BY <1>1 DEF AllIntervals, command
  <1>3. TypeOK' /\ PlaceOK'
    BY <1>1, <1>2 DEF TypeOK, PlaceOK, Places, backend
  <1>4. WaitOK' /\ RequestOK' /\ DecidedOnce' /\ GivesUpInTime'
    BY <1>1, <1>2 DEF WaitOK, RequestOK, DecidedOnce, Passed, GivesUpInTime
  <1>5. DiskOK'
    BY <1>1 DEF DiskOK, Untouched
  <1> QED
    BY <1>3, <1>4, <1>5 DEF Inv

LEMMA PreparingKeepsInv ==
    ASSUME Inv, PrintComparisons \/ GetStatus \/ MakeDirectory
    PROVE  Inv'
  <1>1. /\ TypeOK /\ PlaceOK /\ WaitOK /\ RequestOK /\ DecidedOnce /\ DiskOK
        /\ pc \in {"print", "status", "directory"} /\ outcome = "none"
        /\ \/ /\ wanted /\ outcome' = "none"
              /\ pc' \in {"status", "directory", "write"}
           \/ ~wanted /\ outcome' = "ok" /\ pc' = "ended"
        /\ UNCHANGED <<command, now, run, step, written, disk, backend, request, decided>>
    BY DEF Inv, PrintComparisons, GetStatus, MakeDirectory, End, PlaceOK, TypeOK
  <1>2. AllIntervals' = AllIntervals /\ UNCHANGED <<names, wanted>>
    BY <1>1 DEF AllIntervals, command
  <1>3. run = Len(names) + 1 /\ written = 0 /\ Len(names) \in Nat /\ Untouched
    BY <1>1, CommandParts DEF PlaceOK, DiskOK
  <1>4. TypeOK' /\ PlaceOK'
    BY <1>1, <1>2, <1>3 DEF TypeOK, PlaceOK, Places, backend
  <1>5. WaitOK' /\ RequestOK' /\ DecidedOnce' /\ GivesUpInTime'
    BY <1>1, <1>2 DEF WaitOK, RequestOK, DecidedOnce, Passed, GivesUpInTime, PlaceOK
  <1>6. DiskOK'
    <2>1. Page \in DOMAIN disk /\ ScenarioNames \subseteq DOMAIN disk
      BY <1>1 DEF TypeOK
    <2>2. \A name \in ScenarioNames : ShowsLast(name, 0)
      BY <1>3, <2>1 DEF ShowsLast, Untouched
    <2>3. disk[Page] \in {Absent, Earlier} /\ UNCHANGED <<names, wanted, disk, written>>
      BY <1>1, <1>3, <2>1 DEF Untouched, command
    <2>4. Untouched' /\ \A name \in ScenarioNames : ShowsLast(name, written)'
      BY <1>3, <2>2, <2>3 DEF Untouched, ShowsLast
    <2> QED
      BY <1>1, <1>3, <2>3, <2>4 DEF DiskOK
  <1> QED
    BY <1>4, <1>5, <1>6 DEF Inv

\* What a step does to the report directory when it does not touch the rest.
LEMMA WritingFrame ==
    ASSUME Inv, pc \in {"write", "announce"},
           UNCHANGED <<command, now, run, step, backend, request, decided>>,
           pc' \in {"write", "announce", "ended"}, outcome' \in {"none", "ok", "aborted"},
           (pc' = "ended") <=> (outcome' # "none"),
           pc' = "write" => written' <= Len(names),
           written' \in 0 .. Len(names) + 1,
           disk' \in [ScenarioNames \cup {Page} -> Nat \cup {Absent, Earlier, Torn}],
           DiskOK'
    PROVE  Inv'
  <1>1. TypeOK /\ PlaceOK /\ WaitOK /\ RequestOK /\ DecidedOnce
    BY DEF Inv
  <1>2. AllIntervals' = AllIntervals /\ UNCHANGED <<names, wanted>>
    BY DEF AllIntervals, command
  <1>3. TypeOK' /\ PlaceOK'
    BY <1>1, <1>2 DEF TypeOK, PlaceOK, Places, backend
  <1>4. WaitOK' /\ RequestOK' /\ DecidedOnce' /\ GivesUpInTime'
    BY <1>1, <1>2 DEF WaitOK, RequestOK, DecidedOnce, Passed, GivesUpInTime
  <1> QED
    BY <1>3, <1>4 DEF Inv

LEMMA WriteKeepsInv ==
    ASSUME Inv, Write
    PROVE  Inv'
  <1>1. /\ TypeOK /\ PlaceOK /\ DiskOK
        /\ pc = "write" /\ outcome = "none" /\ wanted
        /\ disk' = [disk EXCEPT ![Document] = written + 1] /\ written' = written + 1
        /\ pc' = (IF Document = Page THEN "announce" ELSE "write") /\ outcome' = "none"
        /\ UNCHANGED <<command, now, run, step, backend, request, decided>>
    BY DEF Inv, Write, PlaceOK
  <1>2. /\ Len(names) \in Nat /\ \A r \in 1 .. Len(names) : names[r] \in ScenarioNames
        /\ written \in Nat /\ written <= Len(names) /\ UNCHANGED <<names, wanted>>
        /\ Page \notin ScenarioNames
        /\ disk \in [ScenarioNames \cup {Page} -> Nat \cup {Absent, Earlier, Torn}]
    BY <1>1, CommandParts, CommandAssumption DEF TypeOK, PlaceOK, command
  <1>3. /\ \A name \in ScenarioNames : ShowsLast(name, written)
        /\ disk[Page] \in {Absent, Earlier}
    BY <1>1 DEF DiskOK
  <1>4. /\ pc' \in {"write", "announce"} /\ outcome' = "none"
        /\ (pc' = "ended") <=> (outcome' # "none")
    BY <1>1
  <1>5. disk' \in [ScenarioNames \cup {Page} -> Nat \cup {Absent, Earlier, Torn}]
    <2> DEFINE S == Nat \cup {Absent, Earlier, Torn}
               D == ScenarioNames \cup {Page}
    <2>1. disk \in [D -> S] /\ written + 1 \in S
      BY <1>2
    <2>2. disk' = [disk EXCEPT ![Document] = written + 1]
      BY <1>1
    <2> HIDE DEF S, D
    <2>3. disk' \in [D -> S]
      BY <2>1, <2>2
    <2> QED
      BY <2>3 DEF S, D
  <1>6. CASE written < Len(names)
    <2> DEFINE n == written + 1
    <2>1. Document = names[n] /\ n \in 1 .. Len(names) /\ Document \in ScenarioNames
      BY <1>2, <1>6 DEF Document
    <2>2. pc' = "write" /\ outcome' = "none" /\ written' <= Len(names)
      BY <1>1, <1>2, <2>1
    <2>4. disk'[Page] = disk[Page]
      BY <1>1, <1>2, <2>1
    <2>5. ASSUME NEW name \in ScenarioNames PROVE ShowsLast(name, written)'
      <3>1. CASE name = names[n]
        <4>1. disk'[name] = n
          BY <1>1, <1>2, <2>1, <3>1
        <4>2. disk'[name] \in 1 .. n /\ names[disk'[name]] = name
              /\ disk'[name] + 1 .. n = {}
          BY <4>1, <2>1, <3>1, <1>2
        <4> QED  BY <4>2, <1>1, <1>2 DEF ShowsLast
      <3>2. CASE name # names[n]
        <4>1. disk'[name] = disk[name]
          BY <1>1, <1>2, <2>1, <3>2
        <4>2. \A q \in Nat : q \in 1 .. n => q \in 1 .. written \/ q = n
          BY <1>2
        <4>3. CASE disk[name] \in {Absent, Earlier} /\ \A q \in 1 .. written : names[q] # name
          BY <4>1, <4>2, <4>3, <1>1, <1>2, <3>2 DEF ShowsLast
        <4>4. CASE /\ disk[name] \in 1 .. written
                   /\ names[disk[name]] = name
                   /\ \A q \in disk[name] + 1 .. written : names[q] # name
          <5>1. disk[name] \in 1 .. n
            BY <4>4, <1>2
          <5>2. \A q \in disk[name] + 1 .. n : names[q] # name
            BY <4>4, <1>2, <3>2
          <5> QED  BY <5>1, <5>2, <4>1, <4>4, <1>1, <1>2 DEF ShowsLast
        <4> QED  BY <4>3, <4>4, <1>3 DEF ShowsLast
      <3> QED  BY <3>1, <3>2
    <2>6. DiskOK'
      BY <1>1, <1>2, <1>3, <2>2, <2>4, <2>5 DEF DiskOK
    <2> QED
      BY <1>1, <1>2, <1>5, <2>2, <2>6, WritingFrame
  <1>7. CASE ~(written < Len(names))
    <2>1. written = Len(names) /\ Document = Page
      BY <1>2, <1>7 DEF Document
    <2>2. pc' = "announce" /\ outcome' = "none" /\ written' \in 0 .. Len(names) + 1
      BY <1>1, <1>2, <2>1
    <2>4. /\ disk'[Page] \in Nat
          /\ \A name \in ScenarioNames : disk'[name] = disk[name]
      BY <1>1, <1>2, <2>1
    <2>5. ASSUME NEW name \in ScenarioNames PROVE ShowsLast(name, Len(names))'
      BY <1>2, <1>3, <2>1, <2>4 DEF ShowsLast
    <2>6. DiskOK'
      BY <1>1, <1>2, <2>2, <2>4, <2>5 DEF DiskOK
    <2> QED
      BY <1>1, <1>2, <1>5, <2>2, <2>6, WritingFrame
  <1> QED
    BY <1>6, <1>7

LEMMA AnnounceKeepsInv ==
    ASSUME Inv, Announce
    PROVE  Inv'
  <1>1. /\ TypeOK /\ PlaceOK /\ DiskOK
        /\ pc = "announce" /\ pc' = "ended" /\ outcome' = "ok" /\ wanted
        /\ UNCHANGED <<command, now, run, step, written, disk, backend, request, decided>>
    BY DEF Inv, Announce, End, PlaceOK
  <1>2. UNCHANGED <<names, wanted>>
    BY <1>1 DEF command
  <1>3. DiskOK'
    BY <1>1, <1>2 DEF DiskOK, ShowsLast
  <1> QED
    BY <1>1, <1>2, <1>3, WritingFrame DEF TypeOK

LEMMA AbortKeepsInv ==
    ASSUME Inv, Abort
    PROVE  Inv'
  <1>1. /\ TypeOK /\ PlaceOK /\ WaitOK /\ RequestOK /\ DecidedOnce /\ DiskOK
        /\ pc # "ended" /\ pc' = "ended" /\ outcome' = "aborted" /\ outcome = "none"
        /\ \/ UNCHANGED disk
           \/ pc = "write" /\ disk' = [disk EXCEPT ![Document] = Torn]
        /\ UNCHANGED <<command, now, run, step, written, backend, request, decided>>
    BY DEF Inv, Abort, End, PlaceOK
  <1>2. AllIntervals' = AllIntervals /\ UNCHANGED <<names, wanted>>
    BY <1>1 DEF AllIntervals, command
  <1>3. /\ disk \in [ScenarioNames \cup {Page} -> Nat \cup {Absent, Earlier, Torn}]
        /\ Torn \notin Nat /\ Absent \notin Nat /\ Earlier \notin Nat
        /\ Page \notin ScenarioNames /\ Len(names) \in Nat /\ written \in Nat
    BY <1>1, CommandAssumption, CommandParts DEF TypeOK
  <1>4. disk' \in [ScenarioNames \cup {Page} -> Nat \cup {Absent, Earlier, Torn}]
    <2> DEFINE S == Nat \cup {Absent, Earlier, Torn}
               D == ScenarioNames \cup {Page}
    <2>1. disk \in [D -> S] /\ Torn \in S
      BY <1>3
    <2>2. UNCHANGED disk \/ disk' = [disk EXCEPT ![Document] = Torn]
      BY <1>1
    <2> HIDE DEF S, D
    <2>3. disk' \in [D -> S]
      BY <2>1, <2>2
    <2> QED
      BY <2>3 DEF S, D
  <1>5. TypeOK' /\ PlaceOK'
    BY <1>1, <1>2, <1>4 DEF TypeOK, PlaceOK, Places, backend
  <1>6. WaitOK' /\ RequestOK' /\ DecidedOnce' /\ GivesUpInTime'
    BY <1>1, <1>2 DEF WaitOK, RequestOK, DecidedOnce, Passed, GivesUpInTime
  <1>7. DiskOK'
    <2>1. \A document \in DOMAIN disk :
            disk'[document] = disk[document] \/ disk'[document] = Torn
      BY <1>1, <1>3
    <2>2. CASE pc \notin {"write", "announce"}
      <3>1. Untouched /\ UNCHANGED disk
        BY <1>1, <2>2 DEF DiskOK
      <3>2. /\ disk[Page] \notin Nat
            /\ \A name \in ScenarioNames : disk[name] \notin Nat
        BY <3>1, <1>3 DEF Untouched
      <3> QED  BY <3>1, <3>2, <1>1, <1>2 DEF DiskOK, Untouched
    <2>3. CASE pc = "write"
      <3>1. disk'[Page] \notin Nat
        BY <1>1, <1>3, <2>1, <2>3 DEF DiskOK
      <3>2. run = Len(names) + 1 /\ written <= Len(names) /\ wanted
        BY <1>1, <2>3 DEF PlaceOK
      <3>3. ASSUME NEW name \in ScenarioNames, disk'[name] \in Nat
            PROVE  disk'[name] \in 1 .. Len(names) /\ names[disk'[name]] = name
        <4>1. disk'[name] = disk[name] /\ disk[name] \in Nat
          BY <2>1, <3>3, <1>3
        <4>2. ShowsLast(name, written)
          BY <1>1, <2>3 DEF DiskOK
        <4> QED  BY <4>1, <4>2, <1>3, <3>2 DEF ShowsLast
      <3> QED  BY <1>1, <1>2, <3>1, <3>2, <3>3 DEF DiskOK
    <2>4. CASE pc = "announce"
      <3>1. UNCHANGED disk /\ wanted /\ run = Len(names) + 1
        BY <1>1, <2>4 DEF PlaceOK
      <3>2. \A name \in ScenarioNames : ShowsLast(name, Len(names)) /\ ShowsLast(name, Len(names))'
        BY <1>1, <1>2, <2>4, <3>1 DEF DiskOK, ShowsLast
      <3>3. ASSUME NEW name \in ScenarioNames, disk[name] \in Nat
            PROVE  disk[name] \in 1 .. Len(names) /\ names[disk[name]] = name
        BY <3>2, <3>3, <1>3 DEF ShowsLast
      <3> QED  BY <1>1, <1>2, <3>1, <3>2, <3>3 DEF DiskOK
    <2> QED
      BY <2>2, <2>3, <2>4
  <1> QED
    BY <1>5, <1>6, <1>7 DEF Inv

\* The backend and the network move nothing of the command's but its last request.
LEMMA BackendKeepsInv ==
    ASSUME Inv, Start \/ BecomeReady \/ Crash \/ Decide \/ Lose \/ UNCHANGED vars
    PROVE  Inv'
  <1>1. /\ TypeOK /\ PlaceOK /\ WaitOK /\ RequestOK /\ DecidedOnce /\ GivesUpInTime /\ DiskOK
        /\ UNCHANGED <<command, client>>
    BY DEF Inv, Start, BecomeReady, Crash, Decide, Lose, vars
  <1>2. AllIntervals' = AllIntervals
        /\ UNCHANGED <<names, wanted, pc, now, run, step, written, disk, outcome>>
    BY <1>1 DEF AllIntervals, command, client
  <1>3. /\ serving' \in {"down", "unready", "ready"} /\ crashes' \in 0 .. MaxCrashes
    BY <1>1, CommandAssumption
       DEF TypeOK, Start, BecomeReady, Crash, Decide, Lose, backend, vars
  <1>4. PlaceOK' /\ DiskOK'
    BY <1>1, <1>2 DEF PlaceOK, DiskOK, Untouched, ShowsLast
  <1>5. CASE Decide
    <2>1. /\ request.at = "sent" /\ request' = [request EXCEPT !.at = "decided"]
          /\ decided' = [decided EXCEPT ![request.for] = @ + 1]
      BY <1>5 DEF Decide
    <2>2. /\ request.for = <<run, step>> /\ request.for \in AllIntervals
          /\ pc \in {"await", "ended"} /\ decided[request.for] = 0
      BY <1>1, <2>1 DEF RequestOK
    <2>3. /\ decided' \in [AllIntervals -> Nat]
          /\ request' = [at |-> "decided", for |-> request.for]
          /\ decided'[request.for] = 1
          /\ \A i \in AllIntervals : i # request.for => decided'[i] = decided[i]
      <3> DEFINE I == AllIntervals
                 R == [at: {"nowhere", "sent", "decided"}, for: I \cup {<<0, 0>>}]
      <3>1. decided \in [I -> Nat] /\ request \in R
        BY <1>1 DEF TypeOK
      <3>2. request' = [at |-> "decided", for |-> request.for]
        BY <2>1, <3>1
      <3> HIDE DEF I
      <3>3. request.for \in I
        BY <2>2 DEF I
      <3> QED
        BY <2>1, <2>2, <3>1, <3>2, <3>3 DEF I
    <2>4. TypeOK'
      BY <1>1, <1>2, <1>3, <2>2, <2>3 DEF TypeOK
    <2>5. outcome # "notReady" /\ pc \notin {"poll", "sleep"}
      BY <1>1, <2>1, <2>2 DEF WaitOK, NoRequest
    <2>6. WaitOK' /\ RequestOK' /\ GivesUpInTime'
      BY <1>1, <1>2, <2>2, <2>3, <2>5 DEF WaitOK, RequestOK, GivesUpInTime
    <2>7. DecidedOnce'
      <3>1. ~Passed(request.for)
        BY <1>1, <2>2 DEF DecidedOnce
      <3> QED  BY <1>1, <1>2, <2>2, <2>3, <3>1 DEF DecidedOnce, Passed
    <2> QED
      BY <1>4, <2>4, <2>6, <2>7 DEF Inv
  <1>6. CASE Crash \/ Lose
    <2>1. request' = [request EXCEPT !.at = "nowhere"] /\ UNCHANGED decided
      BY <1>6 DEF Crash, Lose
    <2>2. request' = [at |-> "nowhere", for |-> request.for]
      BY <1>1, <2>1 DEF TypeOK
    <2>3. TypeOK'
      BY <1>1, <1>2, <1>3, <2>1, <2>2 DEF TypeOK
    <2>4. request = NoRequest => request' = NoRequest
      BY <2>2 DEF NoRequest
    <2>5. WaitOK'
      BY <1>1, <1>2, <2>1, <2>4 DEF WaitOK
    <2>6. RequestOK'
      BY <2>2 DEF RequestOK
    <2>7. DecidedOnce' /\ GivesUpInTime'
      BY <1>1, <1>2, <2>1 DEF DecidedOnce, Passed, GivesUpInTime
    <2> QED
      BY <1>4, <2>3, <2>5, <2>6, <2>7 DEF Inv
  <1>7. CASE Start \/ BecomeReady \/ UNCHANGED vars
    <2>1. UNCHANGED <<request, decided>>
      BY <1>7 DEF Start, BecomeReady, vars
    <2>2. TypeOK'
      BY <1>1, <1>2, <1>3, <2>1 DEF TypeOK
    <2>3. WaitOK' /\ RequestOK' /\ DecidedOnce' /\ GivesUpInTime'
      BY <1>1, <1>2, <2>1
         DEF WaitOK, RequestOK, DecidedOnce, Passed, GivesUpInTime, NoRequest
    <2> QED
      BY <1>4, <2>2, <2>3 DEF Inv
  <1> QED
    BY <1>5, <1>6, <1>7

LEMMA Inductive == Inv /\ [Next]_vars => Inv'
  <1> SUFFICES ASSUME Inv, [Next]_vars PROVE Inv'
    OBVIOUS
  <1>1. CASE Ready \/ NotReady \/ Sleep
    BY <1>1, WaitingStep
  <1>2. CASE Send
    BY <1>2, SendKeepsInv
  <1>3. CASE Receive
    BY <1>3, ReceiveKeepsInv
  <1>4. CASE DecideFails
    BY <1>4, DecideFailsKeepsInv
  <1>5. CASE PrintComparisons \/ GetStatus \/ MakeDirectory
    BY <1>5, PreparingKeepsInv
  <1>6. CASE Write
    BY <1>6, WriteKeepsInv
  <1>9. CASE Announce
    BY <1>9, AnnounceKeepsInv
  <1>7. CASE Abort
    BY <1>7, AbortKeepsInv
  <1>8. CASE Start \/ BecomeReady \/ Crash \/ Decide \/ Lose \/ UNCHANGED vars
    BY <1>8, BackendKeepsInv
  <1> QED
    BY <1>1, <1>2, <1>3, <1>4, <1>5, <1>6, <1>7, <1>8, <1>9 DEF Next, ClientStep

\* The invariant of the command, from which the theorems below follow.
THEOREM CommandInv == Spec => []Inv
  <1> QED
    BY InitInv, Inductive, PTL DEF Spec

\* The command's variables keep their types, and the next interval is one of its own.
THEOREM CommandTyped == Spec => []TypeOK
  <1>1. Inv => TypeOK
    BY DEF Inv
  <1> QED
    BY <1>1, CommandInv, PTL

\* The backend decides at most once for an interval of the command, however the network
\* and the backend fail.
THEOREM CommandDecidedOnce == Spec => []DecidedOnce
  <1>1. Inv => DecidedOnce
    BY DEF Inv
  <1> QED
    BY <1>1, CommandInv, PTL

\* The command gives up on an API that is not ready neither too soon nor much too late.
THEOREM CommandGivesUpInTime == Spec => []GivesUpInTime
  <1>1. Inv => GivesUpInTime
    BY DEF Inv
  <1> QED
    BY <1>1, CommandInv, PTL

\* Of several runs of one scenario, a document that shows the last shows LastRun.
LEMMA LastRunShown ==
    ASSUME TypeOK, NEW name \in ScenarioNames, ShowsLast(name, Len(names)),
           NEW r \in 1 .. Len(names), names[r] = name
    PROVE  disk[name] = LastRun(name)
  <1>1. Len(names) \in Nat
    BY CommandParts
  <1>2. /\ disk[name] \in 1 .. Len(names) /\ names[disk[name]] = name
        /\ \A q \in disk[name] + 1 .. Len(names) : names[q] # name
    BY DEF ShowsLast
  <1> DEFINE IsLast(k) == names[k] = name /\ \A q \in k + 1 .. Len(names) : names[q] # name
  <1>3. \E k \in 1 .. Len(names) : IsLast(k)
    BY <1>2
  <1>4. LastRun(name) \in 1 .. Len(names) /\ IsLast(LastRun(name))
    BY <1>3 DEF LastRun
  <1>5. ~(LastRun(name) < disk[name]) /\ ~(disk[name] < LastRun(name))
    BY <1>1, <1>2, <1>4
  <1> QED
    BY <1>1, <1>2, <1>4, <1>5

\* Once main has left the loop over the scenarios, every interval was decided once.
LEMMA AllDecided ==
    ASSUME Inv, run = Len(names) + 1
    PROVE  \A i \in AllIntervals : decided[i] = 1
  <1>1. ASSUME NEW i \in AllIntervals PROVE Passed(i)
    BY <1>1, IntervalParts, CommandParts DEF Inv, Passed
  <1> QED
    BY <1>1 DEF Inv, DecidedOnce

LEMMA InvComplete == Inv => ReportComplete
  <1> SUFFICES ASSUME Inv PROVE ReportComplete
    OBVIOUS
  <1>1. TypeOK /\ PlaceOK /\ DiskOK /\ pc \in Places
    BY DEF Inv, TypeOK
  <1>2. /\ DOMAIN disk = ScenarioNames \cup {Page} /\ Len(names) \in Nat
        /\ Absent \notin Nat /\ Earlier \notin Nat /\ Torn \notin Nat
        /\ Absent # Torn /\ Earlier # Torn
        /\ \A r \in 1 .. Len(names) : names[r] \in ScenarioNames
        /\ outcome \in {"none", "ok", "notReady", "noDecision", "aborted"}
    BY <1>1, CommandParts, CommandAssumption DEF TypeOK
  <1>3. \/ Untouched /\ ~(outcome = "ok" /\ wanted) /\ outcome # "aborted"
        \/ pc = "write" /\ outcome = "none"
        \/ pc = "announce" \/ (outcome = "ok" /\ wanted)
        \/ outcome = "aborted"
    BY <1>1, <1>2 DEF DiskOK, PlaceOK
  <1>4. /\ disk[Page] \in Nat => \A name \in ScenarioNames : ShowsLast(name, Len(names))
        /\ outcome = "ok" /\ wanted => disk[Page] \in Nat
    <2>1. Untouched => disk[Page] \notin Nat
      BY <1>2 DEF Untouched
    <2>2. pc = "write" => disk[Page] \notin Nat
      BY <1>1, <1>2 DEF DiskOK
    <2> QED
      BY <1>1, <1>3, <2>1, <2>2 DEF DiskOK
  <1>5. disk[Page] \in Nat => \A r \in 1 .. Len(names) : disk[names[r]] = LastRun(names[r])
    <2> SUFFICES ASSUME disk[Page] \in Nat, NEW r \in 1 .. Len(names)
                 PROVE  disk[names[r]] = LastRun(names[r])
      OBVIOUS
    <2>1. ShowsLast(names[r], Len(names)) /\ names[r] \in ScenarioNames
      BY <1>2, <1>4
    <2> QED
      BY <1>1, <2>1, LastRunShown
  <1>6. outcome = "ok" => \A i \in AllIntervals : decided[i] = 1
    BY <1>1, AllDecided DEF PlaceOK
  <1>7. ASSUME NEW name \in ScenarioNames, disk[name] \in Nat
        PROVE  /\ disk[name] \in 1 .. Len(names) /\ names[disk[name]] = name
               /\ \A s \in 1 .. Intervals[name] : decided[<<disk[name], s>>] = 1
    <2>1. ~Untouched
      BY <1>2, <1>7 DEF Untouched
    <2>2. /\ disk[name] \in 1 .. Len(names) /\ names[disk[name]] = name
          /\ run = Len(names) + 1
      <3>1. CASE pc = "write" /\ outcome = "none"
        <4>1. ShowsLast(name, written) /\ run = Len(names) + 1
              /\ written \in Nat /\ written <= Len(names)
          BY <1>1, <1>2, <3>1 DEF DiskOK, PlaceOK, TypeOK
        <4> QED  BY <4>1, <1>2, <1>7 DEF ShowsLast
      <3>2. CASE pc = "announce" \/ (outcome = "ok" /\ wanted)
        <4>1. ShowsLast(name, Len(names)) /\ run = Len(names) + 1
          BY <1>1, <3>2 DEF DiskOK, PlaceOK
        <4> QED  BY <4>1, <1>2, <1>7 DEF ShowsLast
      <3>3. CASE outcome = "aborted"
        BY <1>1, <1>7, <3>3 DEF DiskOK
      <3> QED
        BY <1>3, <2>1, <3>1, <3>2, <3>3
    <2>3. \A s \in 1 .. Intervals[name] : <<disk[name], s>> \in AllIntervals
      BY <2>2, IntervalParts
    <2> QED
      BY <2>2, <2>3, AllDecided
  <1>8. ASSUME NEW document \in DOMAIN disk
        PROVE  /\ disk[document] = Torn => outcome = "aborted"
               /\ disk[document] \notin {Absent, Earlier} =>
                    /\ wanted
                    /\ disk[Page] \in Nat \/ pc = "write" \/ outcome = "aborted"
    <2>1. Untouched => disk[document] # Torn
      BY <1>2, <1>8 DEF Untouched
    <2>2. pc \in {"write", "announce"} \/ (outcome = "ok" /\ wanted) => disk[document] # Torn
      <3>1. CASE document = Page
        BY <1>1, <1>2, <3>1 DEF DiskOK
      <3>2. CASE document \in ScenarioNames
        BY <1>1, <1>2, <3>2 DEF DiskOK, ShowsLast, TypeOK
      <3> QED
        BY <1>2, <3>1, <3>2
    <2>3. disk[document] \notin {Absent, Earlier} => wanted
      BY <1>1, <1>8 DEF DiskOK, Untouched
    <2>4. Untouched => disk[document] \in {Absent, Earlier}
      BY <1>8 DEF Untouched
    <2>5. pc = "announce" \/ (outcome = "ok" /\ wanted) => disk[Page] \in Nat
      BY <1>1 DEF DiskOK
    <2> QED
      BY <1>3, <2>1, <2>2, <2>3, <2>4, <2>5
  <1> QED
    BY <1>4, <1>5, <1>6, <1>7, <1>8 DEF ReportComplete

\* The page stands beside the documents it shows, a command that succeeds has left one, and
\* one that fails for want of the API leaves the report directory as it was.
THEOREM CommandReportComplete == Spec => []ReportComplete
  <1> QED
    BY InvComplete, CommandInv, PTL

-----------------------------------------------------------------------------
(* How long a command can be.                                                *)

Reporting == {"print", "status", "directory", "write", "announce"}

\* What the command has before it: the stages from waiting over asking and reporting to
\* the end, what is left of the present stage, and what is left of its present part.
Left ==
    CASE pc \in {"poll", "sleep"} ->
            <<3, WaitTime + PollInterval - now, IF pc = "poll" THEN 1 ELSE 0>>
      [] pc \in {"send", "await"} ->
            <<2, Len(names) - run,
              2 * (Intervals[names[run]] - step) + (IF pc = "send" THEN 1 ELSE 0)>>
      [] pc \in Reporting ->
            <<1, Len(names) + 1 - written,
              CASE pc = "print" -> 3 [] pc = "status" -> 2 [] pc = "directory" -> 1
                [] OTHER -> 0>>
      [] OTHER -> <<0, 0, 0>>

\* The lexicographic order of two triples of numbers, which is well-founded.
Before(a, b) ==
    \/ a[1] < b[1]
    \/ a[1] = b[1] /\ a[2] < b[2]
    \/ a[1] = b[1] /\ a[2] = b[2] /\ a[3] < b[3]

LeftNat == Left \in Nat \X Nat \X Nat

\* Everything the command does gets it on, also what only sleeps or fails, and nothing
\* the backend or the network does sets it back.
GetsOn == UNCHANGED Left \/ Before(Left', Left)

ClientGetsOn == ClientStep \/ Abort => Before(Left', Left)

LEMMA LeftIsNat == Inv => LeftNat
  <1> SUFFICES ASSUME Inv PROVE Left \in Nat \X Nat \X Nat
    BY DEF LeftNat
  <1>1. /\ TypeOK /\ PlaceOK /\ WaitOK /\ now \in Nat /\ pc \in Places
        /\ WaitTime \in Nat /\ PollInterval \in Nat \ {0}
        /\ Len(names) \in Nat /\ written \in Nat
    BY CommandAssumption, CommandParts DEF Inv, TypeOK
  <1>2. CASE pc \in {"poll", "sleep"}
    BY <1>1, <1>2 DEF Left, Reporting, WaitOK
  <1>3. CASE pc \in {"send", "await"}
    <2>1. run \in 1 .. Len(names) /\ step \in 1 .. Intervals[names[run]]
          /\ Intervals[names[run]] \in Nat
      BY <1>1, <1>3, NextInterval, CommandParts DEF PlaceOK
    <2> DEFINE major == Len(names) - run
               part == 2 * (Intervals[names[run]] - step)
               minor == part + (IF pc = "send" THEN 1 ELSE 0)
    <2>2. major \in Nat /\ part \in Nat
      BY <1>1, <2>1
    <2>3. minor \in Nat
      BY <2>2
    <2>4. Left = <<2, major, minor>>
      BY <1>3 DEF Left, Reporting
    <2> QED
      BY <2>2, <2>3, <2>4
  <1>4. CASE pc \in Reporting
    <2>1. written <= Len(names) + 1
      BY <1>1 DEF TypeOK
    <2> QED
      BY <1>1, <1>4, <2>1 DEF Left, Reporting
  <1>5. CASE pc = "ended"
    BY <1>5 DEF Left, Reporting
  <1> QED
    BY <1>1, <1>2, <1>3, <1>4, <1>5 DEF Places, Reporting

LEMMA WaitingGetsOn ==
    ASSUME Inv, Inv', Ready \/ NotReady \/ Sleep
    PROVE  Before(Left', Left)
  <1>1. /\ now \in Nat /\ now' \in Nat /\ WaitTime \in Nat /\ PollInterval \in Nat \ {0}
        /\ pc \in {"poll", "sleep"}
    BY CommandAssumption DEF Inv, TypeOK, Ready, NotReady, Sleep
  <1>2. Left = <<3, WaitTime + PollInterval - now, IF pc = "poll" THEN 1 ELSE 0>>
    BY <1>1 DEF Left, Reporting
  <1>3. CASE pc' \in {"send", "ended"}
    <2>1. Left'[1] \in {0, 2}
      BY <1>3 DEF Left, Reporting
    <2> QED
      BY <1>2, <2>1 DEF Before
  <1>4. CASE pc' \in {"poll", "sleep"}
    <2>1. Left' = <<3, WaitTime + PollInterval - now', IF pc' = "poll" THEN 1 ELSE 0>>
      BY <1>4 DEF Left, Reporting
    <2>2. \/ pc = "poll" /\ pc' = "sleep" /\ now <= now'
          \/ now < now'
      <3>1. CASE NotReady
        <4>1. PICK time \in 0 .. AttemptTime : now' = now + time
          BY <3>1 DEF NotReady
        <4> QED
          BY <3>1, <4>1, <1>1, <1>4, CommandAssumption DEF NotReady, End
      <3>2. CASE Sleep
        BY <3>2, <1>1 DEF Sleep
      <3>3. CASE Ready
        BY <3>3, <1>4 DEF Ready
      <3> QED  BY <3>1, <3>2, <3>3
    <2>3. CASE now < now'
      <3>1. \A w, p, a, b \in Nat : a < b => w + p - b < w + p - a
        OBVIOUS
      <3>2. WaitTime + PollInterval - now' < WaitTime + PollInterval - now
        BY <1>1, <2>3, <3>1
      <3> QED
        BY <1>2, <2>1, <3>2 DEF Before
    <2>4. CASE now = now' /\ pc = "poll" /\ pc' = "sleep"
      BY <1>2, <2>1, <2>4 DEF Before
    <2> QED
      BY <1>1, <2>2, <2>3, <2>4
  <1> QED
    BY <1>3, <1>4 DEF Ready, NotReady, Sleep, End

LEMMA AskingGetsOn ==
    ASSUME Inv, Inv', Send \/ Receive \/ DecideFails
    PROVE  Before(Left', Left)
  <1>1. /\ TypeOK /\ PlaceOK /\ pc \in {"send", "await"} /\ UNCHANGED <<names, written>>
    BY DEF Inv, Send, Receive, DecideFails, command
  <1>2. /\ run \in 1 .. Len(names) /\ step \in 1 .. Intervals[names[run]]
        /\ Intervals[names[run]] \in Nat /\ Len(names) \in Nat
    BY <1>1, NextInterval, CommandParts DEF PlaceOK
  <1>3. Left = <<2, Len(names) - run,
                 2 * (Intervals[names[run]] - step) + (IF pc = "send" THEN 1 ELSE 0)>>
    BY <1>1 DEF Left, Reporting
  <1>4. CASE pc' \in {"print", "ended"}
    <2>1. Left'[1] \in {0, 1}
      BY <1>4 DEF Left, Reporting
    <2> QED
      BY <1>3, <2>1 DEF Before
  <1>5. CASE Send
    BY <1>1, <1>2, <1>3, <1>5 DEF Send, Left, Reporting, Before
  <1>6. CASE Receive /\ pc' = "send"
    <2>1. Left' = <<2, Len(names) - run', 2 * (Intervals[names[run']] - step') + 1>>
      BY <1>1, <1>6 DEF Left, Reporting
    <2>2. IF step = Intervals[names[run]] THEN run' = run + 1 /\ step' = 1
          ELSE run' = run /\ step' = step + 1
      BY <1>6 DEF Receive, Last
    <2>3. pc = "await"
      BY <1>6 DEF Receive
    <2> QED
      BY <1>2, <1>3, <2>1, <2>2, <2>3 DEF Before
  <1> QED
    BY <1>4, <1>5, <1>6 DEF Receive, DecideFails, End

LEMMA ReportingGetsOn ==
    ASSUME Inv, Inv', PrintComparisons \/ GetStatus \/ MakeDirectory \/ Write \/ Announce
    PROVE  Before(Left', Left)
  <1> USE DEF Left, Reporting, Before
  <1>1. /\ pc \in Reporting /\ UNCHANGED names
        /\ Len(names) \in Nat /\ written \in Nat
    BY CommandParts DEF Inv, TypeOK, PrintComparisons, GetStatus, MakeDirectory, Write,
                        Announce, command
  <1>2. CASE PrintComparisons
    BY <1>1, <1>2 DEF PrintComparisons, End
  <1>3. CASE GetStatus
    BY <1>1, <1>3 DEF GetStatus
  <1>4. CASE MakeDirectory
    BY <1>1, <1>4 DEF MakeDirectory
  <1>5. CASE Write
    BY <1>1, <1>5 DEF Write
  <1>6. CASE Announce
    BY <1>1, <1>6 DEF Announce, End
  <1> QED
    BY <1>2, <1>3, <1>4, <1>5, <1>6

LEMMA AbortGetsOn ==
    ASSUME Inv, Abort
    PROVE  Before(Left', Left)
  <1>1. pc \in Places \ {"ended"} /\ pc' = "ended"
    BY DEF Inv, TypeOK, Abort, End
  <1>2. Left[1] \in {1, 2, 3} /\ Left'[1] = 0
    BY <1>1 DEF Left, Places, Reporting
  <1> QED
    BY <1>2 DEF Before

LEMMA StepGetsOn == Inv /\ Inv' /\ [Next]_vars => GetsOn /\ ClientGetsOn
  <1> SUFFICES ASSUME Inv, Inv', [Next]_vars PROVE GetsOn /\ ClientGetsOn
    OBVIOUS
  <1>1. ClientStep \/ Abort => Before(Left', Left)
    BY WaitingGetsOn, AskingGetsOn, ReportingGetsOn, AbortGetsOn DEF ClientStep
  <1>2. CASE Start \/ BecomeReady \/ Crash \/ Decide \/ Lose \/ UNCHANGED vars
    <2>1. UNCHANGED <<command, client>>
      BY <1>2 DEF Start, BecomeReady, Crash, Decide, Lose, vars
    <2>2. UNCHANGED Left
      BY <2>1 DEF Left, command, client
    <2> QED
      BY <1>1, <2>2 DEF GetsOn, ClientGetsOn
  <1> QED
    BY <1>1, <1>2 DEF Next, GetsOn, ClientGetsOn

\* A command cannot go on for ever, whatever backend and network do: every step of its own
\* lowers a triple of numbers that no step of theirs raises.  That it takes the steps it can
\* is fairness, with which this is CommandEnds.
THEOREM CommandRunsOut == Spec => []LeftNat /\ [][GetsOn /\ ClientGetsOn]_vars
  <1> QED
    BY CommandInv, LeftIsNat, StepGetsOn, PTL DEF Spec
=============================================================================
