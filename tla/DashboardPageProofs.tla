--------------------------- MODULE DashboardPageProofs ---------------------------
(***************************************************************************)
(* The dashboard page, for any catalogue, any lengths of the runs and any    *)
(* number of requests: the interval on show exists, the page names the run   *)
(* that it shows, and the play button tells of the playback it can stop.     *)
(***************************************************************************)
EXTENDS DashboardPage, SequenceTheorems, TLAPS

\* What the play button says, and when a playback ends without it.
ButtonTold == (playLabel = "Pause" <=> timer # None) /\ (ticking => timer # None)
StallsUnread == ticking /\ ~ticking' => timer' = None \/ run = Unreadable

PageInv == TypeOK /\ ShownAsAnnounced /\ ButtonTold

\* A scenario is selected before anything can be requested, and only a run is played.
FormInv ==
    /\ ~runDisabled \/ pending # {} => selected \in Names
    /\ timer # None => run # None

-----------------------------------------------------------------------------
LEMMA LastIsIndex ==
    ASSUME run \in Names
    PROVE  Last \in Nat
BY PageAssumption DEF Last

\* The intervals of a run that has steps are those of its charts.
LEMMA IndexOfRun ==
    ASSUME PageInv, run # None, run # Unreadable
    PROVE  run \in Names /\ charts = run /\ charts # None /\ index \in 0 .. Last
BY PageAssumption DEF PageInv, TypeOK, Last

LEMMA ClampedIsIndex ==
    ASSUME run \in Names, NEW i \in Int
    PROVE  Clamped(i) \in 0 .. Last
BY LastIsIndex DEF Clamped

LEMMA CatalogueHasFirst == Catalogue[1] \in Names
BY PageAssumption DEF Names

\* The parts of the type invariant that the handlers of the form and of playback touch.
ShownTypes ==
    /\ charts \in Names \cup {None}
    /\ run \in {charts, Unreadable}
    /\ index \in 0 .. (IF charts = None THEN 0 ELSE Intervals[charts] - 1)
    /\ hash \in Names \cup {None}

PlaybackTypes ==
    timer \in Nat \cup {None} /\ ticking \in BOOLEAN /\ playLabel \in {"Play", "Pause"}

FormTypes ==
    /\ loaded \in {"waiting", "loaded", "failed"}
    /\ selected \in Names \cup {None}
    /\ runDisabled \in BOOLEAN
    /\ runStatus \in [kind: {"idle", "running", "done", "error"}, name: Names \cup {None}]

TrafficTypes ==
    /\ requests \in Seq(Names) /\ Len(requests) <= MaxRequests
    /\ pending \subseteq 1 .. Len(requests)

LEMMA TypeParts == TypeOK <=> ShownTypes /\ PlaybackTypes /\ FormTypes /\ TrafficTypes
BY DEF TypeOK, ShownTypes, PlaybackTypes, FormTypes, TrafficTypes

-----------------------------------------------------------------------------
LEMMA LoadingKeeps ==
    ASSUME PageInv, FormInv, Loading
    PROVE  PageInv' /\ FormInv'
<1>1. ShownTypes' /\ PlaybackTypes' /\ TrafficTypes' /\ ButtonTold'
    BY TypeParts DEF PageInv, Loading, Load, LoadFails, shown, playback, traffic,
        ShownTypes, PlaybackTypes, TrafficTypes, ButtonTold
<1>2. FormTypes' /\ FormInv'
    <2>1. CASE Load
        BY <2>1, TypeParts, CatalogueHasFirst DEF PageInv, FormInv, Load, FormTypes, playback, shown, traffic
    <2>2. CASE LoadFails
        BY <2>2, TypeParts DEF PageInv, FormInv, LoadFails, FormTypes, playback, shown, traffic
    <2> QED
        BY <2>1, <2>2 DEF Loading
<1>3. ShownAsAnnounced'
    BY DEF PageInv, Loading, Load, LoadFails, shown, ShownAsAnnounced
<1> QED
    BY <1>1, <1>2, <1>3, TypeParts
    DEF PageInv, TypeOK, ShownTypes, PlaybackTypes, FormTypes, TrafficTypes

\* A handler that only moves the interval and the playback of the run on show.
LEMMA PlaybackKeeps ==
    ASSUME PageInv, FormInv, run # None,
           UNCHANGED <<form, run, charts, hash, runStatus, traffic>>,
           \/ run # Unreadable /\ index' \in 0 .. Last
           \/ UNCHANGED index,
           PlaybackTypes', ButtonTold'
    PROVE  PageInv' /\ FormInv'
<1>1. ShownTypes'
    <2>1. CASE UNCHANGED index
        BY <2>1, TypeParts DEF PageInv, ShownTypes
    <2>2. CASE run # Unreadable /\ index' \in 0 .. Last
        BY <2>2, IndexOfRun, TypeParts DEF PageInv, ShownTypes, Last
    <2> QED
        BY <2>1, <2>2
<1>2. FormTypes' /\ TrafficTypes' /\ FormInv'
    BY TypeParts, PageAssumption DEF PageInv, FormTypes, TrafficTypes, FormInv, form, traffic
<1>3. ShownAsAnnounced'
    BY DEF PageInv, ShownAsAnnounced
<1> QED
    BY <1>1, <1>2, <1>3
    DEF PageInv, TypeOK, ShownTypes, PlaybackTypes, FormTypes, TrafficTypes

LEMMA MoveKeeps ==
    ASSUME PageInv, FormInv, NEW i \in Int, MoveTo(i)
    PROVE  PageInv' /\ FormInv' /\ StallsUnread
<1>1. run # None /\ UNCHANGED <<form, run, charts, hash, runStatus, traffic>>
    BY DEF MoveTo
<1>2. (run # Unreadable /\ index' \in 0 .. Last) \/ UNCHANGED index
    BY <1>1, IndexOfRun, ClampedIsIndex DEF MoveTo
<1>3. PlaybackTypes' /\ ButtonTold' /\ StallsUnread
    BY DEF MoveTo, StopPlayback, PlaybackTypes, ButtonTold, StallsUnread
<1> QED
    BY <1>1, <1>2, <1>3, PlaybackKeeps

LEMMA ToggleKeeps ==
    ASSUME PageInv, FormInv, TogglePlayback
    PROVE  PageInv' /\ FormInv' /\ StallsUnread
<1>1. run # None /\ UNCHANGED <<form, run, charts, hash, runStatus, traffic>>
    BY DEF TogglePlayback
<1>2. CASE timer # None /\ StopPlayback /\ UNCHANGED index
    <2>1. PlaybackTypes' /\ ButtonTold' /\ StallsUnread
        BY <1>2 DEF StopPlayback, PlaybackTypes, ButtonTold, StallsUnread
    <2> QED
        BY <1>1, <1>2, <2>1, PlaybackKeeps
<1>3. CASE /\ run # Unreadable
           /\ index' = IF index >= Last THEN 0 ELSE index
           /\ timer' = Last /\ ticking' = TRUE /\ playLabel' = "Pause"
    <2>1. run \in Names /\ index \in 0 .. Last /\ Last \in Nat
        BY <1>1, <1>3, IndexOfRun, LastIsIndex
    <2>2. index' \in 0 .. Last
        BY <1>3, <2>1
    <2>3. PlaybackTypes' /\ ButtonTold' /\ StallsUnread
        BY <1>3, <2>1, PageAssumption DEF PlaybackTypes, ButtonTold, StallsUnread
    <2> QED
        BY <1>1, <1>3, <2>2, <2>3, PlaybackKeeps
<1> QED
    BY <1>2, <1>3 DEF TogglePlayback

LEMMA TickKeeps ==
    ASSUME PageInv, FormInv, Tick
    PROVE  PageInv' /\ FormInv' /\ StallsUnread
<1>1. /\ run # None /\ ticking
      /\ UNCHANGED <<form, run, charts, hash, runStatus, traffic>>
    BY DEF Tick, PageInv, FormInv, ButtonTold
<1>2. CASE StopPlayback /\ UNCHANGED index
    <2>1. PlaybackTypes' /\ ButtonTold' /\ StallsUnread
        BY <1>2 DEF StopPlayback, PlaybackTypes, ButtonTold, StallsUnread
    <2> QED
        BY <1>1, <1>2, <2>1, PlaybackKeeps
<1>3. CASE PlayOn
    <2>1. PlaybackTypes' /\ ButtonTold' /\ StallsUnread
        BY <1>1, <1>3, TypeParts
        DEF PlayOn, playback, PageInv, PlaybackTypes, ButtonTold, StallsUnread
    <2>2. (run # Unreadable /\ index' \in 0 .. Last) \/ UNCHANGED index
        <3>1. CASE run # Unreadable
            <4>1. run \in Names /\ index + 1 \in Int
                BY <1>1, <3>1, IndexOfRun, LastIsIndex
            <4> QED
                BY <1>3, <3>1, <4>1, ClampedIsIndex DEF PlayOn
        <3>2. CASE run = Unreadable
            BY <1>3, <3>2 DEF PlayOn
        <3> QED
            BY <3>1, <3>2
    <2> QED
        BY <1>1, <2>1, <2>2, PlaybackKeeps
<1> QED
    BY <1>2, <1>3 DEF Tick

LEMMA SelectKeeps ==
    ASSUME PageInv, FormInv, NEW n \in Names, Select(n)
    PROVE  PageInv' /\ FormInv'
<1>1. ShownTypes' /\ PlaybackTypes' /\ TrafficTypes' /\ ButtonTold' /\ ShownAsAnnounced'
    BY TypeParts DEF PageInv, Select, shown, playback, traffic,
        ShownTypes, PlaybackTypes, TrafficTypes, ButtonTold, ShownAsAnnounced
<1>2. FormTypes' /\ FormInv'
    BY TypeParts DEF PageInv, Select, FormTypes, FormInv, shown, playback
<1> QED
    BY <1>1, <1>2
    DEF PageInv, TypeOK, ShownTypes, PlaybackTypes, FormTypes, TrafficTypes

LEMMA RequestKeeps ==
    ASSUME PageInv, FormInv, RequestRun
    PROVE  PageInv' /\ FormInv'
<1>1. ShownTypes' /\ PlaybackTypes' /\ ButtonTold' /\ FormInv'
    BY TypeParts DEF PageInv, RequestRun, StopPlayback, shown,
        ShownTypes, PlaybackTypes, ButtonTold, FormInv
<1>2. selected \in Names
    BY DEF RequestRun, FormInv
<1>3. FormTypes'
    BY <1>2, TypeParts DEF PageInv, RequestRun, FormTypes
<1>4. TrafficTypes'
    <2>1. /\ requests \in Seq(Names) /\ Len(requests) < MaxRequests
          /\ pending \subseteq 1 .. Len(requests)
        BY DEF PageInv, TypeOK, RequestRun
    <2>2. requests' \in Seq(Names) /\ Len(requests') = Len(requests) + 1
        BY <1>2, <2>1, AppendProperties DEF RequestRun
    <2>3. pending' \subseteq 1 .. Len(requests')
        <3>1. pending' = pending \cup {Len(requests) + 1}
            BY DEF RequestRun
        <3>2. Len(requests) \in Nat
            BY <2>1, LenProperties
        <3>3. \A p \in pending' : p \in 1 .. (Len(requests) + 1)
            BY <2>1, <3>1, <3>2
        <3> QED
            BY <2>2, <3>3
    <2> QED
        BY <2>1, <2>2, <2>3, LenProperties, PageAssumption DEF TrafficTypes
<1>5. ShownAsAnnounced'
    BY DEF PageInv, RequestRun, shown, ShownAsAnnounced
<1> QED
    BY <1>1, <1>3, <1>4, <1>5
    DEF PageInv, TypeOK, ShownTypes, PlaybackTypes, FormTypes, TrafficTypes

LEMMA AnswerKeeps ==
    ASSUME PageInv, FormInv, NEW r \in 1 .. MaxRequests, Answer(r)
    PROVE  PageInv' /\ FormInv'
<1>1. TrafficTypes' /\ PlaybackTypes' /\ ButtonTold'
    BY TypeParts DEF PageInv, Answer, RunArrives, RunUnreadable, RunFails, TrafficTypes, PlaybackTypes,
        ButtonTold, playback, shown
<1>2. ASSUME RunArrives(r) PROVE ShownTypes' /\ FormTypes' /\ ShownAsAnnounced' /\ FormInv'
    <2>1. requests[r] \in Names
        BY <1>2, ElementOfSeq DEF RunArrives, PageInv, TypeOK
    <2>2. run' \in Names /\ charts' = run' /\ hash' = run' /\ index' = 0
        BY <1>2, <2>1 DEF RunArrives
    <2>3. Intervals[charts'] - 1 \in Nat /\ charts' # None
        BY <2>2, PageAssumption
    <2>4. ShownTypes'
        BY <2>2, <2>3 DEF ShownTypes
    <2>5. selected \in Names \cup {None} /\ loaded \in {"waiting", "loaded", "failed"}
        BY DEF PageInv, TypeOK
    <2>6. FormTypes'
        BY <1>2, <2>1, <2>5 DEF RunArrives, FormTypes
    <2>7. ShownAsAnnounced'
        BY <1>2, <2>1 DEF RunArrives, ShownAsAnnounced
    <2>8. FormInv'
        <3>1. runDisabled' = FALSE /\ selected' = selected /\ timer' = timer
            BY <1>2 DEF RunArrives, playback
        <3>2. selected \in Names
            BY <1>2 DEF RunArrives, PageInv, FormInv
        <3> QED
            BY <2>2, <3>1, <3>2, PageAssumption DEF FormInv
    <2> QED
        BY <2>4, <2>6, <2>7, <2>8
<1>3. ASSUME RunFails(r) PROVE ShownTypes' /\ FormTypes' /\ ShownAsAnnounced' /\ FormInv'
    <2>1. ShownTypes' /\ ShownAsAnnounced' /\ FormInv'
        BY <1>3, TypeParts DEF RunFails, PageInv, ShownTypes, ShownAsAnnounced, FormInv,
            shown, playback
    <2>2. FormTypes'
        BY <1>3, TypeParts DEF RunFails, PageInv, FormTypes
    <2> QED
        BY <2>1, <2>2
<1>4. ASSUME RunUnreadable(r) PROVE ShownTypes' /\ FormTypes' /\ ShownAsAnnounced' /\ FormInv'
    <2>1. requests[r] \in Names /\ selected \in Names /\ Unreadable \notin Names \cup {None}
        BY <1>4, ElementOfSeq, PageAssumption DEF RunUnreadable, PageInv, FormInv, TypeOK
    <2>2. ShownTypes' /\ FormTypes'
        BY <1>4, <2>1, TypeParts DEF RunUnreadable, PageInv, ShownTypes, FormTypes
    <2>3. ShownAsAnnounced' /\ FormInv'
        BY <1>4, <2>1 DEF RunUnreadable, FormInv, ShownAsAnnounced, playback
    <2> QED
        BY <2>2, <2>3
<1> QED
    BY <1>1, <1>2, <1>3, <1>4
    DEF Answer, PageInv, TypeOK, ShownTypes, PlaybackTypes, FormTypes, TrafficTypes

-----------------------------------------------------------------------------
LEMMA PageStart == Init => PageInv /\ FormInv
<1> SUFFICES ASSUME Init PROVE PageInv /\ FormInv
    OBVIOUS
<1>1. requests \in Seq(Names) /\ Len(requests) = 0
    BY EmptySeq DEF Init
<1>2. TypeOK
    <2>1. ShownTypes
        <3>1. charts = None /\ run = None /\ index = 0 /\ hash \in Names \cup {None}
            BY DEF Init
        <3>2. index \in 0 .. (IF charts = None THEN 0 ELSE Intervals[charts] - 1)
            BY <3>1
        <3> QED
            BY <3>1, <3>2 DEF ShownTypes
    <2>4. PlaybackTypes
        BY DEF Init, PlaybackTypes
    <2>2. FormTypes
        BY DEF Init, FormTypes
    <2>3. TrafficTypes
        BY <1>1, PageAssumption DEF Init, TrafficTypes
    <2> QED
        BY <2>1, <2>2, <2>3, <2>4, TypeParts
<1>3. ShownAsAnnounced /\ ButtonTold /\ FormInv
    BY PageAssumption DEF Init, ShownAsAnnounced, ButtonTold, FormInv
<1> QED
    BY <1>2, <1>3 DEF PageInv

LEMMA PageStep == PageInv /\ FormInv /\ [Next]_vars => PageInv' /\ FormInv' /\ StallsUnread
<1> SUFFICES ASSUME PageInv, FormInv, [Next]_vars PROVE PageInv' /\ FormInv' /\ StallsUnread
    OBVIOUS
<1>1. CASE Loading
    <2>1. StallsUnread
        BY <1>1 DEF Loading, Load, LoadFails, playback, StallsUnread
    <2> QED
        BY <1>1, <2>1, LoadingKeeps
<1>2. CASE User
    <2>1. CASE Move
        <3>1. \A i \in {index - 1, index + 1} : i \in Int
            BY PageAssumption DEF PageInv, TypeOK
        <3>2. ASSUME NEW i \in 0 .. (IF run \in Names THEN Last ELSE 0) PROVE i \in Int
            OBVIOUS
        <3> QED
            BY <2>1, <3>1, <3>2, MoveKeeps DEF Move
    <2>2. (\E n \in Names : Select(n)) \/ RequestRun => StallsUnread
        BY DEF Select, RequestRun, StopPlayback, playback, StallsUnread
    <2> QED
        BY <1>2, <2>1, <2>2, SelectKeeps, ToggleKeeps, RequestKeeps DEF User
<1>3. CASE Tick
    BY <1>3, TickKeeps
<1>4. CASE \E r \in 1 .. MaxRequests : Answer(r)
    <2>1. StallsUnread
        BY <1>4 DEF Answer, RunArrives, RunUnreadable, RunFails, playback, StallsUnread
    <2> QED
        BY <1>4, <2>1, AnswerKeeps
<1>5. CASE UNCHANGED vars
    BY <1>5 DEF vars, form, shown, playback, traffic, PageInv, FormInv, TypeOK,
        ShownAsAnnounced, ButtonTold, StallsUnread
<1> QED
    BY <1>1, <1>2, <1>3, <1>4, <1>5 DEF Next

LEMMA PageAlways == Spec => [](PageInv /\ FormInv)
BY PageStart, PageStep, PTL DEF Spec

\* The state of the page keeps its types, and the interval on show exists in the run that
\* was rendered: no handler leaves the inspector with a step that is not there (setIndex).
THEOREM PageTypeOK == Spec => []TypeOK
<1>1. PageInv => TypeOK
    BY DEF PageInv
<1> QED
    BY <1>1, PageAlways, PTL

\* Whatever the order in which answers arrive, the announced run is the one on show and
\* the one the link leads to, and an unreadable one is not announced
\* (runSelectedScenario).
THEOREM PageShownAsAnnounced == Spec => []ShownAsAnnounced
<1>1. PageInv => ShownAsAnnounced
    BY DEF PageInv
<1> QED
    BY <1>1, PageAlways, PTL

\* The play button offers a pause while a tick is to come, and after that only when a tick
\* has met an unreadable run (togglePlayback, stopPlayback).
THEOREM PagePlayButtonTrue == Spec => PlayButtonTrue
<1>1. PageInv => (playLabel = "Pause" <=> timer # None) /\ (ticking => timer # None)
    BY DEF PageInv, ButtonTold
<1>2. PageInv /\ FormInv /\ [Next]_vars =>
        [ticking /\ ~ticking' => timer' = None \/ run = Unreadable]_vars
    BY PageStep DEF StallsUnread
<1>3. Spec => [](playLabel = "Pause" <=> timer # None) /\ [](ticking => timer # None)
    BY <1>1, PageAlways, PTL
<1>4. Spec => [][ticking /\ ~ticking' => timer' = None \/ run = Unreadable]_vars
    BY <1>2, PageAlways, PTL DEF Spec
<1> QED
    BY <1>3, <1>4 DEF PlayButtonTrue
=============================================================================
