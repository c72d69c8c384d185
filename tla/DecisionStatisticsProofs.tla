------------------------- MODULE DecisionStatisticsProofs -------------------------
(***************************************************************************)
(* The decision statistics, for any number of recorders and of actions: no  *)
(* decision is lost, and a snapshot lies between what was answered when it  *)
(* began and what has happened when it is returned.                         *)
(***************************************************************************)
EXTENDS DecisionStatistics, FiniteSetTheorems, TLAPS

\* The recorders between the count and the time of a decision for a.
Stamping(a) == {t \in Recorders : stamping[t] /\ action[t] = a}

\* The place of ActionOrder at which the count of a is read is behind the reader.
HasRead(a) == \E i \in DOMAIN ActionOrder : ActionOrder[i] = a /\ i < position

\* A decision that was answered has left a time.
TimeInv == (\E a \in Actions : answered[a] > 0) => lastAt # 0

\* What was due when the snapshot began is still there, and so is what it has read.
FloorInv ==
    /\ \A a \in Actions : floor.decidedBy[a] <= decidedBy[a]
    /\ floor.rejected <= rejected /\ floor.failed <= failed
    /\ (\E a \in Actions : floor.decidedBy[a] > 0) => lastAt # 0

ReadInv ==
    /\ \A a \in Actions : HasRead(a) =>
            reading.decidedBy[a] \in floor.decidedBy[a]..decidedBy[a]
    /\ position > ReadsTime =>
            ((\E a \in Actions : floor.decidedBy[a] > 0) => reading.lastAt # 0)
    /\ position > ReadsRejected => reading.rejected \in floor.rejected..rejected

\* The snapshot before this one is behind the counters, and behind what is read.
PreviousInv ==
    /\ reading.lastAt # 0 => lastAt # 0
    /\ \A a \in Actions : snapshot.decidedBy[a] <= decidedBy[a]
    /\ snapshot.rejected <= rejected /\ snapshot.failed <= failed
    /\ snapshot.lastAt # 0 => lastAt # 0
    /\ \A a \in Actions : HasRead(a) => snapshot.decidedBy[a] <= reading.decidedBy[a]
    /\ position > ReadsTime => (snapshot.lastAt # 0 => reading.lastAt # 0)
    /\ position > ReadsRejected => snapshot.rejected <= reading.rejected

SnapshotInv ==
    /\ TypeOK /\ CountsExact /\ TimeInv /\ FloorInv /\ ReadInv /\ PreviousInv
    /\ SnapshotBracketed /\ TimeOnceAnswered
-----------------------------------------------------------------------------
LEMMA OrderFacts ==
    /\ Len(ActionOrder) \in Nat
    /\ DOMAIN ActionOrder = 1..Len(ActionOrder)
    /\ \A i \in DOMAIN ActionOrder : ActionOrder[i] \in Actions
    /\ ReadsTime \in Nat /\ ReadsRejected = ReadsTime + 1 /\ ReadsFailed = ReadsTime + 2
    /\ ReadsTime = Len(ActionOrder) + 1
BY StatisticsAssumption DEF Actions, ReadsTime, ReadsRejected, ReadsFailed

\* The three parts of the type invariant, by who writes them.
CounterTypes ==
    /\ decidedBy \in [Actions -> Nat]
    /\ rejected \in Nat /\ failed \in Nat /\ lastAt \in Nat

RecorderTypes ==
    /\ now \in Nat \ {0}
    /\ action \in [Recorders -> Actions \cup {NoAction}]
    /\ stamping \in [Recorders -> BOOLEAN]
    /\ at \in [Recorders -> Nat]
    /\ \A t \in Recorders : stamping[t] => action[t] # NoAction
    /\ \A t \in Recorders : action[t] # NoAction => at[t] # 0
    /\ requests \in Nat
    /\ answered \in [Actions -> Nat]

ReaderTypes ==
    /\ snapshots \in Nat
    /\ reading \in Snapshots /\ snapshot \in Snapshots /\ floor \in Snapshots
    /\ position \in 0..ReadsFailed

LEMMA TypeParts == TypeOK <=> CounterTypes /\ RecorderTypes /\ ReaderTypes
BY DEF TypeOK, CounterTypes, RecorderTypes, ReaderTypes, Idle

\* A request moves its own decision on and leaves the reader alone.
LEMMA RecordTypes ==
    ASSUME CounterTypes, RecorderTypes, NEW t \in Recorders, Record(t)
    PROVE  CounterTypes' /\ RecorderTypes' /\ UNCHANGED readers
<1> USE DEF CounterTypes, RecorderTypes
<1>1. CASE Decided(t)
    BY <1>1, StatisticsAssumption DEF Decided, StartRequest, Idle, counters
<1>2. CASE Increment(t)
    <2>1. action[t] \in Actions
        BY <1>2 DEF Increment, Idle
    <2> QED
        BY <1>2, <2>1 DEF Increment, Idle
<1>3. CASE Stamp(t)
    <2>1. action[t] \in Actions
        BY <1>3 DEF Stamp
    <2>2. /\ action' \in [Recorders -> Actions \cup {NoAction}]
          /\ stamping' \in [Recorders -> BOOLEAN]
          /\ answered' \in [Actions -> Nat]
          /\ lastAt' \in Nat
        BY <1>3, <2>1 DEF Stamp
    <2>3. \A u \in Recorders : stamping'[u] => action'[u] # NoAction
        BY <1>3 DEF Stamp
    <2>4. \A u \in Recorders : action'[u] # NoAction => at'[u] # 0
        BY <1>3 DEF Stamp
    <2> QED
        BY <1>3, <2>2, <2>3, <2>4 DEF Stamp
<1>4. CASE Reject(t)
    BY <1>4 DEF Reject, StartRequest
<1>5. CASE Fail(t)
    BY <1>5 DEF Fail, StartRequest
<1> QED
    BY <1>1, <1>2, <1>3, <1>4, <1>5 DEF Record

\* The reader only reads, and stays within its positions.
LEMMA ReadTypes ==
    ASSUME CounterTypes, RecorderTypes, ReaderTypes, GetSnapshot
    PROVE  ReaderTypes' /\ UNCHANGED <<now, counters, recorders>>
<1>0. /\ reading \in Snapshots /\ snapshot \in Snapshots /\ floor \in Snapshots
      /\ position \in 0..ReadsFailed /\ snapshots \in Nat
    BY DEF ReaderTypes
<1>1. CASE BeginSnapshot
    <2>1. reading' \in Snapshots
        BY <1>1 DEF BeginSnapshot, EmptySnapshot, Zero, Snapshots
    <2>2. floor' \in Snapshots
        BY <1>1 DEF BeginSnapshot, Snapshots, CounterTypes, RecorderTypes
    <2> QED
        BY <1>0, <1>1, <2>1, <2>2, OrderFacts DEF BeginSnapshot, ReaderTypes
<1>2. CASE ReadCount
    <2>1. PICK a \in Actions : reading' = [reading EXCEPT !.decidedBy[a] = decidedBy[a]]
        BY <1>2, OrderFacts DEF ReadCount
    <2>2. decidedBy[a] \in Nat
        BY DEF CounterTypes
    <2>3. reading' \in Snapshots
        BY <1>0, <2>1, <2>2 DEF Snapshots
    <2>4. position' \in 0..ReadsFailed
        BY <1>0, <1>2, OrderFacts DEF ReadCount
    <2> QED
        BY <1>0, <1>2, <2>3, <2>4 DEF ReadCount, ReaderTypes
<1>3. CASE ReadTime
    <2>1. reading' = [reading EXCEPT !.lastAt = lastAt] /\ lastAt \in Nat
        BY <1>3 DEF ReadTime, CounterTypes
    <2>2. reading' \in Snapshots
        BY <1>0, <2>1 DEF Snapshots
    <2>3. position' \in 0..ReadsFailed
        BY <1>0, <1>3, OrderFacts DEF ReadTime, NoRead
    <2> QED
        BY <1>0, <1>3, <2>2, <2>3 DEF ReadTime, ReaderTypes
<1>4. CASE ReadRejected
    <2>1. reading' = [reading EXCEPT !.rejected = rejected] /\ rejected \in Nat
        BY <1>4 DEF ReadRejected, CounterTypes
    <2>2. reading' \in Snapshots
        BY <1>0, <2>1 DEF Snapshots
    <2>3. position' \in 0..ReadsFailed
        BY <1>0, <1>4, OrderFacts DEF ReadRejected, NoRead
    <2> QED
        BY <1>0, <1>4, <2>2, <2>3 DEF ReadRejected, ReaderTypes
<1>5. CASE ReturnSnapshot
    <2>1. snapshot' = [reading EXCEPT !.failed = failed] /\ failed \in Nat
        BY <1>5 DEF ReturnSnapshot, CounterTypes
    <2>2. snapshot' \in Snapshots
        BY <1>0, <2>1 DEF Snapshots
    <2>3. position' \in 0..ReadsFailed
        BY <1>0, <1>5, OrderFacts DEF ReturnSnapshot, NoRead
    <2> QED
        BY <1>0, <1>5, <2>2, <2>3 DEF ReturnSnapshot, ReaderTypes
<1> QED
    BY <1>1, <1>2, <1>3, <1>4, <1>5 DEF GetSnapshot

LEMMA TypeStep == TypeOK /\ [Next]_vars => TypeOK'
<1> SUFFICES ASSUME TypeOK, [Next]_vars PROVE CounterTypes' /\ RecorderTypes' /\ ReaderTypes'
    BY TypeParts DEF TypeOK, CounterTypes, RecorderTypes, ReaderTypes, Idle
<1> USE TypeParts
<1>1. ASSUME NEW t \in Recorders, Record(t)
      PROVE  CounterTypes' /\ RecorderTypes' /\ ReaderTypes'
    BY <1>1, RecordTypes DEF ReaderTypes, readers, Snapshots
<1>2. CASE GetSnapshot
    BY <1>2, ReadTypes DEF CounterTypes, RecorderTypes, counters, recorders
<1>3. CASE Tick
    BY <1>3 DEF Tick, CounterTypes, RecorderTypes, ReaderTypes, counters, recorders, readers
<1>4. CASE UNCHANGED vars
    BY <1>4 DEF vars, CounterTypes, RecorderTypes, ReaderTypes, counters, recorders, readers
<1> QED
    BY <1>1, <1>2, <1>3, <1>4 DEF Next

LEMMA TypeStart == Init => TypeOK
BY OrderFacts, StatisticsAssumption
DEF Init, TypeOK, Idle, Snapshots, EmptySnapshot, Zero, NoRead

\* The counters, the recorders and the snapshots keep their types, and a decision that
\* is being recorded has its time (RecordDecided, GetSnapshot).
THEOREM StatisticsTypeOK == Spec => []TypeOK
BY TypeStart, TypeStep, PTL DEF Spec
-----------------------------------------------------------------------------
(* No decision is lost.                                                      *)

LEMMA StampingFinite ==
    ASSUME NEW a
    PROVE  IsFiniteSet(Stamping(a)) /\ Cardinality(Stamping(a)) \in Nat
<1>1. Stamping(a) \in SUBSET Recorders
    BY DEF Stamping
<1>2. IsFiniteSet(Stamping(a))
    BY <1>1, FS_Subset, StatisticsAssumption
<1> QED
    BY <1>2, FS_CardinalityType

LEMMA ExactStep == TypeOK /\ CountsExact /\ [Next]_vars => CountsExact'
<1> SUFFICES ASSUME TypeOK, CountsExact, [Next]_vars, NEW a \in Actions
             PROVE  decidedBy'[a] = answered'[a] + Cardinality(Stamping(a)')
    BY DEF CountsExact, Stamping
<1>0. decidedBy[a] = answered[a] + Cardinality(Stamping(a))
    BY DEF CountsExact, Stamping
<1>t. decidedBy[a] \in Nat /\ answered[a] \in Nat /\ Cardinality(Stamping(a)) \in Nat
    BY StampingFinite DEF TypeOK
<1>1. ASSUME NEW t \in Recorders, Increment(t)
      PROVE  decidedBy'[a] = answered'[a] + Cardinality(Stamping(a)')
    <2>1. CASE action[t] = a
        <3>1. Stamping(a)' = Stamping(a) \cup {t} /\ t \notin Stamping(a)
            BY <1>1, <2>1 DEF Increment, Stamping, TypeOK
        <3>2. Cardinality(Stamping(a)') = Cardinality(Stamping(a)) + 1
            BY <3>1, StampingFinite, FS_AddElement
        <3> QED
            BY <1>0, <1>t, <1>1, <2>1, <3>2 DEF Increment, TypeOK
    <2>2. CASE action[t] # a
        <3>1. Stamping(a)' = Stamping(a)
            BY <1>1, <2>2 DEF Increment, Stamping, TypeOK
        <3> QED
            BY <1>0, <1>t, <1>1, <2>2, <3>1 DEF Increment, TypeOK
    <2> QED
        BY <2>1, <2>2
<1>2. ASSUME NEW t \in Recorders, Stamp(t)
      PROVE  decidedBy'[a] = answered'[a] + Cardinality(Stamping(a)')
    <2>1. CASE action[t] = a
        <3>1. Stamping(a)' = Stamping(a) \ {t} /\ t \in Stamping(a)
            BY <1>2, <2>1, StatisticsAssumption DEF Stamp, Stamping, TypeOK
        <3>2. Cardinality(Stamping(a)') = Cardinality(Stamping(a)) - 1
            BY <3>1, StampingFinite, FS_RemoveElement
        <3> QED
            BY <1>0, <1>t, <1>2, <2>1, <3>2 DEF Stamp, TypeOK
    <2>2. CASE action[t] # a
        <3>1. Stamping(a)' = Stamping(a)
            BY <1>2, <2>2, StatisticsAssumption DEF Stamp, Stamping, TypeOK
        <3> QED
            BY <1>0, <1>t, <1>2, <2>2, <3>1 DEF Stamp, TypeOK
    <2> QED
        BY <2>1, <2>2
<1>3. ASSUME NEW t \in Recorders, Decided(t)
      PROVE  decidedBy'[a] = answered'[a] + Cardinality(Stamping(a)')
    <2>1. ~stamping[t] /\ stamping' = stamping
        BY <1>3 DEF Decided, StartRequest, TypeOK
    <2>2. Stamping(a)' = Stamping(a)
        BY <1>3, <2>1 DEF Decided, Stamping, TypeOK
    <2> QED
        BY <1>0, <1>3, <2>2 DEF Decided, counters
<1>4. CASE UNCHANGED <<decidedBy, stamping, action, answered>>
    <2>1. Stamping(a)' = Stamping(a)
        BY <1>4 DEF Stamping
    <2> QED
        BY <1>0, <1>4, <2>1
<1> QED
    BY <1>1, <1>2, <1>3, <1>4
    DEF Next, Record, GetSnapshot, Reject, Fail, Tick, BeginSnapshot, ReadCount, ReadTime,
        ReadRejected, ReturnSnapshot, vars, counters, recorders, readers

LEMMA ExactStart == Init => CountsExact
<1> SUFFICES ASSUME Init, NEW a \in Actions
             PROVE  decidedBy[a] = answered[a] + Cardinality(Stamping(a))
    BY DEF CountsExact, Stamping
<1>1. Stamping(a) = {}
    BY DEF Init, Stamping
<1> QED
    BY <1>1, FS_EmptySet DEF Init, Zero

\* A decision that is counted and not yet answered is one recorder between the two
\* operations of RecordDecided: concurrent recorders lose no decision.
THEOREM StatisticsCountsExact == Spec => []CountsExact
<1>1. Init => TypeOK /\ CountsExact
    BY TypeStart, ExactStart
<1>2. TypeOK /\ CountsExact /\ [Next]_vars => (TypeOK /\ CountsExact)'
    BY TypeStep, ExactStep
<1> QED
    BY <1>1, <1>2, PTL DEF Spec
-----------------------------------------------------------------------------
(* A snapshot lies between what was answered and what has happened.          *)

LEMMA AnsweredCounted ==
    ASSUME TypeOK, CountsExact, NEW a \in Actions
    PROVE  answered[a] <= decidedBy[a]
<1>1. decidedBy[a] = answered[a] + Cardinality(Stamping(a))
    BY DEF CountsExact, Stamping
<1> QED
    BY <1>1, StampingFinite DEF TypeOK

\* The counters only grow, the time once set stays set, and a request does not touch
\* what the reader has.
LEMMA RecordGrows ==
    ASSUME TypeOK, NEW t \in Recorders, Record(t)
    PROVE  /\ \A a \in Actions : decidedBy'[a] >= decidedBy[a]
           /\ rejected' >= rejected /\ failed' >= failed
           /\ lastAt # 0 => lastAt' # 0
           /\ UNCHANGED readers
<1>1. CASE Decided(t)
    BY <1>1 DEF Decided, counters, TypeOK
<1>2. CASE Increment(t)
    BY <1>2 DEF Increment, TypeOK
<1>3. CASE Stamp(t)
    <2>1. lastAt' # 0
        BY <1>3 DEF Stamp, TypeOK, Idle
    <2> QED
        BY <1>3, <2>1 DEF Stamp, TypeOK
<1>4. CASE Reject(t)
    BY <1>4 DEF Reject, TypeOK
<1>5. CASE Fail(t)
    BY <1>5 DEF Fail, TypeOK
<1> QED
    BY <1>1, <1>2, <1>3, <1>4, <1>5 DEF Record

\* The types that the arithmetic of the snapshots needs.
SnapshotTypes ==
    /\ \A a \in Actions : decidedBy[a] \in Nat /\ answered[a] \in Nat
    /\ rejected \in Nat /\ failed \in Nat /\ lastAt \in Nat
    /\ \A s \in {reading, snapshot, floor} :
            /\ \A a \in Actions : s.decidedBy[a] \in Nat
            /\ s.rejected \in Nat /\ s.failed \in Nat /\ s.lastAt \in Nat
    /\ position \in Nat

LEMMA TypesOfSnapshots == TypeOK => SnapshotTypes
<1> SUFFICES ASSUME TypeOK PROVE SnapshotTypes
    OBVIOUS
<1>1. \A s \in Snapshots :
            /\ \A a \in Actions : s.decidedBy[a] \in Nat
            /\ s.rejected \in Nat /\ s.failed \in Nat /\ s.lastAt \in Nat
    BY DEF Snapshots
<1>2. {reading, snapshot, floor} \subseteq Snapshots
    BY DEF TypeOK
<1>3. position \in Nat
    BY OrderFacts DEF TypeOK
<1> QED
    BY <1>1, <1>2, <1>3 DEF SnapshotTypes, TypeOK

LEMMA TimeStep == TypeOK /\ TimeInv /\ [Next]_vars => TimeInv'
<1> SUFFICES ASSUME TypeOK, TimeInv, [Next]_vars PROVE TimeInv'
    OBVIOUS
<1>1. ASSUME NEW t \in Recorders, Stamp(t) PROVE TimeInv'
    BY <1>1 DEF Stamp, TimeInv, TypeOK, Idle
<1>2. CASE UNCHANGED <<answered, lastAt>>
    BY <1>2 DEF TimeInv
<1> QED
    BY <1>1, <1>2
    DEF Next, Record, GetSnapshot, Decided, Increment, Reject, Fail, Tick, BeginSnapshot,
        ReadCount, ReadTime, ReadRejected, ReturnSnapshot, vars, counters, recorders, readers

\* Requests between two reads of a snapshot disturb nothing it has or will have.
LEMMA SnapshotUnderRecords ==
    ASSUME SnapshotInv, TypeOK', NEW t \in Recorders, Record(t)
    PROVE  FloorInv' /\ ReadInv' /\ PreviousInv' /\ SnapshotBracketed' /\ TimeOnceAnswered'
<1>1. SnapshotTypes /\ SnapshotTypes'
    BY TypesOfSnapshots DEF SnapshotInv, TypeOK, SnapshotTypes, Idle, Snapshots
<1>2. /\ \A a \in Actions : decidedBy'[a] >= decidedBy[a]
      /\ rejected' >= rejected /\ failed' >= failed
      /\ lastAt # 0 => lastAt' # 0
      /\ reading' = reading /\ position' = position /\ snapshot' = snapshot /\ floor' = floor
    BY RecordGrows DEF SnapshotInv, readers
<1>3. FloorInv'
    BY <1>1, <1>2 DEF SnapshotInv, FloorInv, SnapshotTypes
<1>4. ReadInv'
    BY <1>1, <1>2 DEF SnapshotInv, ReadInv, HasRead, SnapshotTypes
<1>5. PreviousInv'
    BY <1>1, <1>2 DEF SnapshotInv, PreviousInv, HasRead, SnapshotTypes
<1>6. SnapshotBracketed' /\ TimeOnceAnswered'
    BY <1>1, <1>2 DEF SnapshotInv, SnapshotBracketed, TimeOnceAnswered, SnapshotTypes
<1> QED
    BY <1>3, <1>4, <1>5, <1>6

LEMMA SnapshotBegins ==
    ASSUME SnapshotInv, TypeOK', BeginSnapshot
    PROVE  FloorInv' /\ ReadInv' /\ PreviousInv' /\ SnapshotBracketed' /\ TimeOnceAnswered'
<1>1. SnapshotTypes /\ 1 <= ReadsTime /\ 1 <= ReadsRejected
    BY TypesOfSnapshots, OrderFacts DEF SnapshotInv
<1>2. /\ floor'.decidedBy = answered /\ floor'.rejected = rejected /\ floor'.failed = failed
      /\ position' = 1 /\ snapshot' = snapshot
      /\ UNCHANGED <<decidedBy, rejected, failed, lastAt>>
    BY DEF BeginSnapshot, counters
<1>3. (\A a \in Actions : ~HasRead(a)') /\ reading'.lastAt = 0
    BY <1>2, OrderFacts DEF HasRead, BeginSnapshot, EmptySnapshot
<1>4. FloorInv'
    BY <1>1, <1>2, AnsweredCounted DEF SnapshotInv, FloorInv, TimeInv, SnapshotTypes
<1>5. ReadInv'
    BY <1>1, <1>2, <1>3 DEF ReadInv, ReadsTime, ReadsRejected
<1>6. PreviousInv'
    BY <1>1, <1>2, <1>3 DEF SnapshotInv, PreviousInv, ReadsTime, ReadsRejected
<1>7. SnapshotBracketed' /\ TimeOnceAnswered'
    BY <1>2 DEF SnapshotBracketed, TimeOnceAnswered, NoRead
<1> QED
    BY <1>4, <1>5, <1>6, <1>7

LEMMA CountIsRead ==
    ASSUME SnapshotInv, TypeOK', ReadCount
    PROVE  FloorInv' /\ ReadInv' /\ PreviousInv' /\ SnapshotBracketed' /\ TimeOnceAnswered'
<1> DEFINE b == ActionOrder[position]
<1>1. SnapshotTypes /\ b \in Actions
    BY TypesOfSnapshots, OrderFacts DEF SnapshotInv, ReadCount
<1>2. /\ reading \in Snapshots
      /\ reading' = [reading EXCEPT !.decidedBy[b] = decidedBy[b]]
    BY DEF ReadCount, SnapshotInv, TypeOK
<1>3. /\ \A a \in Actions : reading'.decidedBy[a] = IF a = b THEN decidedBy[b]
                                                            ELSE reading.decidedBy[a]
      /\ reading'.rejected = reading.rejected /\ reading'.lastAt = reading.lastAt
    BY <1>1, <1>2 DEF Snapshots
<1>4. /\ position \in 1..Len(ActionOrder) /\ position' = position + 1
      /\ snapshot' = snapshot /\ floor' = floor
      /\ UNCHANGED <<decidedBy, rejected, failed, lastAt>>
    BY OrderFacts DEF ReadCount, counters
<1>5. \A a \in Actions : HasRead(a)' => a = b \/ HasRead(a)
    BY <1>4, OrderFacts DEF HasRead
<1>6. position' # NoRead /\ ~(position' > ReadsTime) /\ ~(position' > ReadsRejected)
    BY <1>4, OrderFacts DEF NoRead
<1> HIDE DEF b
<1>7. FloorInv'
    BY <1>4 DEF SnapshotInv, FloorInv
<1>8. ReadInv'
    <2>1. ASSUME NEW a \in Actions, HasRead(a)'
          PROVE  reading'.decidedBy[a] \in floor.decidedBy[a]..decidedBy[a]
        <3>1. CASE a = b
            BY <1>1, <1>3, <3>1 DEF SnapshotInv, FloorInv, SnapshotTypes
        <3>2. CASE a # b
            BY <1>3, <1>5, <2>1, <3>2 DEF SnapshotInv, ReadInv
        <3> QED
            BY <3>1, <3>2
    <2> QED
        BY <2>1, <1>4, <1>6 DEF ReadInv
<1>9. PreviousInv'
    BY <1>1, <1>3, <1>4, <1>5, <1>6
    DEF SnapshotInv, PreviousInv, SnapshotTypes, ReadsTime, ReadsRejected
<1>10. SnapshotBracketed' /\ TimeOnceAnswered'
    BY <1>6 DEF SnapshotBracketed, TimeOnceAnswered, NoRead
<1> QED
    BY <1>7, <1>8, <1>9, <1>10

\* Behind the counts, every count has been read.
LEMMA CountsAreRead ==
    ASSUME position \in Nat, position > Len(ActionOrder), NEW a \in Actions
    PROVE  HasRead(a)
BY OrderFacts DEF HasRead, Actions

LEMMA TimeIsRead ==
    ASSUME SnapshotInv, TypeOK', ReadTime
    PROVE  FloorInv' /\ ReadInv' /\ PreviousInv' /\ SnapshotBracketed' /\ TimeOnceAnswered'
<1>1. SnapshotTypes
    BY TypesOfSnapshots DEF SnapshotInv
<1>2. /\ reading \in Snapshots /\ reading' = [reading EXCEPT !.lastAt = lastAt]
    BY DEF ReadTime, SnapshotInv, TypeOK
<1>3. /\ reading'.decidedBy = reading.decidedBy /\ reading'.lastAt = lastAt
    BY <1>2 DEF Snapshots
<1>4. /\ position = ReadsTime /\ position' = position + 1
      /\ snapshot' = snapshot /\ floor' = floor
      /\ UNCHANGED <<decidedBy, rejected, failed, lastAt>>
    BY DEF ReadTime, counters
<1>5. \A a \in Actions : HasRead(a)
    BY <1>1, <1>4, OrderFacts, CountsAreRead DEF SnapshotTypes
<1>6. position' # NoRead /\ ~(position' > ReadsRejected)
    BY <1>4, OrderFacts DEF NoRead
<1>7. FloorInv'
    BY <1>4 DEF SnapshotInv, FloorInv
<1>8. ReadInv'
    BY <1>3, <1>4, <1>5, <1>6, <1>7 DEF SnapshotInv, ReadInv, FloorInv, ReadsRejected
<1>9. PreviousInv'
    BY <1>3, <1>4, <1>5, <1>6 DEF SnapshotInv, PreviousInv, ReadsRejected
<1>10. SnapshotBracketed' /\ TimeOnceAnswered'
    BY <1>6 DEF SnapshotBracketed, TimeOnceAnswered, NoRead
<1> QED
    BY <1>7, <1>8, <1>9, <1>10

LEMMA RejectedIsRead ==
    ASSUME SnapshotInv, TypeOK', ReadRejected
    PROVE  FloorInv' /\ ReadInv' /\ PreviousInv' /\ SnapshotBracketed' /\ TimeOnceAnswered'
<1>1. SnapshotTypes
    BY TypesOfSnapshots DEF SnapshotInv
<1>2. /\ reading \in Snapshots /\ reading' = [reading EXCEPT !.rejected = rejected]
    BY DEF ReadRejected, SnapshotInv, TypeOK
<1>3. /\ reading'.decidedBy = reading.decidedBy /\ reading'.lastAt = reading.lastAt
      /\ reading'.rejected = rejected
    BY <1>2 DEF Snapshots
<1>4. /\ position = ReadsRejected /\ position' = position + 1
      /\ snapshot' = snapshot /\ floor' = floor
      /\ UNCHANGED <<decidedBy, rejected, failed, lastAt>>
    BY DEF ReadRejected, counters
<1>5. \A a \in Actions : HasRead(a)
    BY <1>1, <1>4, OrderFacts, CountsAreRead DEF SnapshotTypes
<1>6. position' # NoRead /\ position > ReadsTime
    BY <1>4, OrderFacts DEF NoRead
<1>7. FloorInv'
    BY <1>4 DEF SnapshotInv, FloorInv
<1>8. ReadInv'
    BY <1>1, <1>3, <1>4, <1>5, <1>6 DEF SnapshotInv, ReadInv, FloorInv, SnapshotTypes
<1>9. PreviousInv'
    BY <1>3, <1>4, <1>5, <1>6 DEF SnapshotInv, PreviousInv
<1>10. SnapshotBracketed' /\ TimeOnceAnswered'
    BY <1>6 DEF SnapshotBracketed, TimeOnceAnswered, NoRead
<1> QED
    BY <1>7, <1>8, <1>9, <1>10

\* What the returned snapshot has, from the reads and the last counter.
LEMMA Returned ==
    ASSUME SnapshotInv, ReturnSnapshot
    PROVE  /\ \A a \in Actions : HasRead(a)
           /\ position > ReadsTime /\ position > ReadsRejected
           /\ snapshot'.decidedBy = reading.decidedBy /\ snapshot'.lastAt = reading.lastAt
           /\ snapshot'.rejected = reading.rejected /\ snapshot'.failed = failed
<1>1. SnapshotTypes
    BY TypesOfSnapshots DEF SnapshotInv
<1>2. /\ reading \in Snapshots /\ snapshot' = [reading EXCEPT !.failed = failed]
      /\ position = ReadsFailed
    BY DEF ReturnSnapshot, SnapshotInv, TypeOK
<1>3. \A a \in Actions : HasRead(a)
    BY <1>1, <1>2, OrderFacts, CountsAreRead DEF SnapshotTypes
<1>4. position > ReadsTime /\ position > ReadsRejected
    BY <1>2, OrderFacts
<1> QED
    BY <1>2, <1>3, <1>4 DEF Snapshots

LEMMA SnapshotReturns ==
    ASSUME SnapshotInv, TypeOK', ReturnSnapshot
    PROVE  FloorInv' /\ ReadInv' /\ PreviousInv' /\ SnapshotBracketed' /\ TimeOnceAnswered'
<1>1. SnapshotTypes
    BY TypesOfSnapshots DEF SnapshotInv
<1>2. /\ position' = 0 /\ reading' = reading /\ floor' = floor
      /\ UNCHANGED <<decidedBy, rejected, failed, lastAt>>
    BY DEF ReturnSnapshot, counters, NoRead
<1>3. /\ \A a \in Actions : ~HasRead(a)'
      /\ ~(position' > ReadsTime) /\ ~(position' > ReadsRejected)
    BY <1>2, OrderFacts DEF HasRead
<1>4. /\ \A a \in Actions : reading.decidedBy[a] \in floor.decidedBy[a]..decidedBy[a]
      /\ (\E a \in Actions : floor.decidedBy[a] > 0) => reading.lastAt # 0
      /\ reading.rejected \in floor.rejected..rejected
    BY Returned DEF SnapshotInv, ReadInv
<1>5. reading.lastAt # 0 => lastAt # 0
    BY DEF SnapshotInv, PreviousInv
<1>6. FloorInv'
    BY <1>2 DEF SnapshotInv, FloorInv
<1>7. ReadInv'
    BY <1>3 DEF ReadInv, ReadsTime, ReadsRejected
<1>8. PreviousInv'
    <2>1. /\ \A a \in Actions : snapshot'.decidedBy[a] <= decidedBy[a]
          /\ snapshot'.rejected <= rejected /\ snapshot'.failed <= failed
        BY <1>1, <1>4, Returned DEF SnapshotTypes
    <2>2. snapshot'.lastAt # 0 => lastAt # 0
        BY <1>5, Returned
    <2> QED
        BY <1>2, <1>3, <1>5, <2>1, <2>2 DEF PreviousInv
<1>9. SnapshotBracketed' /\ TimeOnceAnswered'
    BY <1>1, <1>2, <1>4, Returned
    DEF SnapshotInv, FloorInv, SnapshotBracketed, TimeOnceAnswered, SnapshotTypes
<1> QED
    BY <1>6, <1>7, <1>8, <1>9

LEMMA SnapshotStep == SnapshotInv /\ [Next]_vars => SnapshotInv'
<1> SUFFICES ASSUME SnapshotInv, [Next]_vars PROVE SnapshotInv'
    OBVIOUS
<1>1. TypeOK' /\ CountsExact' /\ TimeInv'
    BY TypeStep, ExactStep, TimeStep DEF SnapshotInv
<1>2. FloorInv' /\ ReadInv' /\ PreviousInv' /\ SnapshotBracketed' /\ TimeOnceAnswered'
    <2>1. ASSUME NEW t \in Recorders, Record(t)
          PROVE  FloorInv' /\ ReadInv' /\ PreviousInv' /\ SnapshotBracketed' /\ TimeOnceAnswered'
        BY <1>1, <2>1, SnapshotUnderRecords
    <2>2. CASE GetSnapshot
        BY <1>1, <2>2, SnapshotBegins, CountIsRead, TimeIsRead, RejectedIsRead, SnapshotReturns
        DEF GetSnapshot
    <2>3. CASE UNCHANGED <<counters, readers>>
        BY <2>3 DEF SnapshotInv, FloorInv, ReadInv, PreviousInv, HasRead, SnapshotBracketed,
                    TimeOnceAnswered, counters, readers
    <2> QED
        BY <2>1, <2>2, <2>3 DEF Next, Tick, vars
<1> QED
    BY <1>1, <1>2 DEF SnapshotInv

LEMMA SnapshotStart == Init => SnapshotInv
<1> SUFFICES ASSUME Init PROVE SnapshotInv
    OBVIOUS
<1>1. TypeOK /\ CountsExact
    BY TypeStart, ExactStart
<1>2. \A a \in Actions : ~HasRead(a)
    BY OrderFacts DEF Init, HasRead, NoRead
<1>3. ~(position > ReadsTime) /\ ~(position > ReadsRejected)
    BY OrderFacts DEF Init, NoRead
<1>4. TimeInv /\ FloorInv
    BY DEF Init, TimeInv, FloorInv, EmptySnapshot, Zero
<1>5. ReadInv /\ PreviousInv
    BY <1>2, <1>3 DEF Init, ReadInv, PreviousInv, EmptySnapshot, Zero
<1>6. SnapshotBracketed /\ TimeOnceAnswered
    BY DEF Init, SnapshotBracketed, TimeOnceAnswered, EmptySnapshot, Zero
<1> QED
    BY <1>1, <1>4, <1>5, <1>6 DEF SnapshotInv

\* A status has all that was answered before it was asked for and nothing that has not
\* happened, however its reads and the records interleave (GetSnapshot, RecordDecided).
THEOREM StatisticsSnapshotBracketed == Spec => []SnapshotBracketed
<1>1. SnapshotInv => SnapshotBracketed
    BY DEF SnapshotInv
<1> QED
    BY <1>1, SnapshotStart, SnapshotStep, PTL DEF Spec

\* A status that follows an answered decision has a time of the last decision.
THEOREM StatisticsTimeOnceAnswered == Spec => []TimeOnceAnswered
<1>1. SnapshotInv => TimeOnceAnswered
    BY DEF SnapshotInv
<1> QED
    BY <1>1, SnapshotStart, SnapshotStep, PTL DEF Spec

\* What the next status may show beside this one.
Grown ==
    /\ \A a \in Actions : snapshot'.decidedBy[a] >= snapshot.decidedBy[a]
    /\ snapshot'.rejected >= snapshot.rejected
    /\ snapshot'.failed >= snapshot.failed
    /\ snapshot.lastAt # 0 => snapshot'.lastAt # 0

\* No status shows less than the one before it.
THEOREM StatisticsSnapshotsGrow == Spec => SnapshotsGrow
<1>1. ASSUME SnapshotInv, ReturnSnapshot PROVE Grown
    <2>1. SnapshotTypes
        BY <1>1, TypesOfSnapshots DEF SnapshotInv
    <2>2. /\ \A a \in Actions : snapshot.decidedBy[a] <= reading.decidedBy[a]
          /\ snapshot.rejected <= reading.rejected /\ snapshot.failed <= failed
          /\ snapshot.lastAt # 0 => reading.lastAt # 0
        BY <1>1, Returned DEF SnapshotInv, PreviousInv
    <2> QED
        BY <1>1, <2>1, <2>2, Returned DEF Grown, SnapshotTypes
<1>2. SnapshotInv /\ [Next]_vars => [Grown]_snapshot
    <2> SUFFICES ASSUME SnapshotInv, [Next]_vars, snapshot' # snapshot PROVE ReturnSnapshot
        BY <1>1
    <2> QED
        BY DEF Next, Record, GetSnapshot, Decided, Increment, Stamp, Reject, Fail, Tick,
               BeginSnapshot, ReadCount, ReadTime, ReadRejected, vars, readers
<1>3. Spec => [][Grown]_snapshot
    BY <1>2, SnapshotStart, SnapshotStep, PTL DEF Spec
<1> QED
    BY <1>3 DEF SnapshotsGrow, Grown
=============================================================================
