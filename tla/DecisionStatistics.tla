--------------------------- MODULE DecisionStatistics ---------------------------
(***************************************************************************)
(* The decision statistics of the backend (ControlDecisionStatistics.cs):   *)
(* request threads record how their decision ended, a status request reads  *)
(* a snapshot.  Nothing is locked: a decision is recorded in two            *)
(* interlocked operations (its count, then its time) and a snapshot is read *)
(* counter by counter, so a snapshot need not be a state the statistics     *)
(* ever had.  One action here is one interlocked operation.                 *)
(*                                                                          *)
(* NativeGateway says which outcome a request has and counts it in one      *)
(* step; here the outcome is any and the steps are apart.                   *)
(***************************************************************************)
EXTENDS Naturals, Sequences, FiniteSets

CONSTANTS
    Recorders,      \* request threads that decide
    ActionOrder,    \* the actions in the order of the enumeration ControlAction
    NoAction,       \* the thread is not recording a decision
    MaxRequests,    \* bound: requests recorded
    MaxTime,        \* bound: last value of the clock
    MaxSnapshots    \* bound: snapshots returned

Actions == {ActionOrder[i] : i \in DOMAIN ActionOrder}

ASSUME StatisticsAssumption ==
    /\ IsFiniteSet(Recorders)
    /\ ActionOrder \in Seq(Actions)
    /\ NoAction \notin Actions
    /\ {MaxRequests, MaxTime, MaxSnapshots} \subseteq Nat

VARIABLES
    now,        \* TimeProvider.GetUtcNow(), in ticks, never 0
    decidedBy,  \* _decidedByAction
    rejected,   \* _rejected
    failed,     \* _failed
    lastAt,     \* _lastDecisionAtUtcTicks, 0 before the first decision
    action,     \* the decision a thread is recording, or NoAction
    stamping,   \* the thread has counted its decision and not yet stored its time
    at,         \* the time a thread has read for its decision
    requests,   \* requests recorded or being recorded
    reading,    \* what the running GetSnapshot has read
    position,   \* its next read: a place of ActionOrder, or one of the three below
    snapshot,   \* the snapshot returned last
    snapshots,  \* snapshots returned
    answered,   \* history: the decisions whose request has its answer, by action
    floor       \* history: what was recorded and answered when GetSnapshot began

counters  == <<decidedBy, rejected, failed, lastAt>>
recorders == <<action, stamping, at, requests, answered>>
readers   == <<reading, position, snapshot, snapshots, floor>>
vars      == <<now, counters, recorders, readers>>

Zero == [a \in Actions |-> 0]

EmptySnapshot == [decidedBy |-> Zero, lastAt |-> 0, rejected |-> 0, failed |-> 0]

\* Positions of GetSnapshot: the counts of the actions are the places of ActionOrder.
NoRead       == 0
ReadsTime    == Len(ActionOrder) + 1
ReadsRejected == Len(ActionOrder) + 2
ReadsFailed  == Len(ActionOrder) + 3

Init ==
    /\ now = 1
    /\ decidedBy = Zero /\ rejected = 0 /\ failed = 0 /\ lastAt = 0
    /\ action = [t \in Recorders |-> NoAction]
    /\ stamping = [t \in Recorders |-> FALSE]
    /\ at = [t \in Recorders |-> 0]
    /\ requests = 0
    /\ answered = Zero
    /\ reading = EmptySnapshot /\ position = NoRead
    /\ snapshot = EmptySnapshot /\ snapshots = 0
    /\ floor = EmptySnapshot
-----------------------------------------------------------------------------
(***************************************************************************)
(* InstrumentedControllerGateway.Decide.                                    *)
(***************************************************************************)
Idle(t) == action[t] = NoAction

StartRequest(t) ==
    /\ Idle(t)
    /\ requests < MaxRequests
    /\ requests' = requests + 1

\* The controller has decided, and the time of the decision is read before
\* RecordDecided is called with it.
Decided(t) ==
    /\ StartRequest(t)
    /\ \E a \in Actions : action' = [action EXCEPT ![t] = a]
    /\ at' = [at EXCEPT ![t] = now]
    /\ UNCHANGED <<now, counters, stamping, answered, readers>>

\* Mutant: the count is read and written back, so one of two at once is lost.
IncrementPlain(t) ==
    /\ ~Idle(t) /\ ~stamping[t]
    /\ decidedBy' = IF \E u \in Recorders : stamping[u] /\ action[u] = action[t]
                    THEN decidedBy
                    ELSE [decidedBy EXCEPT ![action[t]] = @ + 1]
    /\ stamping' = [stamping EXCEPT ![t] = TRUE]
    /\ UNCHANGED <<now, rejected, failed, lastAt, action, at, requests, answered, readers>>

\* RecordDecided, Interlocked.Increment.
Increment(t) ==
    /\ ~Idle(t) /\ ~stamping[t]
    /\ decidedBy' = [decidedBy EXCEPT ![action[t]] = @ + 1]
    /\ stamping' = [stamping EXCEPT ![t] = TRUE]
    /\ UNCHANGED <<now, rejected, failed, lastAt, action, at, requests, answered, readers>>

\* Mutant: a thread that meets another one leaves the time to it.
StampIfAlone(t) ==
    /\ stamping[t]
    /\ lastAt' = IF \E u \in Recorders \ {t} : stamping[u] THEN lastAt ELSE at[t]
    /\ action' = [action EXCEPT ![t] = NoAction]
    /\ stamping' = [stamping EXCEPT ![t] = FALSE]
    /\ answered' = [answered EXCEPT ![action[t]] = @ + 1]
    /\ UNCHANGED <<now, decidedBy, rejected, failed, at, requests, readers>>

\* RecordDecided, Interlocked.Exchange; the request gets its answer.
Stamp(t) ==
    /\ stamping[t]
    /\ lastAt' = at[t]
    /\ action' = [action EXCEPT ![t] = NoAction]
    /\ stamping' = [stamping EXCEPT ![t] = FALSE]
    /\ answered' = [answered EXCEPT ![action[t]] = @ + 1]
    /\ UNCHANGED <<now, decidedBy, rejected, failed, at, requests, readers>>

\* RecordRejected and RecordFailed are one operation, and the answer follows.
Reject(t) ==
    /\ StartRequest(t)
    /\ rejected' = rejected + 1
    /\ UNCHANGED <<now, decidedBy, failed, lastAt, action, stamping, at, answered, readers>>

Fail(t) ==
    /\ StartRequest(t)
    /\ failed' = failed + 1
    /\ UNCHANGED <<now, decidedBy, rejected, lastAt, action, stamping, at, answered, readers>>

Tick ==
    /\ now < MaxTime
    /\ now' = now + 1
    /\ UNCHANGED <<counters, recorders, readers>>
-----------------------------------------------------------------------------
(***************************************************************************)
(* ControlDecisionStatistics.GetSnapshot, called for a status request.      *)
(***************************************************************************)
\* Mutant: the counts by action are kept from the first snapshot.
BeginSnapshotCached ==
    /\ position = NoRead
    /\ snapshots < MaxSnapshots
    /\ position' = IF snapshots = 0 THEN 1 ELSE ReadsTime
    /\ floor' = [decidedBy |-> answered, lastAt |-> lastAt,
                 rejected |-> rejected, failed |-> failed]
    /\ UNCHANGED <<now, counters, recorders, reading, snapshot, snapshots>>

BeginSnapshot ==
    /\ position = NoRead
    /\ snapshots < MaxSnapshots
    /\ position' = 1
    /\ reading' = EmptySnapshot
    /\ floor' = [decidedBy |-> answered, lastAt |-> lastAt,
                 rejected |-> rejected, failed |-> failed]
    /\ UNCHANGED <<now, counters, recorders, snapshot, snapshots>>

ReadCount ==
    /\ position \in DOMAIN ActionOrder
    /\ LET a == ActionOrder[position]
       IN reading' = [reading EXCEPT !.decidedBy[a] = decidedBy[a]]
    /\ position' = position + 1
    /\ UNCHANGED <<now, counters, recorders, snapshot, snapshots, floor>>

ReadTime ==
    /\ position = ReadsTime
    /\ reading' = [reading EXCEPT !.lastAt = lastAt]
    /\ position' = position + 1
    /\ UNCHANGED <<now, counters, recorders, snapshot, snapshots, floor>>

ReadRejected ==
    /\ position = ReadsRejected
    /\ reading' = [reading EXCEPT !.rejected = rejected]
    /\ position' = position + 1
    /\ UNCHANGED <<now, counters, recorders, snapshot, snapshots, floor>>

\* Mutant: a status takes the failures out of the counter.
ReturnSnapshotTaking ==
    /\ position = ReadsFailed
    /\ snapshot' = [reading EXCEPT !.failed = failed]
    /\ failed' = 0
    /\ snapshots' = snapshots + 1
    /\ position' = NoRead
    /\ UNCHANGED <<now, decidedBy, rejected, lastAt, recorders, reading, floor>>

\* The last read, and the record that is returned.
ReturnSnapshot ==
    /\ position = ReadsFailed
    /\ snapshot' = [reading EXCEPT !.failed = failed]
    /\ snapshots' = snapshots + 1
    /\ position' = NoRead
    /\ UNCHANGED <<now, counters, recorders, reading, floor>>
-----------------------------------------------------------------------------
Record(t) == Decided(t) \/ Increment(t) \/ Stamp(t) \/ Reject(t) \/ Fail(t)

GetSnapshot == BeginSnapshot \/ ReadCount \/ ReadTime \/ ReadRejected \/ ReturnSnapshot

Next == (\E t \in Recorders : Record(t)) \/ Tick \/ GetSnapshot

Spec == Init /\ [][Next]_vars
-----------------------------------------------------------------------------
(***************************************************************************)
(* Properties.                                                              *)
(***************************************************************************)
Snapshots == [decidedBy : [Actions -> Nat], lastAt : Nat, rejected : Nat, failed : Nat]

\* Types of the counters and of the snapshots, and the clock is never 0, which the
\* snapshot takes for "no decision" (ControlDecisionStatistics.GetSnapshot).
TypeOK ==
    /\ now \in Nat \ {0}
    /\ decidedBy \in [Actions -> Nat] /\ {rejected, failed, lastAt} \subseteq Nat
    /\ action \in [Recorders -> Actions \cup {NoAction}]
    /\ stamping \in [Recorders -> BOOLEAN]
    /\ at \in [Recorders -> Nat]
    /\ \A t \in Recorders : stamping[t] => ~Idle(t)
    /\ \A t \in Recorders : ~Idle(t) => at[t] # 0
    /\ {requests, snapshots} \subseteq Nat
    /\ answered \in [Actions -> Nat]
    /\ reading \in Snapshots /\ snapshot \in Snapshots /\ floor \in Snapshots
    /\ position \in 0..ReadsFailed

\* Every decision between its count and its time is one recorder, and no count is
\* lost to a concurrent one: RecordDecided of two threads at once adds two.
CountsExact ==
    \A a \in Actions :
        decidedBy[a] = answered[a]
                       + Cardinality({t \in Recorders : stamping[t] /\ action[t] = a})

\* A snapshot has every outcome that was answered before the status request came and
\* none that has not happened when it is answered, whatever was recorded meanwhile.
SnapshotBracketed ==
    position = NoRead =>
        /\ \A a \in Actions : snapshot.decidedBy[a] \in floor.decidedBy[a]..decidedBy[a]
        /\ snapshot.rejected \in floor.rejected..rejected
        /\ snapshot.failed \in floor.failed..failed

\* The status shows a time of the last decision once a decision was answered, also
\* when the counters are read while others are written.
TimeOnceAnswered ==
    position = NoRead =>
        ((\E a \in Actions : floor.decidedBy[a] > 0) => snapshot.lastAt # 0)

\* Two statuses asked for one after the other never show fewer decisions, rejections or
\* failures in the second, nor a time of the last decision only in the first.
SnapshotsGrow ==
    [][ /\ \A a \in Actions : snapshot'.decidedBy[a] >= snapshot.decidedBy[a]
        /\ snapshot'.rejected >= snapshot.rejected
        /\ snapshot'.failed >= snapshot.failed
        /\ snapshot.lastAt # 0 => snapshot'.lastAt # 0 ]_snapshot
=============================================================================
