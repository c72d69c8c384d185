-------------------------- MODULE NativeGatewayProofs --------------------------
(***************************************************************************)
(* The native controller behind the gateway, for any number of threads and   *)
(* of requests: it is never used after it was destroyed, it has one life, and *)
(* every request is answered with a reason of its own.                        *)
(***************************************************************************)
EXTENDS NativeGateway, FiniteSetTheorems, TLAPS

\* Who owns what.  Only the creator creates, and only before there is a gateway; the
\* owner's reference is given up exactly when the handle is closed; a thread holds a
\* reference exactly during its call; and the controller lives exactly as long as
\* somebody holds a reference.
Creation ==
    /\ \A t \in Threads : pc[t] \in {"create", "capture"} <=> creator = t
    /\ creator # NoThread => gateway = "none" /\ ~closed
    /\ \A t \in Threads : pc[t] \in {"check", "acquire", "native", "release"} =>
                                gateway = "created"

References ==
    /\ \A t \in Threads : t \in holders <=> pc[t] \in {"native", "release"}
    /\ Owner \in holders <=> \/ gateway = "created" /\ ~closed
                            \/ \E t \in Threads : pc[t] = "capture"
    /\ controllers = IF holders = {} THEN 0 ELSE 1

Disposal ==
    /\ closed => provider # "open"
    /\ provider = "disposing" => gateway = "created" /\ ~closed

HandleInv == TypeOK /\ Creation /\ References /\ Disposal

\* What the type invariant says of the state that HandleInv is about.
HandleTypes ==
    /\ provider \in {"open", "disposing", "disposed"}
    /\ gateway \in {"none", "created"}
    /\ creator \in Threads \cup {NoThread}
    /\ closed \in BOOLEAN
    /\ holders \subseteq Threads \cup {Owner}
    /\ pc \in [Threads -> Labels]

-----------------------------------------------------------------------------
(* The two ways a request leaves the resolution of the gateway.              *)

\* A resolved gateway sends a request to the check of the handle or to its answer.
LEMMA ResolvedGoes ==
    ASSUME NEW t \in Threads, TypeOK, Resolved(t)
    PROVE  /\ \E l \in {"check", "respond"} : pc' = [pc EXCEPT ![t] = l]
           /\ answer' \in [Threads -> [kind: Kinds, reason: Reasons]]
<1>1. NoReason \in Reasons
    BY DEF NoReason, Reasons
<1>2. Answer("Healthy") \in [kind: Kinds, reason: Reasons]
    BY <1>1 DEF Answer, Kinds
<1>3. CASE request[t] \in {"ready", "status"}
    <2>1. Reply(t, Answer("Healthy"))
        BY <1>3 DEF Resolved
    <2> QED
        BY <2>1, <1>2 DEF Reply, Goto, TypeOK
<1>4. CASE request[t] \notin {"ready", "status"}
    <2>1. Goto(t, "check") /\ UNCHANGED answer
        BY <1>4 DEF Resolved
    <2> QED
        BY <2>1 DEF Goto, TypeOK
<1> QED
    BY <1>3, <1>4

\* A resolution that fails is answered.
LEMMA ResolutionFailsGoes ==
    ASSUME NEW t \in Threads, TypeOK, ResolutionFails(t)
    PROVE  /\ pc' = [pc EXCEPT ![t] = "respond"]
           /\ answer' \in [Threads -> [kind: Kinds, reason: Reasons]]
<1>1. NoReason \in Reasons
    BY DEF NoReason, Reasons
<1>2. \A k \in {"Unhealthy", "Degraded", "Unavailable"} :
          Answer(k) \in [kind: Kinds, reason: Reasons]
    BY <1>1 DEF Answer, Kinds
<1>3. \E k \in {"Unhealthy", "Degraded", "Unavailable"} : Reply(t, Answer(k))
    <2>1. CASE request[t] = "ready"
        BY <2>1 DEF ResolutionFails
    <2>2. CASE request[t] = "status"
        BY <2>2 DEF ResolutionFails
    <2>3. CASE request[t] \notin {"ready", "status"}
        BY <2>3 DEF ResolutionFails
    <2> QED
        BY <2>1, <2>2, <2>3
<1> QED
    BY <1>2, <1>3 DEF Reply, Goto, TypeOK

\* Giving up a reference keeps the controller alive exactly while another is held.
LEMMA ReleaseCounts ==
    ASSUME NEW who, who \in holders, Release(who),
           controllers = IF holders = {} THEN 0 ELSE 1
    PROVE  /\ holders' = holders \ {who}
           /\ controllers' = IF holders' = {} THEN 0 ELSE 1
<1>1. CASE holders = {who}
    BY <1>1 DEF Release
<1>2. CASE holders # {who}
    <2>1. holders' # {}
        BY <1>2 DEF Release
    <2>2. controllers = 1
        BY <1>2
    <2> QED
        BY <1>2, <2>1, <2>2 DEF Release
<1> QED
    BY <1>1, <1>2

-----------------------------------------------------------------------------
(* The steps of a request.                                                   *)

handle == <<provider, gateway, creator, controllers, closed, holders>>

\* A thread that goes on, or changes nothing but its own place, disturbs no one's
\* ownership as long as it does not enter or leave the creation or the call.
LEMMA LocalStep ==
    ASSUME HandleTypes, Creation, References, Disposal,
           NEW t \in Threads, NEW l,
           pc' = [pc EXCEPT ![t] = l],
           pc[t] \notin {"create", "capture"}, l \notin {"create", "capture"},
           l \in {"check", "acquire", "native", "release"} => gateway = "created",
           l \in {"native", "release"} <=> pc[t] \in {"native", "release"},
           UNCHANGED handle
    PROVE  Creation' /\ References' /\ Disposal'
<1>1. \A u \in Threads : u # t => pc'[u] = pc[u]
    BY DEF HandleTypes
<1>2. pc'[t] = l
    BY DEF HandleTypes
<1>3. Creation'
    BY <1>1, <1>2 DEF Creation, handle
<1>4. References'
    <2>1. (\E u \in Threads : pc'[u] = "capture") <=> (\E u \in Threads : pc[u] = "capture")
        BY <1>1, <1>2
    <2>2. \A u \in Threads : u \in holders' <=> pc'[u] \in {"native", "release"}
        BY <1>1, <1>2 DEF References, handle
    <2> QED
        BY <2>1, <2>2 DEF References, handle
<1>5. Disposal'
    BY DEF Disposal, handle
<1> QED
    BY <1>3, <1>4, <1>5

\* The part of the type invariant that the ownership needs.
LEMMA TypesOfHandle == TypeOK => HandleTypes
    BY DEF TypeOK, HandleTypes

\* A request arrives.
LEMMA ReceiveKeeps ==
    ASSUME HandleInv, NEW t \in Threads, NEW r \in Request, Receive(t, r)
    PROVE  HandleInv'
<1> USE DEF HandleInv
<1>1. NoReason \in Reasons
    BY DEF NoReason, Reasons
<1>2. /\ \E l \in {"respond", "resolve"} : pc' = [pc EXCEPT ![t] = l]
      /\ answer' \in [Threads -> [kind: Kinds, reason: Reasons]]
    <2>1. CASE r = "malformed"
        <3>1. Answer("InvalidBody") \in [kind: Kinds, reason: Reasons]
            BY <1>1 DEF Answer, Kinds
        <3> QED
            BY <2>1, <3>1 DEF Receive, Reply, Goto, TypeOK
    <2>2. CASE r # "malformed"
        <3>1. NoAnswer \in [kind: Kinds, reason: Reasons]
            BY <1>1 DEF NoAnswer, Kinds
        <3> QED
            BY <2>2, <3>1 DEF Receive, Goto, TypeOK
    <2> QED
        BY <2>1, <2>2
<1>3. TypeOK'
    <2>1. received' \in 0 .. MaxRequests
        BY GatewayAssumption DEF Receive, TypeOK
    <2>2. pc' \in [Threads -> Labels]
        BY <1>2 DEF TypeOK, Labels
    <2>3. request' \in [Threads -> Request \cup {NoRequest}]
        BY DEF Receive, TypeOK
    <2>4. reason' \in [Threads -> Reasons]
        BY <1>1 DEF Receive, TypeOK
    <2>5. status' \in [Threads -> {"Ok", "InvalidMeasurement", "InternalError", "Disposed"}]
        BY DEF Receive, TypeOK
    <2> QED
        BY <1>2, <2>1, <2>2, <2>3, <2>4, <2>5
        DEF Receive, TypeOK, service, native
<1>4. pc[t] = "idle" /\ UNCHANGED handle
    BY DEF Receive, service, native, handle
<1>5. PICK l \in {"respond", "resolve"} : pc' = [pc EXCEPT ![t] = l]
    BY <1>2
<1>6. Creation' /\ References' /\ Disposal'
    BY <1>4, <1>5, LocalStep, TypesOfHandle
<1> QED
    BY <1>3, <1>6

\* The resolution: answered, passed on, or a creation begins.
LEMMA ResolveKeeps ==
    ASSUME HandleInv, NEW t \in Threads, Resolve(t)
    PROVE  HandleInv'
<1> USE DEF HandleInv
<1>1. CASE provider # "open" /\ ResolutionFails(t) /\ UNCHANGED creator
    <2>1. /\ pc' = [pc EXCEPT ![t] = "respond"]
          /\ answer' \in [Threads -> [kind: Kinds, reason: Reasons]]
        BY <1>1, ResolutionFailsGoes
    <2>2. pc[t] = "resolve" /\ UNCHANGED handle
        BY <1>1 DEF Resolve, native, handle
    <2>3. TypeOK'
        BY <1>1, <2>1 DEF Resolve, TypeOK, native, tallies, Labels
    <2> QED
        BY <2>1, <2>2, <2>3, LocalStep, TypesOfHandle
<1>2. CASE provider = "open" /\ gateway = "created" /\ Resolved(t) /\ UNCHANGED creator
    <2>1. PICK l \in {"check", "respond"} : pc' = [pc EXCEPT ![t] = l]
        BY <1>2, ResolvedGoes
    <2>2. answer' \in [Threads -> [kind: Kinds, reason: Reasons]]
        BY <1>2, ResolvedGoes
    <2>3. pc[t] = "resolve" /\ UNCHANGED handle
        BY <1>2 DEF Resolve, native, handle
    <2>4. TypeOK'
        BY <1>2, <2>1, <2>2 DEF Resolve, TypeOK, native, tallies, Labels
    <2> QED
        BY <1>2, <2>1, <2>3, <2>4, LocalStep, TypesOfHandle
<1>3. CASE /\ provider = "open" /\ gateway = "none" /\ creator = NoThread
           /\ creator' = t
           /\ Goto(t, "create")
           /\ UNCHANGED answer
    <2>1. pc' = [pc EXCEPT ![t] = "create"] /\ pc[t] = "resolve"
        BY <1>3 DEF Goto, Resolve
    <2>2. UNCHANGED <<provider, gateway, controllers, closed, holders>>
        BY DEF Resolve, native
    <2>3. TypeOK'
        BY <1>3, <2>1 DEF Resolve, TypeOK, native, tallies, Labels
    <2>4. \A u \in Threads : u # t => pc'[u] = pc[u]
        BY <2>1 DEF TypeOK
    <2>5. pc'[t] = "create"
        BY <2>1 DEF TypeOK
    <2>6. Creation'
        BY <1>3, <2>1, <2>2, <2>4, <2>5, GatewayAssumption DEF Creation, Disposal, TypeOK
    <2>7. References'
        <3>1. (\E u \in Threads : pc'[u] = "capture") <=> (\E u \in Threads : pc[u] = "capture")
            BY <2>1, <2>4, <2>5
        <3>2. \A u \in Threads : u \in holders' <=> pc'[u] \in {"native", "release"}
            BY <2>1, <2>2, <2>4, <2>5 DEF References
        <3> QED
            BY <2>2, <3>1, <3>2 DEF References
    <2>8. Disposal'
        BY <2>2 DEF Disposal
    <2> QED
        BY <2>3, <2>6, <2>7, <2>8
<1> QED
    BY <1>1, <1>2, <1>3 DEF Resolve

\* The creation: a controller with the owner's reference, or a failure that gives
\* the lock back.
LEMMA CreateKeeps ==
    ASSUME HandleInv, NEW t \in Threads, Create(t)
    PROVE  HandleInv'
<1> USE DEF HandleInv
<1>1. pc[t] = "create" /\ creator = t /\ gateway = "none" /\ ~closed
    BY GatewayAssumption DEF Create, Creation
<1>2. holders = {}
    BY <1>1 DEF Creation, References, TypeOK
<1>3. UNCHANGED <<provider, gateway, closed>>
    BY DEF Create
<1>4. CASE /\ controllers' = controllers + 1
           /\ holders' = {Owner}
           /\ lastError' = [lastError EXCEPT ![t] = NoError]
           /\ Goto(t, "capture")
           /\ UNCHANGED <<creator, answer>>
    <2>1. pc' = [pc EXCEPT ![t] = "capture"] /\ creator' = t
        BY <1>1, <1>4 DEF Goto
    <2>2. pc'[t] = "capture" /\ \A u \in Threads : u # t => pc'[u] = pc[u]
        BY <2>1 DEF TypeOK
    <2>3. controllers' = 1
        BY <1>2, <1>4 DEF References
    <2>4. TypeOK'
        BY <1>4, <2>1, <2>3 DEF Create, TypeOK, tallies, Labels
    <2>5. Creation'
        BY <1>1, <1>3, <2>1, <2>2, GatewayAssumption DEF Creation
    <2>6. References'
        <3>1. \A u \in Threads : u \in holders' <=> pc'[u] \in {"native", "release"}
            BY <1>1, <1>2, <1>4, <2>2, GatewayAssumption DEF References
        <3>2. Owner \in holders' /\ \E u \in Threads : pc'[u] = "capture"
            BY <1>4, <2>2
        <3> QED
            BY <1>4, <2>3, <3>1, <3>2 DEF References
    <2>7. Disposal'
        BY <1>3 DEF Disposal
    <2> QED
        BY <2>4, <2>5, <2>6, <2>7
<1>5. CASE /\ lastError' \in [Threads -> Errors \cup {NoError}]
           /\ creator' = NoThread
           /\ ResolutionFails(t)
           /\ UNCHANGED <<controllers, holders>>
    <2>1. /\ pc' = [pc EXCEPT ![t] = "respond"]
          /\ answer' \in [Threads -> [kind: Kinds, reason: Reasons]]
        BY <1>5, ResolutionFailsGoes
    <2>2. pc'[t] = "respond" /\ \A u \in Threads : u # t => pc'[u] = pc[u]
        BY <2>1 DEF TypeOK
    <2>3. TypeOK'
        BY <1>5, <2>1 DEF Create, TypeOK, tallies, Labels
    <2>4. Creation'
        BY <1>1, <1>3, <1>5, <2>2, GatewayAssumption DEF Creation
    <2>5. References'
        <3>1. \A u \in Threads : u \in holders' <=> pc'[u] \in {"native", "release"}
            BY <1>1, <1>5, <2>2 DEF References
        <3>2. Owner \notin holders' /\ \A u \in Threads : pc'[u] # "capture"
            BY <1>1, <1>2, <1>5, <2>2 DEF Creation
        <3> QED
            BY <1>1, <1>3, <1>5, <3>1, <3>2 DEF References
    <2>6. Disposal'
        BY <1>3 DEF Disposal
    <2> QED
        BY <2>3, <2>4, <2>5, <2>6
<1>6. \A error \in {"limits", "internal", NoError} :
          [lastError EXCEPT ![t] = error] \in [Threads -> Errors \cup {NoError}]
    BY DEF TypeOK, Errors
<1>7. CASE library = "current"
    BY <1>4, <1>5, <1>6, <1>7 DEF Create
<1>8. CASE library # "current"
    BY <1>5, <1>8 DEF Create, TypeOK
<1> QED
    BY <1>7, <1>8

\* The new singleton is kept, or disposed when the container is gone.
LEMMA CaptureKeeps ==
    ASSUME HandleInv, NEW t \in Threads, Capture(t)
    PROVE  HandleInv'
<1> USE DEF HandleInv
<1>1. pc[t] = "capture" /\ creator = t /\ gateway = "none" /\ ~closed
    BY GatewayAssumption DEF Capture, Creation
<1>2. holders = {Owner}
    <2>1. Owner \in holders
        BY <1>1 DEF References
    <2>2. \A u \in Threads : u \notin holders
        BY <1>1 DEF Creation, References
    <2> QED
        BY <2>1, <2>2 DEF TypeOK
<1>3. provider' = provider /\ creator' = NoThread
    BY DEF Capture
<1>4. CASE /\ provider = "open"
           /\ gateway' = "created"
           /\ Resolved(t)
           /\ UNCHANGED <<controllers, closed, holders>>
    <2>1. PICK l \in {"check", "respond"} : pc' = [pc EXCEPT ![t] = l]
        BY <1>4, ResolvedGoes
    <2>2. answer' \in [Threads -> [kind: Kinds, reason: Reasons]]
        BY <1>4, ResolvedGoes
    <2>3. pc'[t] = l /\ \A u \in Threads : u # t => pc'[u] = pc[u]
        BY <2>1 DEF TypeOK
    <2>4. TypeOK'
        BY <1>4, <2>1, <2>2 DEF Capture, TypeOK, tallies, Labels
    <2>5. Creation'
        BY <1>1, <1>3, <1>4, <2>3, GatewayAssumption DEF Creation
    <2>6. References'
        <3>1. \A u \in Threads : u \in holders' <=> pc'[u] \in {"native", "release"}
            BY <1>1, <1>4, <2>3 DEF References
        <3> QED
            BY <1>1, <1>2, <1>4, <3>1 DEF References
    <2>7. Disposal'
        BY <1>1, <1>3, <1>4 DEF Disposal
    <2> QED
        BY <2>4, <2>5, <2>6, <2>7
<1>5. CASE /\ provider # "open"
           /\ closed' = TRUE
           /\ Release(Owner)
           /\ ResolutionFails(t)
           /\ UNCHANGED gateway
    <2>1. /\ pc' = [pc EXCEPT ![t] = "respond"]
          /\ answer' \in [Threads -> [kind: Kinds, reason: Reasons]]
        BY <1>5, ResolutionFailsGoes
    <2>2. pc'[t] = "respond" /\ \A u \in Threads : u # t => pc'[u] = pc[u]
        BY <2>1 DEF TypeOK
    <2>3. /\ holders' = {}
          /\ controllers' = 0
        BY <1>2, <1>5, ReleaseCounts DEF References
    <2>4. TypeOK'
        BY <1>5, <2>1, <2>3 DEF Capture, TypeOK, tallies, Labels
    <2>5. Creation'
        BY <1>1, <1>3, <1>5, <2>2, GatewayAssumption DEF Creation
    <2>6. References'
        <3>1. \A u \in Threads : pc'[u] \notin {"native", "release", "capture"}
            BY <1>1, <2>2 DEF Creation
        <3> QED
            BY <1>5, <2>3, <3>1 DEF References
    <2>7. Disposal'
        BY <1>1, <1>3, <1>5 DEF Disposal
    <2> QED
        BY <2>4, <2>5, <2>6, <2>7
<1> QED
    BY <1>4, <1>5 DEF Capture

\* The check of the closed flag.
LEMMA CheckOpenKeeps ==
    ASSUME HandleInv, NEW t \in Threads, CheckOpen(t)
    PROVE  HandleInv'
<1> USE DEF HandleInv
<1>1. pc[t] = "check" /\ gateway = "created" /\ UNCHANGED handle
    BY DEF CheckOpen, Creation, service, native, handle
<1>2. PICK l \in {"count", "acquire"} : pc' = [pc EXCEPT ![t] = l]
    BY DEF CheckOpen, Goto
<1>3. TypeOK'
    BY <1>2 DEF CheckOpen, TypeOK, service, native, tallies, Labels
<1> QED
    BY <1>1, <1>2, <1>3, LocalStep, TypesOfHandle

\* A reference for the call: the owner's is still there, because the handle is open.
LEMMA AcquireKeeps ==
    ASSUME HandleInv, NEW t \in Threads, Acquire(t)
    PROVE  HandleInv'
<1> USE DEF HandleInv
<1>1. pc[t] = "acquire" /\ gateway = "created"
    BY DEF Acquire, Creation
<1>2. UNCHANGED <<service, controllers, closed>>
    BY DEF Acquire
<1>3. CASE closed
    <2>1. pc' = [pc EXCEPT ![t] = "count"] /\ UNCHANGED handle
        BY <1>2, <1>3 DEF Acquire, Goto, service, handle
    <2>2. TypeOK'
        BY <1>3, <2>1 DEF Acquire, TypeOK, service, tallies, Labels
    <2> QED
        BY <1>1, <2>1, <2>2, LocalStep, TypesOfHandle
<1>4. CASE ~closed
    <2>1. pc' = [pc EXCEPT ![t] = "native"] /\ holders' = holders \cup {t}
        BY <1>4 DEF Acquire, Goto
    <2>2. pc'[t] = "native" /\ \A u \in Threads : u # t => pc'[u] = pc[u]
        BY <2>1 DEF TypeOK
    <2>3. TypeOK'
        BY <1>4, <2>1 DEF Acquire, TypeOK, service, tallies, Labels
    <2>4. Creation'
        BY <1>1, <1>2, <2>2 DEF Creation, service
    <2>5. References'
        <3>1. \A u \in Threads : u \in holders' <=> pc'[u] \in {"native", "release"}
            BY <1>1, <2>1, <2>2 DEF References
        <3>2. (\E u \in Threads : pc'[u] = "capture") <=> (\E u \in Threads : pc[u] = "capture")
            BY <1>1, <2>2
        <3>3. Owner \in holders /\ holders' # {}
            BY <1>1, <1>4, <2>1 DEF References
        <3>4. Owner \in holders' <=> Owner \in holders
            BY <2>1, GatewayAssumption
        <3> QED
            BY <1>2, <3>1, <3>2, <3>3, <3>4 DEF References, service
    <2>6. Disposal'
        BY <1>2 DEF Disposal, service
    <2> QED
        BY <2>3, <2>4, <2>5, <2>6
<1> QED
    BY <1>3, <1>4

\* The call itself disturbs nobody's reference.
LEMMA NativeDecideKeeps ==
    ASSUME HandleInv, NEW t \in Threads, NativeDecide(t)
    PROVE  HandleInv'
<1> USE DEF HandleInv
<1>1. pc[t] = "native" /\ gateway = "created" /\ UNCHANGED handle
    BY DEF NativeDecide, Creation, service, handle
<1>2. pc' = [pc EXCEPT ![t] = "release"]
    BY DEF NativeDecide, Goto
<1>3. /\ lastError' \in [Threads -> Errors \cup {NoError}]
      /\ status' \in [Threads -> {"Ok", "InvalidMeasurement", "InternalError", "Disposed"}]
    <2>1. ASSUME NEW code \in {"InvalidMeasurement", "InternalError"},
                 NEW error \in Errors, FailsWith(t, code, error)
          PROVE  /\ lastError' \in [Threads -> Errors \cup {NoError}]
                 /\ status' \in [Threads -> {"Ok", "InvalidMeasurement", "InternalError", "Disposed"}]
        BY <2>1 DEF FailsWith, TypeOK
    <2>2. request[t] \in Rules => request[t] \in Errors
        BY DEF Errors
    <2>3. "internal" \in Errors
        BY DEF Errors
    <2> QED
        BY <2>1, <2>2, <2>3 DEF NativeDecide, TypeOK
<1>4. TypeOK'
    BY <1>2, <1>3 DEF NativeDecide, TypeOK, service, tallies, Labels
<1> QED
    BY <1>1, <1>2, <1>4, LocalStep, TypesOfHandle

\* The reference of the call is given back; the controller goes with the last one.
LEMMA ReleaseHandleKeeps ==
    ASSUME HandleInv, NEW t \in Threads, ReleaseHandle(t)
    PROVE  HandleInv'
<1> USE DEF HandleInv
<1>1. pc[t] = "release" /\ gateway = "created" /\ t \in holders
    BY DEF ReleaseHandle, Creation, References
<1>2. /\ holders' = holders \ {t}
      /\ controllers' = IF holders' = {} THEN 0 ELSE 1
    BY <1>1, ReleaseCounts DEF ReleaseHandle, References
<1>3. UNCHANGED <<service, closed>>
    BY DEF ReleaseHandle
<1>4. PICK l \in {"count", "explain"} : pc' = [pc EXCEPT ![t] = l]
    BY DEF ReleaseHandle, Goto
<1>5. pc'[t] = l /\ \A u \in Threads : u # t => pc'[u] = pc[u]
    BY <1>4 DEF TypeOK
<1>6. TypeOK'
    BY <1>2, <1>4 DEF ReleaseHandle, TypeOK, service, tallies, Labels
<1>7. Creation'
    BY <1>1, <1>3, <1>5 DEF Creation, service
<1>8. References'
    <2>1. \A u \in Threads : u \in holders' <=> pc'[u] \in {"native", "release"}
        BY <1>1, <1>2, <1>5 DEF References
    <2>2. (\E u \in Threads : pc'[u] = "capture") <=> (\E u \in Threads : pc[u] = "capture")
        BY <1>1, <1>5
    <2>3. Owner \in holders' <=> Owner \in holders
        BY <1>2, GatewayAssumption
    <2> QED
        BY <1>2, <1>3, <2>1, <2>2, <2>3 DEF References, service
<1>9. Disposal'
    BY <1>3 DEF Disposal, service
<1> QED
    BY <1>6, <1>7, <1>8, <1>9

\* The length that is read back is a length.
LEMMA MessageTextNat ==
    ASSUME NEW r \in Rules
    PROVE  MessageText(MessageBytes[r]) \in Nat
<1>1. MessageBytes[r] \in Nat \ {0} /\ BufferSize \in Nat \ {0}
    BY GatewayAssumption
<1> QED
    BY <1>1 DEF MessageText, Copied, Smaller

\* Reading the reason touches the thread's own text only.
LEMMA ReadReasonKeeps ==
    ASSUME HandleInv, NEW t \in Threads, ReadReason(t)
    PROVE  HandleInv'
<1> USE DEF HandleInv
<1>1. pc[t] = "explain" /\ UNCHANGED handle
    BY DEF ReadReason, service, native, handle
<1>2. pc' = [pc EXCEPT ![t] = "count"]
    BY DEF ReadReason, Goto
<1>3. reason' \in [Threads -> Reasons]
    <2>1. lastError[t] \in Errors \cup {NoError}
        BY DEF TypeOK
    <2>2. ASSUME NEW b \in Nat
          PROVE  [reason EXCEPT ![t] = [rule |-> lastError[t], bytes |-> b]]
                     \in [Threads -> Reasons]
        BY <2>1 DEF TypeOK, Reasons
    <2>3. CASE lastError[t] \in Rules
        BY <2>2, <2>3, MessageTextNat DEF ReadReason
    <2>4. CASE lastError[t] \notin Rules
        BY <2>2, <2>4 DEF ReadReason
    <2> QED
        BY <2>3, <2>4
<1>4. TypeOK'
    BY <1>2, <1>3 DEF ReadReason, TypeOK, service, native, tallies, Labels
<1> QED
    BY <1>1, <1>2, <1>4, LocalStep, TypesOfHandle

\* The outcome is counted and answered.
LEMMA CountKeeps ==
    ASSUME HandleInv, NEW t \in Threads, Count(t)
    PROVE  HandleInv'
<1> USE DEF HandleInv
<1>1. pc[t] = "count" /\ UNCHANGED handle
    BY DEF Count, service, native, handle
<1>2. counted' \in [{"decided", "rejected", "failed"} -> Nat]
    <2>1. Outcome(status[t]) \in {"decided", "rejected", "failed"}
        BY DEF Outcome
    <2> HIDE DEF Outcome
    <2> QED
        BY <2>1 DEF Count, TypeOK
<1>3. /\ pc' = [pc EXCEPT ![t] = "respond"]
      /\ answer' \in [Threads -> [kind: Kinds, reason: Reasons]]
    <2>1. NoReason \in Reasons
        BY DEF NoReason, Reasons
    <2>2. \A k \in {"Decision", "ServerError"} : Answer(k) \in [kind: Kinds, reason: Reasons]
        BY <2>1 DEF Answer, Kinds
    <2>3. [kind |-> "BadRequest", reason |-> reason[t]] \in [kind: Kinds, reason: Reasons]
        BY DEF TypeOK, Kinds
    <2>4. PICK a \in [kind: Kinds, reason: Reasons] : Reply(t, a)
        BY <2>2, <2>3 DEF Count
    <2> QED
        BY <2>4 DEF Reply, Goto, TypeOK
<1>4. TypeOK'
    BY <1>2, <1>3 DEF Count, TypeOK, service, native, Labels
<1> QED
    BY <1>1, <1>3, <1>4, LocalStep, TypesOfHandle

\* The answer leaves.
LEMMA RespondKeeps ==
    ASSUME HandleInv, NEW t \in Threads, Respond(t)
    PROVE  HandleInv'
<1> USE DEF HandleInv
<1>1. pc[t] = "respond" /\ UNCHANGED handle
    BY DEF Respond, service, native, handle
<1>2. pc' = [pc EXCEPT ![t] = "idle"]
    BY DEF Respond, Goto
<1>3. answered' \in [{"Decision", "BadRequest", "ServerError", "Unavailable"} -> Nat]
    BY DEF Respond, TypeOK
<1>4. TypeOK'
    BY <1>2, <1>3 DEF Respond, TypeOK, service, native, Labels
<1> QED
    BY <1>1, <1>2, <1>4, LocalStep, TypesOfHandle

-----------------------------------------------------------------------------
(* The shutdown.                                                             *)

\* Stopping and the beginning of the disposal hold no reference and give none up.
LEMMA ShutdownKeeps ==
    ASSUME HandleInv, Stop \/ DisposeProvider
    PROVE  HandleInv'
<1> USE DEF HandleInv
<1>1. CASE Stop
    <2>1. TypeOK'
        BY <1>1 DEF Stop, TypeOK, native, local, tallies
    <2>2. Creation' /\ References' /\ Disposal'
        BY <1>1 DEF Stop, Creation, References, Disposal, native, local
    <2> QED
        BY <2>1, <2>2
<1>2. CASE DisposeProvider
    <2>1. TypeOK'
        BY <1>2 DEF DisposeProvider, TypeOK, native, local, tallies
    <2>2. Creation' /\ References'
        BY <1>2 DEF DisposeProvider, Creation, References, native, local
    <2>3. Disposal'
        BY <1>2 DEF DisposeProvider, Disposal, native
    <2> QED
        BY <2>1, <2>2, <2>3
<1> QED
    BY <1>1, <1>2

\* The owner's reference is given up; calls under way keep the controller.
LEMMA DisposeGatewayKeeps ==
    ASSUME HandleInv, DisposeGateway
    PROVE  HandleInv'
<1> USE DEF HandleInv
<1>1. gateway = "created" /\ ~closed /\ closed' = TRUE /\ provider' = "disposed"
    BY DEF DisposeGateway, Disposal
<1>2. creator = NoThread /\ \A u \in Threads : pc[u] # "capture"
    BY <1>1, GatewayAssumption DEF Creation, TypeOK
<1>3. Owner \in holders
    BY <1>1 DEF References
<1>4. /\ holders' = holders \ {Owner}
      /\ controllers' = IF holders' = {} THEN 0 ELSE 1
    BY <1>3, ReleaseCounts DEF DisposeGateway, References
<1>5. UNCHANGED <<library, accepting, gateway, creator, pc>>
    BY DEF DisposeGateway, local
<1>6. TypeOK'
    BY <1>1, <1>4, <1>5 DEF DisposeGateway, TypeOK, local, tallies
<1>7. Creation'
    BY <1>2, <1>5 DEF Creation
<1>8. References'
    <2>1. \A u \in Threads : u \in holders' <=> pc'[u] \in {"native", "release"}
        BY <1>4, <1>5, GatewayAssumption DEF References
    <2> QED
        BY <1>1, <1>2, <1>4, <1>5, <2>1 DEF References
<1>9. Disposal'
    BY <1>1 DEF Disposal
<1> QED
    BY <1>6, <1>7, <1>8, <1>9

-----------------------------------------------------------------------------
(* The theorems.                                                             *)

LEMMA HandleInit == Init => HandleInv
<1> SUFFICES ASSUME Init PROVE HandleInv
    OBVIOUS
<1>1. NoReason \in Reasons /\ NoAnswer \in [kind: Kinds, reason: Reasons]
    BY DEF NoReason, NoAnswer, Reasons, Kinds
<1>2. TypeOK
    <2>1. /\ counted \in [{"decided", "rejected", "failed"} -> Nat]
          /\ answered \in [{"Decision", "BadRequest", "ServerError", "Unavailable"} -> Nat]
        BY DEF Init
    <2>2. /\ pc \in [Threads -> Labels]
          /\ lastError \in [Threads -> Errors \cup {NoError}]
          /\ request \in [Threads -> Request \cup {NoRequest}]
          /\ status \in [Threads -> {"Ok", "InvalidMeasurement", "InternalError", "Disposed"}]
        BY DEF Init, Labels
    <2>3. /\ reason \in [Threads -> Reasons]
          /\ answer \in [Threads -> [kind: Kinds, reason: Reasons]]
        BY <1>1 DEF Init
    <2>4. received \in 0 .. MaxRequests
        BY GatewayAssumption DEF Init
    <2> QED
        BY <2>1, <2>2, <2>3, <2>4 DEF Init, TypeOK
<1>3. Creation
    BY GatewayAssumption DEF Init, Creation
<1>4. References /\ Disposal
    BY DEF Init, References, Disposal
<1> QED
    BY <1>2, <1>3, <1>4 DEF HandleInv

LEMMA HandleInductive == HandleInv /\ [Next]_vars => HandleInv'
<1> SUFFICES ASSUME HandleInv, [Next]_vars PROVE HandleInv'
    OBVIOUS
<1>1. ASSUME NEW t \in Threads, Handle(t) PROVE HandleInv'
    BY <1>1, ResolveKeeps, CreateKeeps, CaptureKeeps, CheckOpenKeeps, AcquireKeeps,
       NativeDecideKeeps, ReleaseHandleKeeps, ReadReasonKeeps, CountKeeps, RespondKeeps
    DEF Handle
<1>2. ASSUME NEW t \in Threads, NEW r \in Request, Receive(t, r) PROVE HandleInv'
    BY <1>2, ReceiveKeeps
<1>3. CASE Stop \/ DisposeProvider
    BY <1>3, ShutdownKeeps
<1>4. CASE DisposeGateway
    BY <1>4, DisposeGatewayKeeps
<1>5. CASE UNCHANGED vars
    <2>1. TypeOK'
        BY <1>5 DEF HandleInv, TypeOK, vars, service, native, local, tallies
    <2>2. Creation' /\ References' /\ Disposal'
        BY <1>5 DEF HandleInv, Creation, References, Disposal, vars, service, native, local
    <2> QED
        BY <2>1, <2>2 DEF HandleInv
<1> QED
    BY <1>1, <1>2, <1>3, <1>4, <1>5 DEF Next

\* The ownership of the handle, in every state of the backend.
THEOREM GatewayHandleInv == Spec => []HandleInv
<1>1. Init => HandleInv
    BY HandleInit
<1>2. HandleInv /\ [Next]_vars => HandleInv'
    BY HandleInductive
<1> QED
    BY <1>1, <1>2, PTL DEF Spec

\* Every state of the backend is well typed.
THEOREM GatewayTypeOK == Spec => []TypeOK
<1>1. HandleInv => TypeOK
    BY DEF HandleInv
<1> QED
    BY <1>1, GatewayHandleInv, PTL

\* However many threads call, and whenever the container disposes the gateway, a
\* thread inside the native library works on a controller that exists.
THEOREM GatewayNoUseAfterDestroy == Spec => []NoUseAfterDestroy
<1>1. HandleInv => NoUseAfterDestroy
    BY DEF HandleInv, References, NoUseAfterDestroy
<1> QED
    BY <1>1, GatewayHandleInv, PTL

-----------------------------------------------------------------------------
(* The refinement of the controller's life.                                  *)

\* Who is in the controller are the holders of the handle but its owner.
HolderView ==
    /\ Inside = holders \ {Owner}
    /\ controllers = IF holders = {} THEN 0 ELSE 1
    /\ closed \in BOOLEAN

LEMMA InsideHolds == HandleInv => HolderView
<1> SUFFICES ASSUME HandleInv PROVE HolderView
    OBVIOUS
<1>1. holders \subseteq Threads \cup {Owner} /\ closed \in BOOLEAN
    BY DEF HandleInv, TypeOK
<1>2. \A t \in Threads : t \in holders <=> pc[t] \in {"native", "release"}
    BY DEF HandleInv, References
<1> QED
    BY <1>1, <1>2, GatewayAssumption DEF Inside, HandleInv, References, HolderView

LEMMA InsideHoldsAfter == HandleInv' => HolderView'
    BY InsideHolds, PTL

\* The owner's reference is there while the gateway is open, and goes when it closes.
LEMMA OwnerHolds ==
    ASSUME HandleInv
    PROVE  /\ closed => Owner \notin holders
           /\ gateway = "created" /\ ~closed => Owner \in holders
           /\ \A t \in Threads : pc[t] = "capture" => Owner \in holders /\ ~closed
           /\ \A t \in Threads : pc[t] = "create" => holders = {} /\ ~closed
<1>1. /\ creator # NoThread => gateway = "none" /\ ~closed
      /\ \A t \in Threads : pc[t] \in {"create", "capture"} <=> creator = t
      /\ \A t \in Threads : pc[t] \in {"native", "release"} => gateway = "created"
    BY DEF HandleInv, Creation
<1>2. /\ holders \subseteq Threads \cup {Owner}
      /\ \A t \in Threads : t \in holders <=> pc[t] \in {"native", "release"}
      /\ Owner \in holders <=> \/ gateway = "created" /\ ~closed
                              \/ \E t \in Threads : pc[t] = "capture"
    BY DEF HandleInv, References, TypeOK
<1>3. ASSUME NEW t \in Threads, pc[t] \in {"create", "capture"}
      PROVE  creator = t /\ gateway = "none" /\ ~closed
    BY <1>1, <1>3, GatewayAssumption
<1>4. closed => Owner \notin holders
    BY <1>2, <1>3
<1>5. ASSUME NEW t \in Threads, pc[t] = "create"
      PROVE  holders = {} /\ ~closed
    <2>1. creator = t /\ gateway = "none" /\ ~closed
        BY <1>3, <1>5
    <2>2. \A u \in Threads : pc[u] # "capture"
        BY <1>3, <1>5, <2>1
    <2>3. \A u \in Threads : u \notin holders
        BY <1>1, <1>2, <2>1
    <2>4. Owner \notin holders
        BY <1>2, <2>1, <2>2
    <2> QED
        BY <1>2, <2>1, <2>3, <2>4
<1> QED
    BY <1>2, <1>3, <1>4, <1>5

\* A step that leaves the handle alone is none in the controller's life.
LEMMA LifeStutters ==
    ASSUME HandleInv, HandleInv', UNCHANGED <<controllers, closed, holders>>
    PROVE  UNCHANGED <<Phase, Inside>>
<1>1. Inside' = holders' \ {Owner} /\ Inside = holders \ {Owner}
    BY InsideHolds, InsideHoldsAfter DEF HolderView
<1> QED
    BY <1>1 DEF Phase

LEMMA CreatesLife ==
    ASSUME HandleInv, HandleInv', NEW t \in Threads, Create(t)
    PROVE  Lifetime!Create \/ UNCHANGED <<Phase, Inside>>
<1>1. CASE UNCHANGED <<controllers, closed, holders>>
    BY <1>1, LifeStutters
<1>2. CASE controllers' = controllers + 1 /\ holders' = {Owner} /\ UNCHANGED closed
    <2>1. holders = {} /\ ~closed /\ controllers = 0
        BY OwnerHolds, InsideHolds, InsideHoldsAfter DEF HolderView, Create
    <2>2. Inside = {} /\ Inside' = {}
        BY <1>2, <2>1, InsideHolds, InsideHoldsAfter DEF HolderView
    <2>3. Phase = "absent" /\ Phase' = "open"
        BY <1>2, <2>1 DEF Phase
    <2> QED
        BY <2>2, <2>3 DEF Lifetime!Create
<1> QED
    BY <1>1, <1>2 DEF Create

\* Giving up the owner's reference closes the controller's life.
LEMMA ReleaseCloses ==
    ASSUME HandleInv, HandleInv', Owner \in holders, ~closed, closed', Release(Owner)
    PROVE  Lifetime!Close
<1>1. controllers = 1 /\ Inside = holders \ {Owner}
    BY InsideHolds, InsideHoldsAfter DEF HolderView
<1>2. /\ holders' = holders \ {Owner} /\ Inside' = holders' \ {Owner}
      /\ controllers' = IF holders' = {} THEN 0 ELSE 1
    BY InsideHolds, InsideHoldsAfter DEF HolderView, Release
<1>3. Inside' = Inside /\ controllers' = IF Inside = {} THEN 0 ELSE 1
    BY <1>1, <1>2
<1>4. Phase = "open"
    BY <1>1 DEF Phase
<1>5. Phase' = IF Inside = {} THEN "gone" ELSE "closing"
    BY <1>3 DEF Phase
<1> QED
    BY <1>3, <1>4, <1>5 DEF Lifetime!Close

LEMMA CapturesLife ==
    ASSUME HandleInv, HandleInv', NEW t \in Threads, Capture(t)
    PROVE  Lifetime!Close \/ UNCHANGED <<Phase, Inside>>
<1>1. CASE UNCHANGED <<controllers, closed, holders>>
    BY <1>1, LifeStutters
<1>2. CASE closed' = TRUE /\ Release(Owner)
    <2>1. Owner \in holders /\ ~closed
        BY OwnerHolds DEF Capture
    <2> QED
        BY <1>2, <2>1, ReleaseCloses
<1> QED
    BY <1>1, <1>2 DEF Capture

LEMMA EntersLife ==
    ASSUME HandleInv, HandleInv', NEW t \in Threads, Acquire(t)
    PROVE  Lifetime!Enter(t) \/ UNCHANGED <<Phase, Inside>>
<1>1. CASE UNCHANGED <<controllers, closed, holders>>
    BY <1>1, LifeStutters
<1>2. CASE /\ ~closed /\ holders' = holders \cup {t}
           /\ UNCHANGED <<controllers, closed>>
    <2>1. gateway = "created" /\ t \notin holders
        BY DEF Acquire, HandleInv, Creation, References
    <2>2. Owner \in holders /\ controllers = 1
        BY <1>2, <2>1, OwnerHolds, InsideHolds, InsideHoldsAfter DEF HolderView
    <2>3. t \notin Inside /\ Inside' = Inside \cup {t}
        BY <1>2, <2>1, InsideHolds, InsideHoldsAfter, GatewayAssumption DEF HolderView
    <2>4. Phase = "open" /\ Phase' = "open"
        BY <1>2, <2>2 DEF Phase
    <2> QED
        BY <2>3, <2>4 DEF Lifetime!Enter
<1> QED
    BY <1>1, <1>2 DEF Acquire

LEMMA LeavesLife ==
    ASSUME HandleInv, HandleInv', NEW t \in Threads, ReleaseHandle(t)
    PROVE  Lifetime!Leave(t)
<1>1. /\ t \in holders /\ t # Owner /\ gateway = "created" /\ holders' = holders \ {t}
      /\ UNCHANGED closed
    BY GatewayAssumption DEF ReleaseHandle, Release, HandleInv, Creation, References
<1>2. /\ Inside = holders \ {Owner} /\ Inside' = holders' \ {Owner}
      /\ controllers = 1 /\ controllers' = IF holders' = {} THEN 0 ELSE 1
    BY <1>1, InsideHolds, InsideHoldsAfter DEF HolderView
<1>3. t \in Inside /\ Inside' = Inside \ {t}
    BY <1>1, <1>2
<1>4. CASE closed
    <2>1. Inside' = holders'
        BY <1>1, <1>2, <1>4, OwnerHolds
    <2>2. Phase = "closing" /\ Phase' = IF Inside' = {} THEN "gone" ELSE "closing"
        BY <1>1, <1>2, <1>4, <2>1 DEF Phase
    <2> QED
        BY <1>3, <2>2 DEF Lifetime!Leave
<1>5. CASE ~closed
    <2>1. holders' # {}
        BY <1>1, <1>5, OwnerHolds
    <2>2. Phase = "open" /\ Phase' = "open"
        BY <1>1, <1>2, <1>5, <2>1 DEF Phase
    <2> QED
        BY <1>3, <2>2 DEF Lifetime!Leave
<1> QED
    BY <1>4, <1>5, InsideHolds, InsideHoldsAfter DEF HolderView

LEMMA StepKeepsLifetime ==
    HandleInv /\ HandleInv' /\ [Next]_vars => [Lifetime!Next]_(Lifetime!lifetime)
<1> SUFFICES ASSUME HandleInv, HandleInv', [Next]_vars
             PROVE  Lifetime!Next \/ UNCHANGED <<Phase, Inside>>
    BY DEF Lifetime!lifetime
<1>1. ASSUME NEW t \in Threads, Create(t) \/ Capture(t) \/ Acquire(t) \/ ReleaseHandle(t)
      PROVE  Lifetime!Next \/ UNCHANGED <<Phase, Inside>>
    BY <1>1, CreatesLife, CapturesLife, EntersLife, LeavesLife DEF Lifetime!Next
<1>2. ASSUME NEW t \in Threads,
             \/ Resolve(t) \/ CheckOpen(t) \/ NativeDecide(t) \/ ReadReason(t)
             \/ Count(t) \/ Respond(t) \/ \E r \in Request : Receive(t, r)
      PROVE  UNCHANGED <<controllers, closed, holders>>
    BY <1>2 DEF Resolve, CheckOpen, NativeDecide, ReadReason, Count, Respond, Receive,
                native
<1>3. CASE Stop \/ DisposeProvider \/ UNCHANGED vars
    <2>1. UNCHANGED <<controllers, closed, holders>>
        BY <1>3 DEF Stop, DisposeProvider, vars, native
    <2> QED
        BY <2>1, LifeStutters
<1>4. CASE DisposeGateway
    <2>1. Owner \in holders /\ ~closed
        BY <1>4, OwnerHolds DEF DisposeGateway, HandleInv, Disposal
    <2>2. closed' /\ Release(Owner)
        BY <1>4 DEF DisposeGateway
    <2> QED
        BY <2>1, <2>2, ReleaseCloses DEF Lifetime!Next
<1> QED
    BY <1>1, <1>2, <1>3, <1>4, LifeStutters DEF Next, Handle

\* The gateway implements the life of one controller: it is created once at most, however
\* many first requests race and creations fail; no call enters it after the handle was
\* closed; and it is destroyed with the last call in it, and never under a call.
THEOREM GatewayKeepsLifetime == Spec => KeepsLifetime
<1>1. Init => Lifetime!Init
    <2> SUFFICES ASSUME Init PROVE Phase = "absent" /\ Inside = {}
        BY DEF Lifetime!Init
    <2>1. controllers = 0 /\ ~closed /\ \A t \in Threads : pc[t] = "idle"
        BY DEF Init
    <2> QED
        BY <2>1 DEF Phase, Inside
<1>2. HandleInv /\ HandleInv' /\ [Next]_vars => [Lifetime!Next]_(Lifetime!lifetime)
    BY StepKeepsLifetime
<1> QED
    BY <1>1, <1>2, GatewayHandleInv, PTL DEF Spec, KeepsLifetime, Lifetime!Spec

-----------------------------------------------------------------------------
(* The reason of a rejection, from the native call to the answer.            *)

OwnReasons(t) ==
    { [rule |-> request[t], bytes |-> MessageBytes[request[t]]], NoReason }

\* What has to hold at each place of a request for its answer to carry its own
\* reason: nothing has failed before the call, the call leaves the thread's text as
\* its status says, and the text is read while it is still that of this call.
ReasonOf(t) ==
    /\ pc[t] \in {"resolve", "create", "capture", "check", "acquire", "native"} =>
          status[t] = "Ok"
    /\ pc[t] = "release" /\ status[t] = "Ok" => lastError[t] = NoError
    /\ pc[t] \in {"release", "explain"} /\ status[t] = "InvalidMeasurement" =>
          request[t] \in Rules /\ lastError[t] \in {request[t], NoError}
    /\ pc[t] = "count" /\ status[t] = "InvalidMeasurement" =>
          request[t] \in Rules /\ reason[t] \in OwnReasons(t)
    /\ answer[t].kind = "BadRequest" =>
          request[t] \in Rules /\ answer[t].reason \in OwnReasons(t)

ReasonInv == \A t \in Threads : ReasonOf(t)

place(t) == <<pc[t], request[t], status[t], reason[t], answer[t], lastError[t]>>

\* A resolution answers its own thread only, and never with a rejection.
LEMMA ResolutionAnswers ==
    ASSUME NEW t \in Threads, TypeOK, Resolved(t) \/ ResolutionFails(t)
    PROVE  /\ \A u \in Threads : u # t => pc'[u] = pc[u] /\ answer'[u] = answer[u]
           /\ pc'[t] \in {"check", "respond"}
           /\ answer'[t] = answer[t] \/ answer'[t].kind # "BadRequest"
<1>1. ASSUME NEW k \in {"Healthy", "Unhealthy", "Degraded", "Unavailable"},
             Reply(t, Answer(k))
      PROVE  /\ \A u \in Threads : u # t => pc'[u] = pc[u] /\ answer'[u] = answer[u]
             /\ pc'[t] = "respond"
             /\ answer'[t].kind # "BadRequest"
    BY <1>1 DEF Reply, Goto, Answer, TypeOK
<1>2. ASSUME Goto(t, "check"), UNCHANGED answer
      PROVE  /\ \A u \in Threads : u # t => pc'[u] = pc[u] /\ answer'[u] = answer[u]
             /\ pc'[t] = "check"
             /\ answer'[t] = answer[t]
    BY <1>2 DEF Goto, TypeOK
<1>3. CASE request[t] = "ready"
    BY <1>1, <1>3 DEF Resolved, ResolutionFails
<1>4. CASE request[t] = "status"
    BY <1>1, <1>4 DEF Resolved, ResolutionFails
<1>5. CASE request[t] \notin {"ready", "status"}
    BY <1>1, <1>2, <1>5 DEF Resolved, ResolutionFails
<1> QED
    BY <1>3, <1>4, <1>5

\* A step of one thread leaves what the others know of their requests alone, the
\* native reason included: it is kept per thread.
LEMMA OthersKept ==
    ASSUME TypeOK, NEW t \in Threads,
           Handle(t) \/ \E r \in Request : Receive(t, r),
           NEW u \in Threads, u # t
    PROVE  UNCHANGED place(u)
<1>1. CASE \E r \in Request : Receive(t, r)
    BY <1>1 DEF Receive, Reply, Goto, native, place, TypeOK
<1>2. CASE Resolve(t)
    BY <1>2, ResolutionAnswers DEF Resolve, Goto, native, place, TypeOK
<1>3. CASE Create(t)
    <2>1. \A v \in Threads : v # t => lastError'[v] = lastError[v]
        BY <1>3 DEF Create, TypeOK
    <2>2. pc'[u] = pc[u] /\ answer'[u] = answer[u]
        BY <1>3, ResolutionAnswers DEF Create, Goto, TypeOK
    <2> QED
        BY <1>3, <2>1, <2>2 DEF Create, place
<1>4. CASE Capture(t)
    BY <1>4, ResolutionAnswers DEF Capture, place
<1>5. CASE CheckOpen(t)
    BY <1>5 DEF CheckOpen, Goto, native, place, TypeOK
<1>6. CASE Acquire(t)
    BY <1>6 DEF Acquire, Goto, place, TypeOK
<1>7. CASE NativeDecide(t)
    BY <1>7 DEF NativeDecide, FailsWith, Goto, place, TypeOK
<1>8. CASE ReleaseHandle(t)
    BY <1>8 DEF ReleaseHandle, Goto, place, TypeOK
<1>9. CASE ReadReason(t)
    BY <1>9 DEF ReadReason, Goto, native, place, TypeOK
<1>10. CASE Count(t)
    <2>1. \E a : Reply(t, a)
        BY <1>10 DEF Count
    <2>2. pc'[u] = pc[u] /\ answer'[u] = answer[u]
        BY <2>1 DEF Reply, Goto, TypeOK
    <2> QED
        BY <1>10, <2>2 DEF Count, native, place
<1>11. CASE Respond(t)
    BY <1>11 DEF Respond, Goto, native, place, TypeOK
<1> QED
    BY <1>1, <1>2, <1>3, <1>4, <1>5, <1>6, <1>7, <1>8, <1>9, <1>10, <1>11 DEF Handle

\* A message is read back whole, whether it fits the buffer or has to be read again.
LEMMA MessageTextWhole ==
    ASSUME NEW r \in Rules
    PROVE  MessageText(MessageBytes[r]) = MessageBytes[r]
<1>1. MessageBytes[r] \in Nat \ {0} /\ BufferSize \in Nat \ {0}
    BY GatewayAssumption
<1> QED
    BY <1>1 DEF MessageText, Copied, Smaller

\* A thread that goes to a place where nothing is asked of its reason, with an
\* answer that is the old one or no rejection, keeps what is known of its request.
LEMMA PassingBy ==
    ASSUME TypeOK, NEW t \in Threads, ReasonOf(t),
           pc'[t] \in {"respond", "idle", "check", "create", "resolve", "capture", "acquire", "native"},
           pc'[t] \notin {"respond", "idle"} => status'[t] = "Ok",
           request'[t] = request[t],
           answer'[t] = answer[t] \/ answer'[t].kind # "BadRequest"
    PROVE  ReasonOf(t)'
    BY DEF ReasonOf, OwnReasons

\* Before the call: the request comes in, the gateway is resolved or created.
LEMMA ResolutionReason ==
    ASSUME TypeOK, NEW t \in Threads, ReasonOf(t),
           (\E r \in Request : Receive(t, r)) \/ Resolve(t) \/ Create(t) \/ Capture(t)
    PROVE  ReasonOf(t)'
<1>1. CASE \E r \in Request : Receive(t, r)
    <2>1. PICK r \in Request : Receive(t, r)
        BY <1>1
    <2>2. pc'[t] \in {"respond", "resolve"} /\ status'[t] = "Ok"
        BY <2>1 DEF Receive, Reply, Goto, TypeOK
    <2>3. answer'[t].kind # "BadRequest"
        BY <2>1 DEF Receive, Reply, Answer, NoAnswer, TypeOK
    <2> QED
        BY <2>2, <2>3 DEF ReasonOf
<1>2. CASE Resolve(t)
    <2>1. status[t] = "Ok" /\ status'[t] = "Ok" /\ request'[t] = request[t]
        BY <1>2 DEF Resolve, ReasonOf
    <2>2. pc'[t] \in {"check", "respond", "create"}
        BY <1>2, ResolutionAnswers DEF Resolve, Goto, TypeOK
    <2>3. answer'[t] = answer[t] \/ answer'[t].kind # "BadRequest"
        BY <1>2, ResolutionAnswers DEF Resolve
    <2> QED
        BY <2>1, <2>2, <2>3, PassingBy
<1>3. CASE Create(t)
    <2>1. status[t] = "Ok" /\ status'[t] = "Ok" /\ request'[t] = request[t]
        BY <1>3 DEF Create, ReasonOf
    <2>2. pc'[t] \in {"check", "respond", "capture"}
        BY <1>3, ResolutionAnswers DEF Create, Goto, TypeOK
    <2>3. answer'[t] = answer[t] \/ answer'[t].kind # "BadRequest"
        BY <1>3, ResolutionAnswers DEF Create
    <2> QED
        BY <2>1, <2>2, <2>3, PassingBy
<1>4. CASE Capture(t)
    <2>1. status[t] = "Ok" /\ status'[t] = "Ok" /\ request'[t] = request[t]
        BY <1>4 DEF Capture, ReasonOf
    <2>2. /\ pc'[t] \in {"check", "respond"}
          /\ answer'[t] = answer[t] \/ answer'[t].kind # "BadRequest"
        BY <1>4, ResolutionAnswers DEF Capture
    <2> QED
        BY <2>1, <2>2, PassingBy
<1> QED
    BY <1>1, <1>2, <1>3, <1>4

\* The call, up to the moment its handle is given back.
LEMMA CallReason ==
    ASSUME TypeOK, NEW t \in Threads, ReasonOf(t),
           CheckOpen(t) \/ Acquire(t) \/ NativeDecide(t) \/ ReleaseHandle(t)
    PROVE  ReasonOf(t)'
<1>1. UNCHANGED <<request, reason, answer>>
    BY DEF CheckOpen, Acquire, NativeDecide, ReleaseHandle
<1>2. CASE CheckOpen(t)
    BY <1>1, <1>2 DEF CheckOpen, Goto, ReasonOf, OwnReasons, TypeOK
<1>3. CASE Acquire(t)
    BY <1>1, <1>3 DEF Acquire, Goto, ReasonOf, OwnReasons, TypeOK
<1>4. CASE NativeDecide(t)
    <2>1. pc'[t] = "release" /\ status[t] = "Ok"
        BY <1>4 DEF NativeDecide, Goto, ReasonOf, TypeOK
    <2>2. \/ /\ request[t] \in Rules
             /\ status'[t] = "InvalidMeasurement"
             /\ lastError'[t] \in {request[t], NoError}
          \/ status'[t] = "InternalError"
          \/ status'[t] = "Ok" /\ lastError'[t] = NoError
        BY <1>4, <2>1 DEF NativeDecide, FailsWith, TypeOK
    <2> QED
        BY <1>1, <2>1, <2>2 DEF ReasonOf, OwnReasons
<1>5. CASE ReleaseHandle(t)
    <2>1. status'[t] = status[t] /\ lastError'[t] = lastError[t] /\ pc[t] = "release"
        BY <1>5 DEF ReleaseHandle
    <2>2. pc'[t] = IF status[t] = "Ok" THEN "count" ELSE "explain"
        BY <1>5 DEF ReleaseHandle, Goto, TypeOK
    <2> QED
        BY <1>1, <2>1, <2>2 DEF ReasonOf, OwnReasons
<1> QED
    BY <1>2, <1>3, <1>4, <1>5

\* After the call: the reason is read, put into the answer, and sent.
LEMMA AnswerReason ==
    ASSUME TypeOK, NEW t \in Threads, ReasonOf(t),
           ReadReason(t) \/ Count(t) \/ Respond(t)
    PROVE  ReasonOf(t)'
<1>1. request'[t] = request[t] /\ status'[t] = status[t]
    BY DEF ReadReason, Count, Respond
<1>2. CASE ReadReason(t)
    <2>1. pc[t] = "explain" /\ pc'[t] = "count" /\ answer'[t] = answer[t]
        BY <1>2 DEF ReadReason, Goto, TypeOK
    <2>2. ASSUME status[t] = "InvalidMeasurement"
          PROVE  request[t] \in Rules /\ reason'[t] \in OwnReasons(t)
        <3>1. request[t] \in Rules /\ lastError[t] \in {request[t], NoError}
            BY <2>1, <2>2 DEF ReasonOf
        <3>2. CASE lastError[t] = request[t]
            BY <1>2, <3>1, <3>2, MessageTextWhole DEF ReadReason, OwnReasons, TypeOK
        <3>3. CASE lastError[t] = NoError
            <4>1. NoError \notin Rules
                BY GatewayAssumption DEF NoError
            <4> QED
                BY <1>2, <3>1, <3>3, <4>1 DEF ReadReason, OwnReasons, NoReason, TypeOK
        <3> QED
            BY <3>1, <3>2, <3>3
    <2> QED
        BY <1>1, <2>1, <2>2 DEF ReasonOf, OwnReasons
<1>3. CASE Count(t)
    <2>1. pc[t] = "count" /\ pc'[t] = "respond"
        BY <1>3 DEF Count, Reply, Goto, TypeOK
    <2>2. CASE status[t] = "InvalidMeasurement"
        <3>1. answer'[t] = [kind |-> "BadRequest", reason |-> reason[t]]
            BY <1>3, <2>2 DEF Count, Reply, TypeOK
        <3> QED
            BY <1>1, <2>1, <2>2, <3>1 DEF ReasonOf, OwnReasons
    <2>3. CASE status[t] # "InvalidMeasurement"
        <3>1. answer'[t].kind # "BadRequest"
            BY <1>3, <2>3 DEF Count, Reply, Answer, TypeOK
        <3> QED
            BY <2>1, <3>1 DEF ReasonOf
    <2> QED
        BY <2>2, <2>3
<1>4. CASE Respond(t)
    <2>1. pc'[t] = "idle" /\ answer'[t] = answer[t]
        BY <1>4 DEF Respond, Goto, TypeOK
    <2> QED
        BY <1>1, <2>1, PassingBy
<1> QED
    BY <1>2, <1>3, <1>4

LEMMA ReasonInductive == TypeOK /\ ReasonInv /\ [Next]_vars => ReasonInv'
<1> SUFFICES ASSUME TypeOK, ReasonInv, [Next]_vars PROVE ReasonInv'
    OBVIOUS
<1>1. ASSUME NEW t \in Threads, Handle(t) \/ \E r \in Request : Receive(t, r)
      PROVE  ReasonInv'
    <2>1. ReasonOf(t)'
        BY <1>1, ResolutionReason, CallReason, AnswerReason DEF ReasonInv, Handle
    <2>2. ASSUME NEW u \in Threads, u # t PROVE ReasonOf(u)'
        <3>1. UNCHANGED place(u)
            BY <1>1, <2>2, OthersKept
        <3> QED
            BY <3>1 DEF ReasonInv, ReasonOf, OwnReasons, place
    <2> QED
        BY <2>1, <2>2 DEF ReasonInv
<1>2. CASE Stop \/ DisposeProvider \/ DisposeGateway \/ UNCHANGED vars
    <2>1. UNCHANGED <<local, lastError>>
        BY <1>2 DEF Stop, DisposeProvider, DisposeGateway, vars, native
    <2>2. \A t \in Threads : UNCHANGED place(t)
        BY <2>1 DEF local, place
    <2> QED
        BY <2>2 DEF ReasonInv, ReasonOf, OwnReasons, place
<1> QED
    BY <1>1, <1>2 DEF Next

LEMMA ReasonInit == Init => ReasonInv
    BY DEF Init, ReasonInv, ReasonOf, NoAnswer

\* What is known of every request, in every state of the backend.
THEOREM GatewayReasonInv == Spec => []ReasonInv
<1>1. Init => ReasonInv
    BY ReasonInit
<1>2. TypeOK /\ ReasonInv /\ [Next]_vars => ReasonInv'
    BY ReasonInductive
<1> QED
    BY <1>1, <1>2, GatewayTypeOK, PTL DEF Spec

\* Whatever other threads fail with, and whatever this thread failed with before, a
\* rejection carries the whole message of the rule its measurement violates, or none.
THEOREM GatewayReasonIsOwn == Spec => []ReasonIsOwn
<1>1. ReasonInv => ReasonIsOwn
    BY DEF ReasonInv, ReasonOf, OwnReasons, ReasonIsOwn
<1> QED
    BY <1>1, GatewayReasonInv, PTL

\* After a call that succeeded its thread has no last error.
THEOREM GatewayNoStaleError == Spec => []NoStaleError
<1>1. ReasonInv => NoStaleError
    BY DEF ReasonInv, ReasonOf, NoStaleError
<1> QED
    BY <1>1, GatewayReasonInv, PTL

-----------------------------------------------------------------------------
(* The statistics and the answers.                                           *)

\* The answers that the statistics count, and the threads that are sending one.
CountedKinds == {"Decision", "BadRequest", "ServerError"}

Sending(kind) == { t \in Threads : pc[t] = "respond" /\ answer[t].kind = kind }

LEMMA SendingFinite ==
    ASSUME NEW kind
    PROVE  IsFiniteSet(Sending(kind)) /\ Cardinality(Sending(kind)) \in Nat
<1>1. Sending(kind) \in SUBSET Threads /\ IsFiniteSet(Threads)
    BY GatewayAssumption DEF Sending
<1>2. IsFiniteSet(Sending(kind))
    BY <1>1, FS_Subset
<1> QED
    BY <1>2, FS_CardinalityType

LEMMA SentIs == \A kind : Sent(kind) = answered[kind] + Cardinality(Sending(kind))
    BY DEF Sent, Sending

\* A step of one thread takes that thread to those who are sending, or away from them.
LEMMA SendingAfter ==
    ASSUME NEW t \in Threads, NEW kind,
           \A u \in Threads : u # t => pc'[u] = pc[u] /\ answer'[u] = answer[u]
    PROVE  /\ pc'[t] = "respond" /\ answer'[t].kind = kind =>
                  Sending(kind)' = Sending(kind) \cup {t}
           /\ ~(pc'[t] = "respond" /\ answer'[t].kind = kind) =>
                  Sending(kind)' = Sending(kind) \ {t}
    BY DEF Sending

\* A resolution is answered with none of the answers that are counted.
LEMMA ResolutionUncounted ==
    ASSUME NEW t \in Threads, TypeOK, Resolved(t) \/ ResolutionFails(t)
    PROVE  ~(pc'[t] = "respond" /\ answer'[t].kind \in CountedKinds)
<1>1. ASSUME NEW k \in {"Healthy", "Unhealthy", "Degraded", "Unavailable"},
             Reply(t, Answer(k))
      PROVE  answer'[t].kind \notin CountedKinds
    BY <1>1 DEF Reply, Answer, TypeOK, CountedKinds
<1>2. ASSUME Goto(t, "check")
      PROVE  pc'[t] # "respond"
    BY <1>2 DEF Goto, TypeOK
<1>3. CASE request[t] = "ready"
    BY <1>1, <1>3 DEF Resolved, ResolutionFails
<1>4. CASE request[t] = "status"
    BY <1>1, <1>4 DEF Resolved, ResolutionFails
<1>5. CASE request[t] \notin {"ready", "status"}
    BY <1>1, <1>2, <1>5 DEF Resolved, ResolutionFails
<1> QED
    BY <1>3, <1>4, <1>5

\* Neither does any step before the count: the tallies stay, and so do those who are
\* sending a counted answer.
LEMMA BeforeCount ==
    ASSUME TypeOK, NEW t \in Threads,
           \/ \E r \in Request : Receive(t, r)
           \/ Resolve(t) \/ Create(t) \/ Capture(t) \/ CheckOpen(t) \/ Acquire(t)
           \/ NativeDecide(t) \/ ReleaseHandle(t) \/ ReadReason(t)
    PROVE  /\ pc[t] # "respond"
           /\ UNCHANGED <<counted, answered>>
           /\ ~(pc'[t] = "respond" /\ answer'[t].kind \in CountedKinds)
<1>1. CASE \E r \in Request : Receive(t, r)
    BY <1>1 DEF Receive, Reply, Goto, Answer, NoAnswer, TypeOK, CountedKinds
<1>2. CASE Resolve(t)
    BY <1>2, ResolutionUncounted DEF Resolve, Goto, TypeOK, tallies
<1>3. CASE Create(t)
    BY <1>3, ResolutionUncounted DEF Create, Goto, TypeOK, tallies
<1>4. CASE Capture(t)
    BY <1>4, ResolutionUncounted DEF Capture, tallies
<1>5. CASE CheckOpen(t)
    BY <1>5 DEF CheckOpen, Goto, TypeOK, tallies
<1>6. CASE Acquire(t)
    BY <1>6 DEF Acquire, Goto, TypeOK, tallies
<1>7. CASE NativeDecide(t)
    BY <1>7 DEF NativeDecide, Goto, TypeOK, tallies
<1>8. CASE ReleaseHandle(t)
    BY <1>8 DEF ReleaseHandle, Goto, TypeOK, tallies
<1>9. CASE ReadReason(t)
    BY <1>9 DEF ReadReason, Goto, TypeOK, tallies
<1> QED
    BY <1>1, <1>2, <1>3, <1>4, <1>5, <1>6, <1>7, <1>8, <1>9

\* What is counted is what is sent next.
LEMMA CountSends ==
    ASSUME TypeOK, NEW t \in Threads, Count(t)
    PROVE  /\ pc[t] = "count" /\ pc'[t] = "respond" /\ UNCHANGED answered
           /\ \/ /\ answer'[t].kind = "Decision"
                 /\ counted' = [counted EXCEPT !.decided = @ + 1]
              \/ /\ answer'[t].kind = "BadRequest"
                 /\ counted' = [counted EXCEPT !.rejected = @ + 1]
              \/ /\ answer'[t].kind = "ServerError"
                 /\ counted' = [counted EXCEPT !.failed = @ + 1]
<1>1. pc[t] = "count" /\ pc'[t] = "respond" /\ UNCHANGED answered
    BY DEF Count, Reply, Goto, TypeOK
<1>2. CASE status[t] = "Ok"
    BY <1>1, <1>2 DEF Count, Reply, Answer, Outcome, TypeOK
<1>3. CASE status[t] = "InvalidMeasurement"
    BY <1>1, <1>3 DEF Count, Reply, Answer, Outcome, TypeOK
<1>4. CASE status[t] \notin {"Ok", "InvalidMeasurement"}
    BY <1>1, <1>4 DEF Count, Reply, Answer, Outcome, TypeOK
<1> QED
    BY <1>1, <1>2, <1>3, <1>4

\* An answer that joins those under way is one more, and one that was sent stays one.
LEMMA SentAfter ==
    ASSUME TypeOK, NEW t \in Threads, NEW kind \in CountedKinds,
           \A u \in Threads : u # t => pc'[u] = pc[u] /\ answer'[u] = answer[u],
           answered' \in [{"Decision", "BadRequest", "ServerError", "Unavailable"} -> Nat]
    PROVE  /\ (pc[t] # "respond" /\ UNCHANGED answered) =>
                Sent(kind)' = IF pc'[t] = "respond" /\ answer'[t].kind = kind
                              THEN Sent(kind) + 1 ELSE Sent(kind)
           /\ ( /\ pc[t] = "respond" /\ pc'[t] # "respond"
                /\ answered'[kind] = IF answer[t].kind = kind
                                     THEN answered[kind] + 1 ELSE answered[kind] ) =>
                Sent(kind)' = Sent(kind)
<1> DEFINE sending == Sending(kind)
<1>1. /\ IsFiniteSet(sending) /\ Cardinality(sending) \in Nat
      /\ Sent(kind) = answered[kind] + Cardinality(sending)
      /\ Sent(kind)' = answered'[kind] + Cardinality(sending')
      /\ answered[kind] \in Nat /\ answered'[kind] \in Nat
    <2>1. Sent(kind)' = answered'[kind] + Cardinality(sending')
        BY DEF Sent, Sending
    <2> QED
        BY <2>1, SendingFinite, SentIs DEF TypeOK, CountedKinds
<1>2. t \in sending <=> pc[t] = "respond" /\ answer[t].kind = kind
    BY DEF Sending
<1>3. /\ pc'[t] = "respond" /\ answer'[t].kind = kind => sending' = sending \cup {t}
      /\ ~(pc'[t] = "respond" /\ answer'[t].kind = kind) => sending' = sending \ {t}
    BY SendingAfter
<1>4. /\ Cardinality(sending \cup {t}) =
            IF t \in sending THEN Cardinality(sending) ELSE Cardinality(sending) + 1
      /\ Cardinality(sending \ {t}) =
            IF t \in sending THEN Cardinality(sending) - 1 ELSE Cardinality(sending)
    BY <1>1, FS_AddElement, FS_RemoveElement
<1> HIDE DEF sending
<1>5. ASSUME pc[t] # "respond", UNCHANGED answered,
             ~(pc'[t] = "respond" /\ answer'[t].kind = kind)
      PROVE  Sent(kind)' = Sent(kind)
    BY <1>1, <1>2, <1>3, <1>4, <1>5
<1>6. ASSUME pc[t] # "respond", UNCHANGED answered,
             pc'[t] = "respond", answer'[t].kind = kind
      PROVE  Sent(kind)' = Sent(kind) + 1
    <2>1. Cardinality(sending') = Cardinality(sending) + 1
        BY <1>2, <1>3, <1>4, <1>6
    <2>2. answered'[kind] = answered[kind]
        BY <1>6
    <2> QED
        BY <1>1, <2>1, <2>2
<1>7. ASSUME pc[t] = "respond", pc'[t] # "respond",
             answered'[kind] = IF answer[t].kind = kind
                               THEN answered[kind] + 1 ELSE answered[kind]
      PROVE  Sent(kind)' = Sent(kind)
    <2>1. Cardinality(sending') = Cardinality(sending \ {t})
        BY <1>3, <1>7
    <2>2. CASE answer[t].kind = kind
        BY <1>1, <1>2, <1>4, <1>7, <2>1, <2>2
    <2>3. CASE answer[t].kind # kind
        BY <1>1, <1>2, <1>4, <1>7, <2>1, <2>3
    <2> QED
        BY <2>2, <2>3
<1> QED
    BY <1>5, <1>6, <1>7

LEMMA CountsInductive ==
    TypeOK /\ TypeOK' /\ CountsMatchAnswers /\ [Next]_vars => CountsMatchAnswers'
<1> SUFFICES ASSUME TypeOK, TypeOK', CountsMatchAnswers, [Next]_vars
             PROVE  CountsMatchAnswers'
    OBVIOUS
<1>1. ASSUME NEW t \in Threads, Handle(t) \/ \E r \in Request : Receive(t, r)
      PROVE  CountsMatchAnswers'
    <2>1. \A u \in Threads : u # t => pc'[u] = pc[u] /\ answer'[u] = answer[u]
        BY <1>1, OthersKept DEF place
    <2>2. answered' \in [{"Decision", "BadRequest", "ServerError", "Unavailable"} -> Nat]
        BY DEF TypeOK
    <2>3. CASE pc[t] # "respond" /\ UNCHANGED <<counted, answered>>
               /\ ~(pc'[t] = "respond" /\ answer'[t].kind \in CountedKinds)
        <3>1. \A kind \in CountedKinds : Sent(kind)' = Sent(kind)
            BY <2>1, <2>2, <2>3, SentAfter
        <3> QED
            BY <2>3, <3>1 DEF CountsMatchAnswers, CountedKinds
    <2>4. CASE Count(t)
        <3>1. \A kind \in CountedKinds :
                  Sent(kind)' = IF answer'[t].kind = kind THEN Sent(kind) + 1 ELSE Sent(kind)
            BY <2>1, <2>2, <2>4, CountSends, SentAfter
        <3> QED
            BY <2>4, <3>1, CountSends DEF CountsMatchAnswers, CountedKinds, TypeOK
    <2>5. CASE Respond(t)
        <3>1. pc[t] = "respond" /\ pc'[t] # "respond" /\ UNCHANGED counted
            BY <2>5 DEF Respond, Goto, TypeOK
        <3>2. \A kind \in CountedKinds :
                  answered'[kind] = IF answer[t].kind = kind
                                    THEN answered[kind] + 1 ELSE answered[kind]
            BY <2>5 DEF Respond, TypeOK, CountedKinds
        <3>3. \A kind \in CountedKinds : Sent(kind)' = Sent(kind)
            BY <2>1, <2>2, <3>1, <3>2, SentAfter
        <3> QED
            BY <3>1, <3>3 DEF CountsMatchAnswers, CountedKinds
    <2> QED
        BY <1>1, <2>3, <2>4, <2>5, BeforeCount DEF Handle
<1>2. CASE Stop \/ DisposeProvider \/ DisposeGateway \/ UNCHANGED vars
    <2>1. UNCHANGED <<pc, answer, counted, answered>>
        BY <1>2 DEF Stop, DisposeProvider, DisposeGateway, vars, local, tallies
    <2> QED
        BY <2>1 DEF CountsMatchAnswers, Sent
<1> QED
    BY <1>1, <1>2 DEF Next

LEMMA CountsInit == Init => CountsMatchAnswers
<1> SUFFICES ASSUME Init PROVE CountsMatchAnswers
    OBVIOUS
<1>1. \A kind : Sending(kind) = {}
    BY DEF Init, Sending
<1>2. Cardinality({}) = 0
    BY FS_EmptySet
<1>3. \A kind \in CountedKinds : Sent(kind) = 0
    <2>1. \A kind \in CountedKinds : answered[kind] = 0
        BY DEF Init, CountedKinds
    <2>2. \A kind : Cardinality(Sending(kind)) = 0
        BY <1>1, <1>2
    <2>3. ASSUME NEW kind \in CountedKinds PROVE Sent(kind) = 0
        <3>1. Sent(kind) = answered[kind] + Cardinality(Sending(kind))
            BY SentIs
        <3> QED
            BY <2>1, <2>2, <3>1
    <2> QED
        BY <2>3
<1> QED
    BY <1>3 DEF Init, CountsMatchAnswers, CountedKinds

\* The statistics are what the clients were told, for any number of threads and requests:
\* every decision, rejection and failure is counted once, and nothing else is.
THEOREM GatewayCountsMatchAnswers == Spec => []CountsMatchAnswers
<1> QED
    BY CountsInit, CountsInductive, GatewayTypeOK, PTL DEF Spec

-----------------------------------------------------------------------------
(* How long a request can take.                                              *)

\* The steps a request has before it at most, at each place of its thread.
StepsAhead(label) ==
    CASE label = "resolve" -> 10
      [] label = "create"  -> 9
      [] label = "capture" -> 8
      [] label = "check"   -> 7
      [] label = "acquire" -> 6
      [] label = "native"  -> 5
      [] label = "release" -> 4
      [] label = "explain" -> 3
      [] label = "count"   -> 2
      [] label = "respond" -> 1
      [] label = "idle"    -> 0

\* A request moves towards its answer and never back, whatever the others, a shutdown or
\* a creation that fails do meanwhile: there is no loop in which one tries again.
RequestsAdvance ==
    \A t \in Threads :
        /\ pc'[t] = pc[t] \/ pc[t] = "idle" \/ StepsAhead(pc'[t]) < StepsAhead(pc[t])
        /\ Handle(t) => StepsAhead(pc'[t]) < StepsAhead(pc[t])

\* The creation that a request has to wait for, as long as it has nothing else to go by.
Blocked(t) ==
    pc[t] = "resolve" /\ provider = "open" /\ gateway = "none" /\ creator # NoThread

\* What is waited for is a creation that is under way on another thread, which waits
\* for nobody: the lock is never left behind, also not by a creation that failed.
WaitsForCreation ==
    \A t \in Threads : Blocked(t) =>
        /\ creator \in Threads \ {t}
        /\ pc[creator] \in {"create", "capture"}

LEMMA HandleAdvances ==
    ASSUME TypeOK, NEW t \in Threads, Handle(t)
    PROVE  StepsAhead(pc'[t]) < StepsAhead(pc[t])
<1>1. DOMAIN pc = Threads
    BY DEF TypeOK
<1>2. CASE Resolve(t)
    <2>1. pc'[t] \in {"create", "check", "respond"}
        BY <1>1, <1>2, ResolutionAnswers DEF Resolve, Goto
    <2> QED
        BY <1>2, <2>1 DEF Resolve, StepsAhead
<1>3. CASE Create(t)
    <2>1. pc'[t] \in {"capture", "check", "respond"}
        BY <1>1, <1>3, ResolutionAnswers DEF Create, Goto
    <2> QED
        BY <1>3, <2>1 DEF Create, StepsAhead
<1>4. CASE Capture(t)
    <2>1. pc'[t] \in {"check", "respond"}
        BY <1>4, ResolutionAnswers DEF Capture
    <2> QED
        BY <1>4, <2>1 DEF Capture, StepsAhead
<1>5. CASE CheckOpen(t)
    BY <1>1, <1>5 DEF CheckOpen, Goto, StepsAhead
<1>6. CASE Acquire(t)
    BY <1>1, <1>6 DEF Acquire, Goto, StepsAhead
<1>7. CASE NativeDecide(t)
    BY <1>1, <1>7 DEF NativeDecide, Goto, StepsAhead
<1>8. CASE ReleaseHandle(t)
    <2>1. pc[t] = "release" /\ pc'[t] \in {"count", "explain"}
        BY <1>1, <1>8 DEF ReleaseHandle, Goto
    <2> QED
        BY <2>1 DEF StepsAhead
<1>9. CASE ReadReason(t)
    BY <1>1, <1>9 DEF ReadReason, Goto, StepsAhead
<1>10. CASE Count(t)
    <2>1. pc[t] = "count" /\ \E a : Reply(t, a)
        BY <1>10 DEF Count
    <2>2. pc'[t] = "respond"
        BY <1>1, <2>1 DEF Reply, Goto
    <2> QED
        BY <2>1, <2>2 DEF StepsAhead
<1>11. CASE Respond(t)
    BY <1>1, <1>11 DEF Respond, Goto, StepsAhead
<1> QED
    BY <1>2, <1>3, <1>4, <1>5, <1>6, <1>7, <1>8, <1>9, <1>10, <1>11 DEF Handle

LEMMA StepAdvances == TypeOK /\ [Next]_vars => RequestsAdvance
<1> SUFFICES ASSUME TypeOK, [Next]_vars, NEW t \in Threads
             PROVE  pc'[t] = pc[t] \/ pc[t] = "idle" \/ StepsAhead(pc'[t]) < StepsAhead(pc[t])
    BY HandleAdvances DEF RequestsAdvance
<1>1. CASE Handle(t)
    BY <1>1, HandleAdvances
<1>2. CASE \E r \in Request : Receive(t, r)
    BY <1>2 DEF Receive
<1>3. ASSUME NEW u \in Threads, u # t, Handle(u) \/ \E r \in Request : Receive(u, r)
      PROVE  pc'[t] = pc[t]
    BY <1>3, OthersKept DEF place
<1>4. CASE Stop \/ DisposeProvider \/ DisposeGateway \/ UNCHANGED vars
    BY <1>4 DEF Stop, DisposeProvider, DisposeGateway, local, vars
<1> QED
    BY <1>1, <1>2, <1>3, <1>4 DEF Next

LEMMA BlockedWaits == HandleInv => WaitsForCreation
<1> SUFFICES ASSUME HandleInv, NEW t \in Threads, Blocked(t)
             PROVE  creator \in Threads \ {t} /\ pc[creator] \in {"create", "capture"}
    BY DEF WaitsForCreation
<1>1. creator \in Threads
    BY DEF HandleInv, TypeOK, Blocked
<1>2. pc[creator] \in {"create", "capture"}
    BY <1>1 DEF HandleInv, Creation
<1> QED
    BY <1>1, <1>2 DEF Blocked

\* For any number of threads and requests, a request takes ten steps at most, and one that
\* cannot go on waits for a creation that another thread has in hand and that waits for
\* nobody.  That threads take the steps they can is fairness, with which this is
\* RequestsAnswered.
THEOREM GatewayRequestsRunOut == Spec => [][RequestsAdvance]_vars /\ []WaitsForCreation
<1> QED
    BY GatewayHandleInv, GatewayTypeOK, StepAdvances, BlockedWaits, PTL DEF Spec
=============================================================================
