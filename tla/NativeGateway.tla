----------------------------- MODULE NativeGateway -----------------------------
(***************************************************************************)
(* The backend around the C++ controller: request threads share one native   *)
(* controller through a gateway that the service provider creates on first   *)
(* use and disposes at shutdown, while requests may still be running.  The   *)
(* native library keeps the reason of a failure per thread and memory that   *)
(* must outlive every call; the C# side keeps a safe handle for it.          *)
(*                                                                          *)
(* One request is handled from its first to its last step by one thread, as  *)
(* the synchronous endpoints are.                                            *)
(***************************************************************************)
EXTENDS Naturals, FiniteSets

CONSTANTS
    Threads,                \* request threads
    Rules,                  \* the rules a measurement may violate
    MessageBytes,           \* the length of the message of each rule
    BufferSize,             \* LastErrorStackBufferSize
    MaxRequests,            \* bound: requests received in a behaviour
    NoThread, Owner,        \* no thread; the owner's reference to the handle
    Libraries               \* the states of the native library that are tried

\* A decision request is named by the rule its measurement violates.
Request == Rules \cup {"valid", "malformed", "ready", "status"}
NoRequest == "none"

NoError == "none"
Errors == Rules \cup {"limits", "internal"}

ASSUME GatewayAssumption ==
    /\ MessageBytes \in [Rules -> Nat \ {0}]
    /\ BufferSize \in Nat \ {0}
    /\ MaxRequests \in Nat
    /\ IsFiniteSet(Threads)
    /\ NoThread \notin Threads
    /\ Owner \notin Threads
    /\ Libraries \subseteq {"current", "older", "missing"}
    /\ Rules \cap {"valid", "malformed", "ready", "status", "none", "limits", "internal"} = {}

VARIABLES
    library,                \* the native library on disk
    accepting,              \* whether the server takes requests
    provider,               \* the service provider: "open", "disposing", "disposed"
    gateway,                \* the gateway singleton: "none" or "created"
    creator,                \* the thread that is creating the gateway
    controllers,            \* native controllers allocated and not destroyed
    closed,                 \* the safe handle's closed flag
    holders,                \* who holds a reference to the safe handle
    lastError,              \* last_error_message of each thread
    pc, request, status, reason, answer,    \* the request of each thread
    received,               \* requests received so far
    counted,                \* the statistics: decided, rejected, failed
    answered                \* answers sent to decision requests, by kind

service == <<library, accepting, provider, gateway, creator>>
native == <<controllers, closed, holders, lastError>>
local == <<pc, request, status, reason, answer>>
tallies == <<received, counted, answered>>
vars == <<service, native, local, tallies>>

NoReason == [rule |-> NoError, bytes |-> 0]
NoAnswer == [kind |-> "none", reason |-> NoReason]
Answer(kind) == [kind |-> kind, reason |-> NoReason]

Init ==
    /\ library \in Libraries
    /\ accepting = TRUE
    /\ provider = "open"
    /\ gateway = "none"
    /\ creator = NoThread
    /\ controllers = 0
    /\ closed = FALSE
    /\ holders = {}
    /\ lastError = [t \in Threads |-> NoError]
    /\ pc = [t \in Threads |-> "idle"]
    /\ request = [t \in Threads |-> NoRequest]
    /\ status = [t \in Threads |-> "Ok"]
    /\ reason = [t \in Threads |-> NoReason]
    /\ answer = [t \in Threads |-> NoAnswer]
    /\ received = 0
    /\ counted = [decided |-> 0, rejected |-> 0, failed |-> 0]
    /\ answered = [Decision |-> 0, BadRequest |-> 0, ServerError |-> 0, Unavailable |-> 0]

Goto(t, label) == pc' = [pc EXCEPT ![t] = label]
Reply(t, a) == answer' = [answer EXCEPT ![t] = a] /\ Goto(t, "respond")

-----------------------------------------------------------------------------
(* A request arrives.  A body that cannot be bound is answered before the    *)
(* endpoint and its services are needed.                                     *)

Receive(t, r) ==
    /\ accepting
    /\ pc[t] = "idle"
    /\ received < MaxRequests
    /\ received' = received + 1
    /\ request' = [request EXCEPT ![t] = r]
    /\ status' = [status EXCEPT ![t] = "Ok"]
    /\ reason' = [reason EXCEPT ![t] = NoReason]
    /\ IF r = "malformed"
       THEN Reply(t, Answer("InvalidBody"))
       ELSE Goto(t, "resolve") /\ answer' = [answer EXCEPT ![t] = NoAnswer]
    /\ UNCHANGED <<service, native, counted, answered>>

-----------------------------------------------------------------------------
(* The service provider resolves the gateway singleton: one thread creates   *)
(* it while the others wait, and a creation that throws is tried again.      *)

\* What the kinds of requests make of a resolved gateway and of an exception.  To
\* the client, "Unavailable" is a server error like any other.
Resolved(t) ==
    CASE request[t] = "ready"  -> Reply(t, Answer("Healthy"))
      [] request[t] = "status" -> Reply(t, Answer("Healthy"))
      [] OTHER                 -> Goto(t, "check") /\ UNCHANGED answer

ResolutionFails(t) ==
    CASE request[t] = "ready"  -> Reply(t, Answer("Unhealthy"))
      [] request[t] = "status" -> Reply(t, Answer("Degraded"))
      [] OTHER                 -> Reply(t, Answer("Unavailable"))

Resolve(t) ==
    /\ pc[t] = "resolve"
    /\ \/ provider # "open" /\ ResolutionFails(t) /\ UNCHANGED creator
       \/ provider = "open" /\ gateway = "created" /\ Resolved(t) /\ UNCHANGED creator
       \/ /\ provider = "open" /\ gateway = "none" /\ creator = NoThread
          /\ creator' = t
          /\ Goto(t, "create")
          /\ UNCHANGED answer
    /\ UNCHANGED <<library, accepting, provider, gateway, native,
                   request, status, reason, tallies>>

\* Mutants: a creation that throws leaves the others waiting; the version is checked
\* when the controller exists.
CreateKeepsLock(t) ==
    /\ pc[t] = "create"
    /\ \/ /\ library = "current"
          /\ controllers' = controllers + 1
          /\ holders' = {Owner}
          /\ Goto(t, "capture")
          /\ UNCHANGED answer
       \/ ResolutionFails(t) /\ UNCHANGED <<controllers, holders>>
    /\ UNCHANGED <<library, accepting, provider, gateway, creator, closed, lastError,
                   request, status, reason, tallies>>

CreateChecksLast(t) ==
    /\ pc[t] = "create"
    /\ controllers' = controllers + 1
    /\ IF library = "current"
       THEN holders' = {Owner} /\ Goto(t, "capture") /\ UNCHANGED <<creator, answer>>
       ELSE creator' = NoThread /\ ResolutionFails(t) /\ UNCHANGED holders
    /\ UNCHANGED <<library, accepting, provider, gateway, closed, lastError,
                   request, status, reason, tallies>>

\* The version check, then gridflex_controller_create.
Create(t) ==
    /\ pc[t] = "create"
    /\ IF library = "current"
       THEN \/ /\ controllers' = controllers + 1
               /\ holders' = {Owner}
               /\ lastError' = [lastError EXCEPT ![t] = NoError]
               /\ Goto(t, "capture")
               /\ UNCHANGED <<creator, answer>>
            \/ /\ \E error \in {"limits", "internal", NoError} :
                     lastError' = [lastError EXCEPT ![t] = error]
               /\ creator' = NoThread
               /\ ResolutionFails(t)
               /\ UNCHANGED <<controllers, holders>>
       ELSE /\ creator' = NoThread
            /\ ResolutionFails(t)
            /\ UNCHANGED <<controllers, holders, lastError>>
    /\ UNCHANGED <<library, accepting, provider, gateway, closed,
                   request, status, reason, tallies>>

\* Giving up a reference; with the last one the native controller is destroyed.
Release(who) ==
    /\ holders' = holders \ {who}
    /\ controllers' = IF holders = {who} THEN controllers - 1 ELSE controllers

\* The provider keeps the new singleton, or disposes it when it came too late.
Capture(t) ==
    /\ pc[t] = "capture"
    /\ creator' = NoThread
    /\ \/ /\ provider = "open"
          /\ gateway' = "created"
          /\ Resolved(t)
          /\ UNCHANGED <<controllers, closed, holders>>
       \/ /\ provider # "open"
          /\ closed' = TRUE
          /\ Release(Owner)
          /\ ResolutionFails(t)
          /\ UNCHANGED gateway
    /\ UNCHANGED <<library, accepting, provider, lastError,
                   request, status, reason, tallies>>

-----------------------------------------------------------------------------
(* NativeControllerGateway.Decide, instrumented.  The marshaller takes a     *)
(* reference to the handle around the call and gives it back before the      *)
(* reason of a failure is read on the same thread.                           *)

CheckOpen(t) ==
    /\ pc[t] = "check"
    /\ IF closed
       THEN status' = [status EXCEPT ![t] = "Disposed"] /\ Goto(t, "count")
       ELSE Goto(t, "acquire") /\ UNCHANGED status
    /\ UNCHANGED <<service, native, request, reason, answer, tallies>>

Acquire(t) ==
    /\ pc[t] = "acquire"
    /\ IF closed
       THEN /\ status' = [status EXCEPT ![t] = "Disposed"]
            /\ Goto(t, "count")
            /\ UNCHANGED holders
       ELSE /\ holders' = holders \cup {t}
            /\ Goto(t, "native")
            /\ UNCHANGED status
    /\ UNCHANGED <<service, controllers, closed, lastError,
                   request, reason, answer, tallies>>

\* Mutant: the reason is kept for the process.
FailsWithShared(t, code, error) ==
    /\ status' = [status EXCEPT ![t] = code]
    /\ \E kept \in {error, NoError} : lastError' = [u \in Threads |-> kept]

\* A failure leaves its reason, or none when there is no memory for it.
FailsWith(t, code, error) ==
    /\ status' = [status EXCEPT ![t] = code]
    /\ \E kept \in {error, NoError} : lastError' = [lastError EXCEPT ![t] = kept]

\* Mutant: success leaves an old reason.
NativeDecideUncleared(t) ==
    /\ pc[t] = "native"
    /\ \/ request[t] \in Rules /\ FailsWith(t, "InvalidMeasurement", request[t])
       \/ FailsWith(t, "InternalError", "internal")
       \/ request[t] = "valid" /\ UNCHANGED <<status, lastError>>
    /\ Goto(t, "release")
    /\ UNCHANGED <<service, controllers, closed, holders,
                   request, reason, answer, tallies>>

NativeDecide(t) ==
    /\ pc[t] = "native"
    /\ \/ request[t] \in Rules /\ FailsWith(t, "InvalidMeasurement", request[t])
       \/ FailsWith(t, "InternalError", "internal")
       \/ /\ request[t] = "valid"
          /\ lastError' = [lastError EXCEPT ![t] = NoError]
          /\ UNCHANGED status
    /\ Goto(t, "release")
    /\ UNCHANGED <<service, controllers, closed, holders,
                   request, reason, answer, tallies>>

ReleaseHandle(t) ==
    /\ pc[t] = "release"
    /\ Release(t)
    /\ Goto(t, IF status[t] = "Ok" THEN "count" ELSE "explain")
    /\ UNCHANGED <<service, closed, lastError, request, status, reason, answer, tallies>>

Smaller(a, b) == IF a <= b THEN a ELSE b

\* What one call copies of a message into a buffer, and what the two calls of
\* ReadLastErrorMessage make of it.
Copied(length, size) == Smaller(length, size - 1)

MessageText(length) ==
    IF length < BufferSize THEN Copied(length, BufferSize) ELSE Copied(length, length + 1)

\* Only an invalid measurement is answered with the reason that was read.
ReadReason(t) ==
    /\ pc[t] = "explain"
    /\ reason' = [reason EXCEPT ![t] =
            IF lastError[t] \in Rules
            THEN [rule |-> lastError[t], bytes |-> MessageText(MessageBytes[lastError[t]])]
            ELSE [rule |-> lastError[t], bytes |-> 0]]
    /\ Goto(t, "count")
    /\ UNCHANGED <<service, native, request, status, answer, tallies>>

\* The decorator counts the outcome; the endpoint answers the exception or the decision.
Outcome(code) ==
    CASE code = "Ok"                 -> "decided"
      [] code = "InvalidMeasurement" -> "rejected"
      [] OTHER                       -> "failed"

\* Mutant: an exception that is no rejection is not counted.
CountUnfailed(t) ==
    /\ pc[t] = "count"
    /\ counted' = IF Outcome(status[t]) = "failed" THEN counted
                  ELSE [counted EXCEPT ![Outcome(status[t])] = @ + 1]
    /\ Reply(t, CASE status[t] = "Ok" -> Answer("Decision")
                  [] status[t] = "InvalidMeasurement" ->
                        [kind |-> "BadRequest", reason |-> reason[t]]
                  [] OTHER -> Answer("ServerError"))
    /\ UNCHANGED <<service, native, request, status, reason, received, answered>>

Count(t) ==
    /\ pc[t] = "count"
    /\ counted' = [counted EXCEPT ![Outcome(status[t])] = @ + 1]
    /\ Reply(t, CASE status[t] = "Ok" -> Answer("Decision")
                  [] status[t] = "InvalidMeasurement" ->
                        [kind |-> "BadRequest", reason |-> reason[t]]
                  [] OTHER -> Answer("ServerError"))
    /\ UNCHANGED <<service, native, request, status, reason, received, answered>>

Respond(t) ==
    /\ pc[t] = "respond"
    /\ answered' = IF answer[t].kind \in DOMAIN answered
                   THEN [answered EXCEPT ![answer[t].kind] = @ + 1] ELSE answered
    /\ Goto(t, "idle")
    /\ UNCHANGED <<service, native, request, status, reason, answer, received, counted>>

-----------------------------------------------------------------------------
(* Shutdown.  The server waits for running requests only for a while.        *)

Stop ==
    /\ accepting
    /\ accepting' = FALSE
    /\ UNCHANGED <<library, provider, gateway, creator, native, local, tallies>>

DisposeProvider ==
    /\ ~accepting
    /\ provider = "open"
    /\ provider' = IF gateway = "created" THEN "disposing" ELSE "disposed"
    /\ UNCHANGED <<library, accepting, gateway, creator, native, local, tallies>>

\* Mutants: the native controller is destroyed whoever is using it, or by nobody.
DisposeGatewayNow ==
    /\ provider = "disposing"
    /\ provider' = "disposed"
    /\ closed' = TRUE
    /\ holders' = {}
    /\ controllers' = controllers - 1
    /\ UNCHANGED <<library, accepting, gateway, creator, lastError, local, tallies>>

DisposeGatewayOpen ==
    /\ provider = "disposing"
    /\ provider' = "disposed"
    /\ UNCHANGED <<library, accepting, gateway, creator, native, local, tallies>>

DisposeGateway ==
    /\ provider = "disposing"
    /\ provider' = "disposed"
    /\ closed' = TRUE
    /\ Release(Owner)
    /\ UNCHANGED <<library, accepting, gateway, creator, lastError, local, tallies>>

Handle(t) ==
    \/ Resolve(t) \/ Create(t) \/ Capture(t)
    \/ CheckOpen(t) \/ Acquire(t) \/ NativeDecide(t) \/ ReleaseHandle(t)
    \/ ReadReason(t) \/ Count(t) \/ Respond(t)

Next ==
    \/ \E t \in Threads : Handle(t) \/ \E r \in Request : Receive(t, r)
    \/ Stop \/ DisposeProvider \/ DisposeGateway

\* A thread that handles a request keeps running, and a disposal that has begun
\* is carried through; requests need not arrive and the server need not stop.
Fairness ==
    /\ \A t \in Threads : WF_vars(Handle(t))
    /\ WF_vars(DisposeGateway)

Spec == Init /\ [][Next]_vars /\ Fairness

-----------------------------------------------------------------------------

Labels == {"idle", "resolve", "create", "capture", "check", "acquire", "native",
           "release", "explain", "count", "respond"}
Kinds == {"none", "Decision", "BadRequest", "ServerError", "Unavailable",
          "InvalidBody", "Healthy", "Unhealthy", "Degraded"}
Reasons == [rule: Errors \cup {NoError}, bytes: Nat]

\* The type invariant: the one controller the gateway owns, the handle's references,
\* and where each request thread is.
TypeOK ==
    /\ library \in Libraries
    /\ accepting \in BOOLEAN
    /\ provider \in {"open", "disposing", "disposed"}
    /\ gateway \in {"none", "created"}
    /\ creator \in Threads \cup {NoThread}
    /\ controllers \in Nat
    /\ closed \in BOOLEAN
    /\ holders \subseteq Threads \cup {Owner}
    /\ lastError \in [Threads -> Errors \cup {NoError}]
    /\ pc \in [Threads -> Labels]
    /\ request \in [Threads -> Request \cup {NoRequest}]
    /\ status \in [Threads -> {"Ok", "InvalidMeasurement", "InternalError", "Disposed"}]
    /\ reason \in [Threads -> Reasons]
    /\ answer \in [Threads -> [kind: Kinds, reason: Reasons]]
    /\ received \in 0 .. MaxRequests
    /\ counted \in [{"decided", "rejected", "failed"} -> Nat]
    /\ answered \in [{"Decision", "BadRequest", "ServerError", "Unavailable"} -> Nat]

\* A thread inside the native decide function works on a controller that exists,
\* also when the gateway is disposed between its check of the closed flag and the
\* call, or during the call.
NoUseAfterDestroy ==
    \A t \in Threads : pc[t] \in {"native", "release"} => controllers = 1

\* The life of the native controller: who is in it, and where it stands.
Inside == { t \in Threads : pc[t] \in {"native", "release"} }

Phase ==
    CASE controllers = 0 /\ ~closed -> "absent"
      [] controllers = 1 /\ ~closed -> "open"
      [] controllers = 1 /\ closed  -> "closing"
      [] controllers = 0 /\ closed  -> "gone"
      [] OTHER                      -> "several"

Lifetime == INSTANCE ControllerLifetime WITH
    Callers <- Threads, phase <- Phase, inside <- Inside

\* There is one native controller at most, once, however many first requests race, a
\* creation fails or comes too late: nobody enters it after the handle was closed, and
\* it is destroyed with the last call in it, never under a call.
KeepsLifetime == Lifetime!Spec

\* A rejected measurement is answered with the whole message of the rule it
\* violates, or with the generic text: never with the reason of another thread, of
\* an earlier request of this thread, or with a truncated one.  Destroying the
\* controller on this thread before the reason is read does not disturb it.
ReasonIsOwn ==
    \A t \in Threads : answer[t].kind = "BadRequest" =>
        /\ request[t] \in Rules
        /\ answer[t].reason \in
             { [rule |-> request[t], bytes |-> MessageBytes[request[t]]], NoReason }

\* As the native header says: after a call that succeeded there is no last error on
\* its thread.
NoStaleError ==
    \A t \in Threads : pc[t] = "release" /\ status[t] = "Ok" => lastError[t] = NoError

\* The statistics are what the clients were told: every decision, rejection and
\* failure of the controller is counted once, the answers under way included.
Sent(kind) ==
    answered[kind] + Cardinality({ t \in Threads : pc[t] = "respond" /\ answer[t].kind = kind })

CountsMatchAnswers ==
    /\ counted.decided = Sent("Decision")
    /\ counted.rejected = Sent("BadRequest")
    /\ counted.failed = Sent("ServerError")

\* "decisions counts the decisions since the process started, by action, together
\* with rejected and failed requests" (README.md): every decision request that got a
\* server error is counted as failed.
FailuresCounted == counted.failed = Sent("ServerError") + Sent("Unavailable")

\* "its existing version check rejects an older library at startup" (decision 0003):
\* no server with an older library takes a request.
CheckedAtStartup == received > 0 => library # "older"

\* Every request that was received is answered: nobody waits forever for a creation
\* that failed.
RequestsAnswered == \A t \in Threads : pc[t] # "idle" ~> pc[t] = "idle"

\* After a shutdown the native controller is destroyed, once the last call in it
\* has returned, and none is created again.
ControllerDestroyed == (provider # "open") ~> [](controllers = 0)
=============================================================================
