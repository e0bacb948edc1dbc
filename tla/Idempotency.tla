---------------------------- MODULE Idempotency ----------------------------
(***************************************************************************)
(* The idempotency middleware of /v1/payments: requests with an            *)
(* Idempotency-Key claim it in Redis with SET NX, run their handler, and   *)
(* cache the response or delete the key.  Labels are the Redis commands    *)
(* and the handler; between two of them other requests run.                *)
(***************************************************************************)
EXTENDS Naturals, FiniteSets

CONSTANTS
    Requests,      \* requests, in any number of replicas of the server
    Keys,          \* Redis keys: "idempotency:" merchant ":" header
    NoKey,         \* no header, a method that is not enforced, or no Redis
    MaxFaults,     \* bound on Redis errors, lost replies and interrupted requests
    MaxResends,    \* bound on the DELs that the client library sends again
    MaxExpiries    \* bound on the expiries of each key

ASSUME NoKeyAssumption == NoKey \notin Keys
ASSUME BoundsAssumption == MaxFaults \in Nat /\ MaxResends \in Nat /\ MaxExpiries \in Nat

VARIABLES
    store,      \* store[k]: what Redis holds
    req,        \* req[r]: program counter, key, outcome of the handler, answer
    faults,     \* faults so far
    resends,    \* DELs sent again so far
    expired     \* expired[k]: expiries of the key so far

vars == <<store, req, faults, resends, expired>>

Labels == {"idle", "claim", "read", "handler", "settle", "resend", "done"}

\* What became of the handler: "half" is a failure after the PSP carried the call out.
Outcomes == {"none", "ok", "refused", "half"}
Effective == {"ok", "half"}

\* The code stores the text __PROCESSING__; "by" is whose it is, which no code can read.
Absent == [kind |-> "absent"]
Marker(r) == [kind |-> "marker", by |-> r]
Response(r) == [kind |-> "response", by |-> r]
Values == {Absent} \cup {Marker(r) : r \in Requests} \cup {Response(r) : r \in Requests}

Pending == [kind |-> "pending"]
Own(ok) == [kind |-> IF ok THEN "own_success" ELSE "own_failure"]
Replay(q) == [kind |-> "replay", by |-> q]
Conflict == [kind |-> "conflict"]
Error == [kind |-> "error"]
Answers ==
    {Pending, Own(TRUE), Own(FALSE), Conflict, Error} \cup {Replay(q) : q \in Requests}

Idle == [pc |-> "idle", key |-> NoKey, outcome |-> "none", answer |-> Pending]

Init ==
    /\ store = [k \in Keys |-> Absent]
    /\ req = [r \in Requests |-> Idle]
    /\ faults = 0
    /\ resends = 0
    /\ expired = [k \in Keys |-> 0]

-----------------------------------------------------------------------------

At(r, label) == req[r].pc = label

Goto(r, label) == req' = [req EXCEPT ![r].pc = label]

End(r, answer) == req' = [req EXCEPT ![r].pc = "done", ![r].answer = answer]

Put(k, v) == store' = [store EXCEPT ![k] = v]

Fault == faults < MaxFaults /\ faults' = faults + 1

CountersStay == UNCHANGED <<faults, resends, expired>>

\* The early returns to the next handler, or the way into the middleware.
Arrive(r) ==
    /\ At(r, "idle")
    /\ \E k \in Keys \cup {NoKey} :
        req' = [req EXCEPT ![r].pc = IF k = NoKey THEN "handler" ELSE "claim", ![r].key = k]
    /\ CountersStay
    /\ UNCHANGED store

\* Mutant: SET without NX, after a GET that saw no response.
Claim_NotAtomic(r) ==
    LET k == req[r].key
    IN  /\ At(r, "claim")
        /\ IF store[k].kind # "response"
           THEN Put(k, Marker(r)) /\ Goto(r, "handler")
           ELSE Goto(r, "read") /\ UNCHANGED store
        /\ CountersStay

\* SetNX
Claim(r) ==
    LET k == req[r].key
    IN  /\ At(r, "claim")
        /\ IF store[k] = Absent
           THEN Put(k, Marker(r)) /\ Goto(r, "handler")
           ELSE Goto(r, "read") /\ UNCHANGED store
        /\ CountersStay

\* SetNX fails, or it is carried out and its reply lost: then the client library may send
\* it again and find the key there.
ClaimFails(r) ==
    LET k == req[r].key
    IN  /\ At(r, "claim")
        /\ Fault
        /\ \/ End(r, Error) /\ UNCHANGED store
           \/ /\ store[k] = Absent
              /\ Put(k, Marker(r))
              /\ End(r, Error) \/ Goto(r, "read")
        /\ UNCHANGED <<resends, expired>>

\* Get: the key may be gone by now, which is an error (redis.Nil).
Read(r) ==
    LET v == store[req[r].key]
    IN  /\ At(r, "read")
        /\ End(r, CASE v.kind = "absent" -> Error
                    [] v.kind = "marker" -> Conflict
                    [] v.kind = "response" -> Replay(v.by))
        /\ CountersStay
        /\ UNCHANGED store

ReadFails(r) ==
    /\ At(r, "read")
    /\ Fault
    /\ End(r, Error)
    /\ UNCHANGED <<store, resends, expired>>

\* next.ServeHTTP
Handle(r) ==
    /\ At(r, "handler")
    /\ \E o \in Outcomes \ {"none"} :
        req' = IF req[r].key = NoKey
               THEN [req EXCEPT ![r].outcome = o, ![r].pc = "done", ![r].answer = Own(o = "ok")]
               ELSE [req EXCEPT ![r].outcome = o, ![r].pc = "settle"]
    /\ CountersStay
    /\ UNCHANGED store

\* Mutant: Every response is cached, whatever its status.
Settle_AnyStatus(r) ==
    /\ At(r, "settle")
    /\ Put(req[r].key, Response(r))
    /\ End(r, Own(req[r].outcome = "ok"))
    /\ CountersStay

\* Mutant: A value of a kind the middleware does not know is cached.
Settle_Unlisted(r) ==
    LET ok == req[r].outcome = "ok"
    IN  /\ At(r, "settle")
        /\ Put(req[r].key, IF ok THEN [kind |-> "processed", by |-> r] ELSE Absent)
        /\ End(r, Own(ok))
        /\ CountersStay

\* cacheResponse after a 2xx, Del after anything else.
Settle(r) ==
    LET ok == req[r].outcome = "ok"
    IN  /\ At(r, "settle")
        /\ Put(req[r].key, IF ok THEN Response(r) ELSE Absent)
        /\ End(r, Own(ok))
        /\ CountersStay

\* Mutant: The key is deleted whenever the response could not be cached.
SettleFails_Release(r) ==
    /\ At(r, "settle")
    /\ Fault
    /\ Put(req[r].key, Absent)
    /\ End(r, Own(req[r].outcome = "ok"))
    /\ UNCHANGED <<resends, expired>>

\* The command is not carried out: Redis is down, or the request's context is over.  The error
\* of Set is logged, that of Del dropped; the client has its answer already.
SettleFails(r) ==
    /\ At(r, "settle")
    /\ Fault
    /\ End(r, Own(req[r].outcome = "ok"))
    /\ UNCHANGED <<store, resends, expired>>

\* Del is carried out and its reply lost: the client library sends it again.
ReplyLost(r) ==
    /\ At(r, "settle")
    /\ req[r].outcome # "ok"
    /\ resends < MaxResends
    /\ resends' = resends + 1
    /\ Put(req[r].key, Absent)
    /\ Goto(r, "resend")
    /\ UNCHANGED <<faults, expired>>

Resend(r) ==
    /\ At(r, "resend")
    /\ Put(req[r].key, Absent)
    /\ End(r, Own(FALSE))
    /\ CountersStay

\* A panic in the handler passes the middleware by, and a crash stops it.
Interrupt(r) ==
    /\ req[r].pc \in {"handler", "settle"}
    /\ Fault
    /\ \E o \in IF At(r, "handler") THEN {"refused", "half"} ELSE {req[r].outcome} :
        req' = [req EXCEPT ![r].outcome = o, ![r].pc = "done", ![r].answer = Error]
    /\ UNCHANGED <<store, resends, expired>>

\* The key reaches its age of 24 hours; no request runs that long.
Expire(k) ==
    /\ store[k] # Absent
    /\ \A r \in Requests : req[r].key = k => req[r].pc \notin {"handler", "settle", "resend"}
    /\ expired[k] < MaxExpiries
    /\ expired' = [expired EXCEPT ![k] = @ + 1]
    /\ Put(k, Absent)
    /\ UNCHANGED <<req, faults, resends>>

Step(r) ==
    \/ Arrive(r) \/ Claim(r) \/ ClaimFails(r) \/ Read(r) \/ ReadFails(r) \/ Handle(r)
    \/ Settle(r) \/ SettleFails(r) \/ ReplyLost(r) \/ Resend(r) \/ Interrupt(r)

Next == (\E r \in Requests : Step(r)) \/ (\E k \in Keys : Expire(k))

Spec == Init /\ [][Next]_vars

-----------------------------------------------------------------------------

\* Every part of the state has its type.
TypeOK ==
    /\ store \in [Keys -> Values]
    /\ req \in [Requests -> [pc : Labels, key : Keys \cup {NoKey}, outcome : Outcomes, answer : Answers]]
    /\ faults \in 0..MaxFaults
    /\ resends \in 0..MaxResends
    /\ expired \in [Keys -> 0..MaxExpiries]

InFlight(k) == {r \in Requests : req[r].key = k /\ req[r].pc \in {"handler", "settle"}}

\* One request of a key runs its handler at a time, unless a DEL that is sent again deletes
\* the claim of the next request.
OneInFlight == \A k \in Keys : Cardinality(InFlight(k)) <= 1 + resends

Succeeded(k) == {r \in Requests : req[r].key = k /\ req[r].outcome = "ok"}

\* The handler of a key succeeds once in the life of the key, also when the response could
\* not be cached, when requests are interrupted and when Redis fails.
OneSuccessPerLife == \A k \in Keys : Cardinality(Succeeded(k)) <= 1 + expired[k] + resends

\* A request that is served from the cache gets the response of a request with its own key that
\* succeeded: never a failure, a marker or the response to another key.
ReplaySound ==
    \A r, q \in Requests :
        req[r].answer = Replay(q) => q \in Succeeded(req[r].key) /\ q # r

-----------------------------------------------------------------------------

\* The request whose handler the marker of a key stands for.
Holder(k) == {r \in InFlight(k) : store[k] = Marker(r)}

Once == INSTANCE OnceCell WITH
    cell <- [k \in Keys |->
        IF store[k] = Absent THEN [kind |-> "free"]
        ELSE IF store[k].kind = "response" THEN [kind |-> "done", by |-> store[k].by]
        ELSE IF Holder(k) # {} THEN [kind |-> "running", by |-> store[k].by]
        ELSE [kind |-> "blocked"]],
    answer <- [r \in Requests |-> req[r].answer]

\* As long as no DEL is sent again, each step of the middleware is a step of cells that run one
\* request at a time.
ImplementsOnceCell ==
    Once!Init /\ [][resends' = 0 => [Once!Next]_(Once!vars)]_vars

=============================================================================
