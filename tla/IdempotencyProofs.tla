-------------------------- MODULE IdempotencyProofs --------------------------
(***************************************************************************)
(* Proofs about Idempotency for any number of requests, keys, faults,      *)
(* resent DELs and expiries.                                               *)
(*                                                                         *)
(* Two counts are inductive where the properties are not.  A request that  *)
(* is Busy with a key, and the key itself while it is free, are chances    *)
(* for a handler to run: only a DEL that is sent again makes one more.     *)
(* A request that is Live has succeeded or still may: only such a DEL or   *)
(* an expiry makes one more.                                               *)
(***************************************************************************)
EXTENDS Idempotency, FiniteSetTheorems, TLAPS

RunLabels == {"handler", "settle", "resend"}

IsBusy(u, k) == u.key = k /\ u.pc \in RunLabels
IsLive(u, k) == u.key = k /\ (u.pc \in RunLabels \/ u.outcome = "ok")

Busy(k) == {r \in Requests : IsBusy(req[r], k)}
Live(k) == {r \in Requests : IsLive(req[r], k)}

\* A free key lets one more request in.
Room(k) == IF store[k] = Absent THEN 1 ELSE 0

CountInv ==
    \A k \in Keys :
        /\ IsFiniteSet(Live(k))
        /\ Cardinality(Busy(k)) + Room(k) <= 1 + resends
        /\ Cardinality(Live(k)) + Room(k) <= 1 + expired[k] + resends

\* A request has its key from its arrival on, an outcome once its handler
\* has returned, and an answer when it is over.
RequestOK(u, sent) ==
    /\ u.pc \in {"idle", "claim", "read", "handler"} => u.outcome = "none"
    /\ u.pc \in {"claim", "read", "settle", "resend"} => u.key \in Keys
    /\ u.pc # "done" => u.answer = Pending
    /\ u.pc = "settle" => u.outcome # "none"
    /\ u.pc = "resend" => u.outcome # "ok" /\ sent > 0

RequestInv == \A r \in Requests : RequestOK(req[r], resends)

\* The request q succeeded with key k, and is over.
Answered(q, k) == q \in Requests /\ req[q].key = k /\ req[q].outcome = "ok" /\ req[q].pc = "done"

\* Every response that is cached or was handed out is that of a success.
ResponseInv ==
    /\ \A k \in Keys : store[k].kind = "response" => Answered(store[k].by, k)
    /\ \A r \in Requests : req[r].answer.kind = "replay" =>
         req[r].outcome = "none" /\ Answered(req[r].answer.by, req[r].key)

\* While no DEL was sent again, a handler that runs has its marker in place.
ClaimInv ==
    resends = 0 => \A k \in Keys : \A r \in InFlight(k) : store[k] = Marker(r)

IInv == TypeOK /\ CountInv /\ RequestInv /\ ResponseInv /\ ClaimInv

-----------------------------------------------------------------------------
(* Values, records and counts.                                              *)

ReqRecord == [pc : Labels, key : Keys \cup {NoKey}, outcome : Outcomes, answer : Answers]

LEMMA Types ==
    ASSUME IInv
    PROVE  /\ store \in [Keys -> Values] /\ req \in [Requests -> ReqRecord]
           /\ faults \in 0..MaxFaults /\ resends \in 0..MaxResends
           /\ expired \in [Keys -> 0..MaxExpiries]
           /\ CountInv /\ RequestInv /\ ResponseInv /\ ClaimInv
           /\ MaxFaults \in Nat /\ MaxResends \in Nat /\ MaxExpiries \in Nat /\ NoKey \notin Keys
BY BoundsAssumption, NoKeyAssumption DEF IInv, TypeOK, ReqRecord

\* The kinds of values tell what they are and whose.
LEMMA ValueKinds ==
    /\ Absent \in Values /\ Absent.kind = "absent"
    /\ \A r \in Requests :
        /\ Marker(r) \in Values /\ Marker(r).kind = "marker" /\ Marker(r).by = r
        /\ Response(r) \in Values /\ Response(r).kind = "response" /\ Response(r).by = r
    /\ \A v \in Values :
        \/ v = Absent
        \/ \E r \in Requests : v = Marker(r) \/ v = Response(r)
BY DEF Values, Absent, Marker, Response

LEMMA OneMarker ==
    ASSUME NEW q \in Requests, NEW r \in Requests, Marker(q) = Marker(r)
    PROVE  q = r
<1>1. Marker(q).by = q /\ Marker(r).by = r
  BY DEF Marker
<1> QED
  BY <1>1

LEMMA AnswerKinds ==
    /\ Pending \in Answers /\ Conflict \in Answers /\ Error \in Answers
    /\ \A ok \in BOOLEAN : Own(ok) \in Answers /\ Own(ok).kind # "replay"
    /\ Pending.kind # "replay" /\ Conflict.kind # "replay" /\ Error.kind # "replay"
    /\ \A q \in Requests : Replay(q) \in Answers /\ Replay(q).kind = "replay" /\ Replay(q).by = q
BY DEF Answers, Pending, Own, Conflict, Error, Replay

\* One element more or less.
LEMMA OneElement ==
    ASSUME NEW S, IsFiniteSet(S), NEW x, NEW T, T \subseteq S \cup {x}
    PROVE  /\ IsFiniteSet(T) /\ Cardinality(S) \in Nat /\ Cardinality(T) \in Nat
           /\ Cardinality(T) <= Cardinality(S) + 1
           /\ x \notin T \/ x \in S => Cardinality(T) <= Cardinality(S)
           /\ x \in S /\ x \notin T => Cardinality(T) <= Cardinality(S) - 1
<1>1. /\ IsFiniteSet(S \cup {x}) /\ Cardinality(S) \in Nat
      /\ Cardinality(S \cup {x}) <= Cardinality(S) + 1
  <2>1. Cardinality(S) \in Nat
    BY FS_CardinalityType
  <2>2. /\ IsFiniteSet(S \cup {x})
        /\ Cardinality(S \cup {x}) = IF x \in S THEN Cardinality(S) ELSE Cardinality(S) + 1
    BY FS_AddElement
  <2> QED
    BY <2>1, <2>2
<1>2. IsFiniteSet(T) /\ Cardinality(T) \in Nat /\ Cardinality(T) <= Cardinality(S \cup {x})
  BY <1>1, FS_Subset, FS_CardinalityType
<1>3. ASSUME x \notin T \/ x \in S
      PROVE  Cardinality(T) <= Cardinality(S)
  <2>1. T \subseteq S
    BY <1>3
  <2> QED
    BY <2>1, FS_Subset
<1>4. ASSUME x \in S, x \notin T
      PROVE  Cardinality(T) <= Cardinality(S) - 1
  <2>1. T \subseteq S \ {x}
    BY <1>4
  <2>2. IsFiniteSet(S \ {x}) /\ Cardinality(S \ {x}) = Cardinality(S) - 1
    BY <1>4, FS_RemoveElement
  <2> QED
    BY <2>1, <2>2, FS_Subset
<1> QED
  BY <1>1, <1>2, <1>3, <1>4, FS_CardinalityType

LEMMA Counts ==
    ASSUME IInv, NEW k \in Keys
    PROVE  /\ IsFiniteSet(Live(k)) /\ IsFiniteSet(Busy(k)) /\ Busy(k) \subseteq Live(k)
           /\ Cardinality(Live(k)) \in Nat /\ Cardinality(Busy(k)) \in Nat
           /\ Cardinality(Busy(k)) + Room(k) <= 1 + resends
           /\ Cardinality(Live(k)) + Room(k) <= 1 + expired[k] + resends
           /\ Room(k) \in {0, 1} /\ expired[k] \in Nat /\ resends \in Nat
<1>1. Busy(k) \subseteq Live(k)
  BY DEF Busy, Live, IsBusy, IsLive
<1>2. IsFiniteSet(Live(k))
  BY Types DEF CountInv
<1>3. IsFiniteSet(Busy(k))
  BY <1>1, <1>2, FS_Subset
<1>4. Room(k) \in {0, 1} /\ expired[k] \in Nat /\ resends \in Nat
  BY Types DEF Room
<1> QED
  BY <1>1, <1>2, <1>3, <1>4, FS_CardinalityType, Types DEF CountInv

-----------------------------------------------------------------------------
(* What a step of a request r, which becomes u, does.                       *)

\* What it does to the counts of key k: nothing that adds to them; or it
\* takes the room of the key; or it ends; or its DEL will be sent again.
KeyCount(r, u, k) ==
    \/ /\ store'[k] = Absent => store[k] = Absent
       /\ IsBusy(u, k) => IsBusy(req[r], k)
       /\ IsLive(u, k) => IsLive(req[r], k)
    \/ store[k] = Absent /\ store'[k] # Absent
    \/ IsBusy(req[r], k) /\ ~IsLive(u, k)
    \/ /\ resends' = resends + 1
       /\ IsBusy(u, k) => IsBusy(req[r], k)
       /\ IsLive(u, k) => IsLive(req[r], k)

\* What it does to the value of key k.
KeyValue(r, u, k) ==
    /\ store'[k] \in Values
    /\ store'[k].kind = "response" =>
         \/ store'[k] = store[k]
         \/ store'[k].by = r /\ u.key = k /\ u.outcome = "ok" /\ u.pc = "done"
    /\ resends' = 0 =>
         /\ \A q \in InFlight(k) \ {r} : store'[k] = Marker(q)
         /\ u.key = k /\ u.pc \in {"handler", "settle"} => store'[k] = Marker(r)

RequestStep(r, u) ==
    /\ u \in ReqRecord
    /\ req' = [req EXCEPT ![r] = u]
    /\ req[r].pc # "done"
    /\ RequestOK(u, resends')
    /\ u.answer.kind = "replay" => u.outcome = "none" /\ Answered(u.answer.by, u.key)

CountersStep ==
    /\ faults' \in 0..MaxFaults
    /\ resends' \in 0..MaxResends /\ resends' >= resends
    /\ expired' = expired

StoreStep(r, u) ==
    /\ store' \in [Keys -> Values]
    /\ \A k \in Keys : KeyCount(r, u, k) /\ KeyValue(r, u, k)

LEMMA ReqNext ==
    ASSUME IInv, NEW r \in Requests, NEW u, RequestStep(r, u)
    PROVE  /\ req' \in [Requests -> ReqRecord]
           /\ req'[r] = u
           /\ \A q \in Requests \ {r} : req'[q] = req[q]
BY Types DEF RequestStep

LEMMA CountKeeps ==
    ASSUME IInv, NEW r \in Requests, NEW u, RequestStep(r, u), CountersStep, NEW k \in Keys,
           KeyCount(r, u, k)
    PROVE  /\ IsFiniteSet(Live(k)')
           /\ Cardinality(Busy(k)') + Room(k)' <= 1 + resends'
           /\ Cardinality(Live(k)') + Room(k)' <= 1 + expired'[k] + resends'
<1>1. /\ Busy(k)' \subseteq Busy(k) \cup {r} /\ Live(k)' \subseteq Live(k) \cup {r}
      /\ r \in Busy(k)' <=> IsBusy(u, k)
      /\ r \in Live(k)' <=> IsLive(u, k)
      /\ r \in Busy(k) <=> IsBusy(req[r], k)
      /\ r \in Live(k) <=> IsLive(req[r], k)
  BY ReqNext DEF Busy, Live, IsBusy, IsLive
<1>2. /\ Room(k)' \in {0, 1}
      /\ Room(k)' = 1 <=> store'[k] = Absent
      /\ Room(k) = 1 <=> store[k] = Absent
  BY DEF Room
<1>3. /\ Cardinality(Busy(k)') \in Nat /\ Cardinality(Busy(k)') <= Cardinality(Busy(k)) + 1
      /\ r \notin Busy(k)' \/ r \in Busy(k) => Cardinality(Busy(k)') <= Cardinality(Busy(k))
      /\ r \in Busy(k) /\ r \notin Busy(k)' => Cardinality(Busy(k)') <= Cardinality(Busy(k)) - 1
  BY <1>1, Counts, OneElement
<1>4. /\ IsFiniteSet(Live(k)')
      /\ Cardinality(Live(k)') \in Nat /\ Cardinality(Live(k)') <= Cardinality(Live(k)) + 1
      /\ r \notin Live(k)' \/ r \in Live(k) => Cardinality(Live(k)') <= Cardinality(Live(k))
      /\ r \in Live(k) /\ r \notin Live(k)' => Cardinality(Live(k)') <= Cardinality(Live(k)) - 1
  BY <1>1, Counts, OneElement
<1>5. resends' \in Nat /\ resends' >= resends /\ expired'[k] = expired[k]
  BY Types DEF CountersStep
<1>6. IsBusy(req[r], k) => IsLive(req[r], k)
  BY DEF IsBusy, IsLive
<1>7. IsBusy(u, k) => IsLive(u, k)
  BY DEF IsBusy, IsLive
<1> HIDE DEF Busy, Live, Room, IsBusy, IsLive
<1>8. CASE /\ store'[k] = Absent => store[k] = Absent
           /\ IsBusy(u, k) => IsBusy(req[r], k)
           /\ IsLive(u, k) => IsLive(req[r], k)
  BY <1>1, <1>2, <1>3, <1>4, <1>5, <1>8, Counts
<1>9. CASE store[k] = Absent /\ store'[k] # Absent
  BY <1>1, <1>2, <1>3, <1>4, <1>5, <1>9, Counts
<1>10. CASE IsBusy(req[r], k) /\ ~IsLive(u, k)
  BY <1>1, <1>2, <1>3, <1>4, <1>5, <1>6, <1>7, <1>10, Counts
<1>11. CASE /\ resends' = resends + 1
            /\ IsBusy(u, k) => IsBusy(req[r], k)
            /\ IsLive(u, k) => IsLive(req[r], k)
  BY <1>1, <1>2, <1>3, <1>4, <1>5, <1>11, Counts
<1> QED
  BY <1>8, <1>9, <1>10, <1>11 DEF KeyCount

\* A request that was answered keeps what it was told.
AnsweredNext(q, k) ==
    q \in Requests /\ req'[q].key = k /\ req'[q].outcome = "ok" /\ req'[q].pc = "done"

LEMMA AnsweredStays ==
    ASSUME IInv, NEW r \in Requests, NEW u, RequestStep(r, u), NEW q, NEW k, Answered(q, k)
    PROVE  AnsweredNext(q, k)
<1>1. q \in Requests \ {r}
  BY DEF Answered, RequestStep
<1> QED
  BY <1>1, ReqNext DEF Answered, AnsweredNext

LEMMA StepKeeps ==
    ASSUME IInv, NEW r \in Requests, NEW u, RequestStep(r, u), CountersStep, StoreStep(r, u)
    PROVE  IInv'
<1>1. TypeOK'
  BY ReqNext, Types DEF TypeOK, CountersStep, StoreStep, ReqRecord
<1>2. CountInv'
  BY CountKeeps DEF CountInv, StoreStep
<1>3. RequestInv'
  <2>1. RequestOK(req'[r], resends')
    BY ReqNext DEF RequestStep
  <2>2. ASSUME NEW q \in Requests \ {r}
        PROVE  RequestOK(req'[q], resends')
    BY ReqNext, Types DEF RequestInv, RequestOK, CountersStep
  <2> QED
    BY <2>1, <2>2 DEF RequestInv
<1>4. ResponseInv'
  <2>1. ASSUME NEW k \in Keys, store'[k].kind = "response"
        PROVE  AnsweredNext(store'[k].by, k)
    <3>1. CASE store'[k] = store[k]
      BY <2>1, <3>1, AnsweredStays, Types DEF ResponseInv
    <3>2. CASE store'[k].by = r /\ u.key = k /\ u.outcome = "ok" /\ u.pc = "done"
      BY <3>2, ReqNext DEF AnsweredNext
    <3> QED
      BY <2>1, <3>1, <3>2 DEF StoreStep, KeyValue
  <2>2. ASSUME NEW q \in Requests, req'[q].answer.kind = "replay"
        PROVE  req'[q].outcome = "none" /\ AnsweredNext(req'[q].answer.by, req'[q].key)
    <3>1. CASE q = r
      BY <2>2, <3>1, ReqNext, AnsweredStays DEF RequestStep
    <3>2. CASE q # r
      BY <2>2, <3>2, ReqNext, AnsweredStays, Types DEF ResponseInv
    <3> QED
      BY <3>1, <3>2
  <2> QED
    BY <2>1, <2>2 DEF ResponseInv, Answered, AnsweredNext
<1>5. ClaimInv'
  <2>1. SUFFICES ASSUME resends' = 0, NEW k \in Keys, NEW q \in Requests, req'[q].key = k,
                        req'[q].pc \in {"handler", "settle"}
                 PROVE  store'[k] = Marker(q)
    BY DEF ClaimInv, InFlight
  <2>2. CASE q = r
    BY <2>1, <2>2, ReqNext DEF StoreStep, KeyValue
  <2>3. CASE q # r
    BY <2>1, <2>3, ReqNext DEF StoreStep, KeyValue, InFlight
  <2> QED
    BY <2>2, <2>3
<1> QED
  BY <1>1, <1>2, <1>3, <1>4, <1>5 DEF IInv

\* A step that leaves the store alone and lets no request run that did not.
Calm(r, u) ==
    u.key \in Keys =>
        /\ u.pc \in {"handler", "settle"} =>
             req[r].key = u.key /\ req[r].pc \in {"handler", "settle"}
        /\ u.pc # "resend"
        /\ u.outcome = "ok" =>
             req[r].key = u.key /\ (req[r].outcome = "ok" \/ req[r].pc \in RunLabels)

LEMMA CalmKeeps ==
    ASSUME IInv, NEW r \in Requests, NEW u, RequestStep(r, u), Calm(r, u),
           store' = store, CountersStep, resends' = resends
    PROVE  IInv'
<1>1. ASSUME NEW k \in Keys
      PROVE  KeyCount(r, u, k)
  BY DEF KeyCount, IsBusy, IsLive, Calm, RunLabels
<1>2. ASSUME NEW k \in Keys
      PROVE  KeyValue(r, u, k)
  <2>1. store'[k] \in Values /\ store'[k] = store[k]
    BY Types
  <2>2. ASSUME resends' = 0
        PROVE  /\ \A q \in InFlight(k) \ {r} : store'[k] = Marker(q)
               /\ u.key = k /\ u.pc \in {"handler", "settle"} => store'[k] = Marker(r)
    BY <2>1, <2>2, Types DEF ClaimInv, Calm, InFlight
  <2> QED
    BY <2>1, <2>2 DEF KeyValue
<1>3. StoreStep(r, u)
  BY <1>1, <1>2, Types DEF StoreStep
<1> QED
  BY <1>3, StepKeeps

\* A step that writes the key of the request.
LEMMA WriteKeeps ==
    ASSUME IInv, NEW r \in Requests, NEW u, RequestStep(r, u), CountersStep,
           u.key \in Keys, NEW v \in Values, Put(u.key, v),
           KeyCount(r, u, u.key), KeyValue(r, u, u.key)
    PROVE  IInv'
<1>1. /\ store' \in [Keys -> Values] /\ store'[u.key] = v
      /\ \A k \in Keys \ {u.key} : store'[k] = store[k]
  BY Types DEF Put
<1>2. ASSUME NEW k \in Keys, k # u.key
      PROVE  KeyCount(r, u, k) /\ KeyValue(r, u, k)
  <2>1. KeyCount(r, u, k)
    BY <1>1, <1>2 DEF KeyCount, IsBusy, IsLive
  <2>2. resends' = 0 => resends = 0
    BY Types DEF CountersStep
  <2> QED
    BY <1>1, <1>2, <2>1, <2>2, Types DEF KeyValue, ClaimInv
<1>3. StoreStep(r, u)
  BY <1>1, <1>2 DEF StoreStep
<1> QED
  BY <1>3, StepKeeps

LEMMA FaultCounts ==
    ASSUME IInv, Fault, UNCHANGED <<resends, expired>>
    PROVE  CountersStep /\ resends' = resends
BY Types DEF Fault, CountersStep

LEMMA CountersSame ==
    ASSUME IInv, CountersStay
    PROVE  CountersStep /\ resends' = resends
BY Types DEF CountersStay, CountersStep

\* The two ways a request goes on.
LEMMA GotoStep ==
    ASSUME IInv, NEW r \in Requests, NEW label \in Labels, Goto(r, label),
           req[r].pc # "done",
           RequestOK([req[r] EXCEPT !.pc = label], resends')
    PROVE  /\ RequestStep(r, [req[r] EXCEPT !.pc = label])
           /\ [req[r] EXCEPT !.pc = label].pc = label
           /\ [req[r] EXCEPT !.pc = label].key = req[r].key
           /\ [req[r] EXCEPT !.pc = label].outcome = req[r].outcome
<1>1. req[r] \in ReqRecord
  BY Types
<1>2. [req[r] EXCEPT !.pc = label] \in ReqRecord
  BY <1>1 DEF ReqRecord
<1>3. req[r].answer = Pending
  BY Types DEF RequestInv, RequestOK
<1>4. req' = [req EXCEPT ![r] = [req[r] EXCEPT !.pc = label]]
  BY Types DEF Goto
<1>5. /\ [req[r] EXCEPT !.pc = label].pc = label
      /\ [req[r] EXCEPT !.pc = label].key = req[r].key
      /\ [req[r] EXCEPT !.pc = label].outcome = req[r].outcome
      /\ [req[r] EXCEPT !.pc = label].answer = req[r].answer
  BY <1>1 DEF ReqRecord
<1> QED
  BY <1>2, <1>3, <1>4, <1>5, AnswerKinds DEF RequestStep

Ended(r, a) == [req[r] EXCEPT !.pc = "done", !.answer = a]

LEMMA EndStep ==
    ASSUME IInv, NEW r \in Requests, NEW a \in Answers, End(r, a), req[r].pc # "done",
           a.kind = "replay" => req[r].outcome = "none" /\ Answered(a.by, req[r].key)
    PROVE  /\ RequestStep(r, Ended(r, a))
           /\ Ended(r, a).pc = "done" /\ Ended(r, a).key = req[r].key
           /\ Ended(r, a).outcome = req[r].outcome /\ Ended(r, a).answer = a
<1>1. req[r] \in ReqRecord
  BY Types
<1>2. Ended(r, a) \in ReqRecord
  BY <1>1 DEF ReqRecord, Ended, Labels
<1>3. req' = [req EXCEPT ![r] = Ended(r, a)]
  BY Types DEF End, Ended
<1>4. /\ Ended(r, a).pc = "done" /\ Ended(r, a).key = req[r].key
      /\ Ended(r, a).outcome = req[r].outcome /\ Ended(r, a).answer = a
  BY <1>1 DEF ReqRecord, Ended
<1>5. RequestOK(Ended(r, a), resends')
  BY <1>4 DEF RequestOK
<1> QED
  BY <1>2, <1>3, <1>4, <1>5 DEF RequestStep

\* What is known of a request before its step.
LEMMA Facts ==
    ASSUME IInv, NEW r \in Requests
    PROVE  /\ req[r] \in ReqRecord /\ RequestOK(req[r], resends) /\ resends \in Nat
           /\ req[r].key \in Keys => store[req[r].key] \in Values
BY Types DEF RequestInv

-----------------------------------------------------------------------------
(* The actions.                                                             *)

LEMMA ArriveKeeps ==
    ASSUME IInv, NEW r \in Requests, Arrive(r)
    PROVE  IInv'
<1>1. PICK k \in Keys \cup {NoKey} :
        req' = [req EXCEPT ![r].pc = IF k = NoKey THEN "handler" ELSE "claim", ![r].key = k]
  BY DEF Arrive
<1> DEFINE v == [req[r] EXCEPT !.pc = IF k = NoKey THEN "handler" ELSE "claim", !.key = k]
<1>2. /\ v \in ReqRecord /\ v.pc = (IF k = NoKey THEN "handler" ELSE "claim") /\ v.key = k
      /\ v.outcome = req[r].outcome /\ v.answer = req[r].answer
  BY Facts DEF ReqRecord, Labels
<1>3. req' = [req EXCEPT ![r] = v]
  BY <1>1, Types
<1>4. req[r].pc = "idle" /\ req[r].outcome = "none" /\ req[r].answer = Pending
  BY Facts DEF Arrive, At, RequestOK
<1> HIDE DEF v
<1>5. RequestStep(r, v)
  BY <1>2, <1>3, <1>4, AnswerKinds, NoKeyAssumption DEF RequestStep, RequestOK
<1>6. Calm(r, v)
  BY <1>2, <1>4, NoKeyAssumption DEF Calm
<1>7. store' = store /\ CountersStay
  BY DEF Arrive
<1> QED
  BY <1>5, <1>6, <1>7, CountersSame, CalmKeeps

\* A request that ends without having run.
LEMMA TurnedAway ==
    ASSUME IInv, NEW r \in Requests, NEW a \in Answers, End(r, a), req[r].pc \in {"claim", "read"},
           a.kind = "replay" => Answered(a.by, req[r].key),
           store' = store, CountersStep, resends' = resends
    PROVE  IInv'
<1>1. req[r].outcome = "none" /\ req[r].pc # "done"
  BY Facts DEF RequestOK
<1>2. /\ RequestStep(r, Ended(r, a))
      /\ Ended(r, a).pc = "done" /\ Ended(r, a).outcome = req[r].outcome
  BY <1>1, EndStep
<1>3. Calm(r, Ended(r, a))
  BY <1>1, <1>2 DEF Calm
<1> QED
  BY <1>2, <1>3, CalmKeeps

\* SetNX finds the key free.
LEMMA Claims ==
    ASSUME IInv, NEW r \in Requests, NEW u, RequestStep(r, u), CountersStep,
           u.key \in Keys, store[u.key] = Absent, Put(u.key, Marker(r)),
           u.outcome = "none"
    PROVE  IInv'
<1>1. store'[u.key] = Marker(r) /\ Marker(r) \in Values /\ Marker(r).kind = "marker"
  BY Types, ValueKinds DEF Put
<1>2. KeyCount(r, u, u.key)
  BY <1>1, ValueKinds DEF KeyCount
<1>3. ASSUME resends' = 0, NEW q \in InFlight(u.key)
      PROVE  FALSE
  <2>1. resends = 0
    BY <1>3, Types DEF CountersStep
  <2>2. q \in Requests /\ store[u.key] = Marker(q)
    BY <1>3, <2>1, Types DEF ClaimInv, InFlight
  <2> QED
    BY <2>2, ValueKinds
<1>4. KeyValue(r, u, u.key)
  BY <1>1, <1>3 DEF KeyValue
<1> QED
  BY <1>1, <1>2, <1>4, WriteKeeps

LEMMA ClaimKeeps ==
    ASSUME IInv, NEW r \in Requests, Claim(r)
    PROVE  IInv'
<1>1. /\ req[r].pc = "claim" /\ req[r].outcome = "none" /\ req[r].key \in Keys
      /\ req[r].answer = Pending
      /\ CountersStep /\ resends' = resends
  BY Facts, CountersSame DEF Claim, At, RequestOK
<1>2. CASE store[req[r].key] = Absent
  <2> DEFINE u == [req[r] EXCEPT !.pc = "handler"]
  <2>1. Goto(r, "handler") /\ Put(req[r].key, Marker(r))
    BY <1>2 DEF Claim
  <2>2. RequestOK(u, resends')
    BY <1>1, Facts DEF RequestOK, ReqRecord
  <2>3. RequestStep(r, u) /\ u.key = req[r].key /\ u.outcome = req[r].outcome
    BY <1>1, <2>1, <2>2, GotoStep DEF Labels
  <2> HIDE DEF u
  <2> QED
    BY <1>1, <1>2, <2>1, <2>3, Claims
<1>3. CASE store[req[r].key] # Absent
  <2> DEFINE u == [req[r] EXCEPT !.pc = "read"]
  <2>1. Goto(r, "read") /\ store' = store
    BY <1>3 DEF Claim
  <2>2. RequestOK(u, resends')
    BY <1>1, Facts DEF RequestOK, ReqRecord
  <2>3. RequestStep(r, u) /\ u.key = req[r].key /\ u.outcome = req[r].outcome /\ u.pc = "read"
    BY <1>1, <2>1, <2>2, GotoStep DEF Labels
  <2> HIDE DEF u
  <2>4. Calm(r, u)
    BY <1>1, <2>3 DEF Calm
  <2> QED
    BY <1>1, <2>1, <2>3, <2>4, CalmKeeps
<1> QED
  BY <1>2, <1>3

LEMMA ClaimFailsKeeps ==
    ASSUME IInv, NEW r \in Requests, ClaimFails(r)
    PROVE  IInv'
<1>1. /\ req[r].pc = "claim" /\ req[r].outcome = "none" /\ req[r].key \in Keys
      /\ req[r].answer = Pending
      /\ CountersStep /\ resends' = resends
  BY Facts, FaultCounts DEF ClaimFails, At, RequestOK
<1>2. CASE End(r, Error) /\ store' = store
  BY <1>1, <1>2, AnswerKinds, TurnedAway
<1>3. CASE store[req[r].key] = Absent /\ Put(req[r].key, Marker(r)) /\ End(r, Error)
  <2>1. RequestStep(r, Ended(r, Error)) /\ Ended(r, Error).key = req[r].key
        /\ Ended(r, Error).outcome = req[r].outcome
    BY <1>1, <1>3, AnswerKinds, EndStep
  <2> QED
    BY <1>1, <1>3, <2>1, Claims
<1>4. CASE store[req[r].key] = Absent /\ Put(req[r].key, Marker(r)) /\ Goto(r, "read")
  <2> DEFINE u == [req[r] EXCEPT !.pc = "read"]
  <2>1. RequestOK(u, resends')
    BY <1>1, Facts DEF RequestOK, ReqRecord
  <2>2. RequestStep(r, u) /\ u.key = req[r].key /\ u.outcome = req[r].outcome
    BY <1>1, <1>4, <2>1, GotoStep DEF Labels
  <2> HIDE DEF u
  <2> QED
    BY <1>1, <1>4, <2>2, Claims
<1> QED
  BY <1>2, <1>3, <1>4 DEF ClaimFails

\* What Get tells the request.
Got(v) ==
    CASE v.kind = "absent" -> Error [] v.kind = "marker" -> Conflict
      [] v.kind = "response" -> Replay(v.by)

LEMMA ReadKeeps ==
    ASSUME IInv, NEW r \in Requests, Read(r)
    PROVE  IInv'
<1> DEFINE v == store[req[r].key]
<1>1. /\ req[r].pc = "read" /\ req[r].key \in Keys /\ v \in Values
      /\ CountersStep /\ resends' = resends /\ store' = store
  BY Facts, CountersSame DEF Read, At, RequestOK
<1>2. End(r, Got(v))
  BY DEF Read, Got
<1>3. v.kind = "response" => Answered(v.by, req[r].key)
  BY <1>1, Types DEF ResponseInv
<1> HIDE DEF v
<1>4. Got(v) \in Answers /\ (Got(v).kind = "replay" => Answered(Got(v).by, req[r].key))
  <2>1. CASE v.kind = "absent"
    BY <2>1, AnswerKinds DEF Got
  <2>2. CASE v.kind = "marker"
    BY <2>2, AnswerKinds DEF Got
  <2>3. CASE v.kind = "response"
    <3>1. Got(v) = Replay(v.by) /\ v.by \in Requests
      BY <1>3, <2>3 DEF Got, Answered
    <3> QED
      BY <1>3, <2>3, <3>1, AnswerKinds
  <2> QED
    BY <1>1, <2>1, <2>2, <2>3, ValueKinds
<1> QED
  BY <1>1, <1>2, <1>4, TurnedAway

LEMMA ReadFailsKeeps ==
    ASSUME IInv, NEW r \in Requests, ReadFails(r)
    PROVE  IInv'
<1>1. /\ req[r].pc = "read" /\ End(r, Error)
      /\ CountersStep /\ resends' = resends /\ store' = store
  BY FaultCounts DEF ReadFails, At
<1> QED
  BY <1>1, AnswerKinds, TurnedAway

LEMMA HandleKeeps ==
    ASSUME IInv, NEW r \in Requests, Handle(r)
    PROVE  IInv'
<1>1. /\ req[r].pc = "handler" /\ req[r].answer = Pending
      /\ CountersStep /\ resends' = resends /\ store' = store
  BY Facts, CountersSame DEF Handle, At, RequestOK
<1>2. PICK o \in Outcomes \ {"none"} :
        req' = IF req[r].key = NoKey
               THEN [req EXCEPT ![r].outcome = o, ![r].pc = "done", ![r].answer = Own(o = "ok")]
               ELSE [req EXCEPT ![r].outcome = o, ![r].pc = "settle"]
  BY DEF Handle
<1>3. CASE req[r].key = NoKey
  <2> DEFINE v == [req[r] EXCEPT !.outcome = o, !.pc = "done", !.answer = Own(o = "ok")]
  <2>1. Own(o = "ok") \in Answers /\ Own(o = "ok").kind # "replay"
    BY AnswerKinds
  <2>2. v \in ReqRecord /\ v.pc = "done" /\ v.key = NoKey /\ v.answer = Own(o = "ok")
    BY <1>3, <2>1, Facts DEF ReqRecord, Labels
  <2>3. req' = [req EXCEPT ![r] = v]
    BY <1>2, <1>3, Types
  <2> HIDE DEF v
  <2>4. RequestStep(r, v)
    BY <1>1, <2>1, <2>2, <2>3 DEF RequestStep, RequestOK
  <2>5. Calm(r, v)
    BY <2>2, NoKeyAssumption DEF Calm
  <2> QED
    BY <1>1, <2>4, <2>5, CalmKeeps
<1>4. CASE req[r].key # NoKey
  <2> DEFINE v == [req[r] EXCEPT !.outcome = o, !.pc = "settle"]
  <2>1. /\ v \in ReqRecord /\ v.pc = "settle" /\ v.key = req[r].key /\ v.outcome = o
        /\ v.answer = req[r].answer
    BY <1>4, Facts DEF ReqRecord, Labels
  <2>2. req' = [req EXCEPT ![r] = v]
    BY <1>2, <1>4, Types
  <2>3. req[r].key \in Keys
    BY <1>4, Facts DEF ReqRecord
  <2> HIDE DEF v
  <2>4. RequestStep(r, v)
    BY <1>1, <2>1, <2>2, <2>3, AnswerKinds DEF RequestStep, RequestOK
  <2>5. Calm(r, v)
    BY <1>1, <2>1 DEF Calm, RunLabels
  <2> QED
    BY <1>1, <2>4, <2>5, CalmKeeps
<1> QED
  BY <1>3, <1>4

\* A request ends that ran, and leaves the key free.
LEMMA Frees ==
    ASSUME IInv, NEW r \in Requests, NEW a \in Answers, End(r, a), a.kind # "replay",
           req[r].pc \in {"settle", "resend"}, req[r].outcome # "ok",
           Put(req[r].key, Absent), CountersStep, resends' = resends
    PROVE  IInv'
<1> DEFINE k == req[r].key
<1>1. k \in Keys /\ req[r].pc # "done"
  BY Facts DEF RequestOK
<1>2. /\ RequestStep(r, Ended(r, a))
      /\ Ended(r, a).pc = "done" /\ Ended(r, a).outcome # "ok" /\ Ended(r, a).key = k
  BY <1>1, EndStep
<1>3. store'[k] = Absent /\ Absent \in Values /\ Absent.kind # "response"
  BY <1>1, Types, ValueKinds DEF Put
<1>4. KeyCount(r, Ended(r, a), k)
  BY <1>2 DEF KeyCount, IsBusy, IsLive, RunLabels
<1>5. ASSUME resends' = 0, NEW q \in InFlight(k) \ {r}
      PROVE  FALSE
  <2>1. resends = 0 /\ req[r].pc = "settle"
    BY <1>5, Facts DEF RequestOK
  <2>2. store[k] = Marker(q) /\ store[k] = Marker(r) /\ q \in Requests
    BY <1>1, <1>5, <2>1, Types DEF ClaimInv, InFlight
  <2>3. q # r
    BY <1>5
  <2> QED
    BY <2>2, <2>3, OneMarker
<1>6. KeyValue(r, Ended(r, a), k)
  BY <1>2, <1>3, <1>5 DEF KeyValue
<1> HIDE DEF k
<1> QED
  BY <1>1, <1>2, <1>3, <1>4, <1>6, WriteKeeps DEF k

LEMMA SettleKeeps ==
    ASSUME IInv, NEW r \in Requests, Settle(r)
    PROVE  IInv'
<1> DEFINE a == Own(req[r].outcome = "ok")
<1> DEFINE k == req[r].key
<1>1. req[r].pc = "settle" /\ k \in Keys /\ CountersStep /\ resends' = resends
  BY Facts, CountersSame DEF Settle, At, RequestOK
<1>2. a \in Answers /\ a.kind # "replay"
  BY AnswerKinds
<1>3. End(r, a)
  BY DEF Settle
<1> HIDE DEF a
<1>4. CASE req[r].outcome # "ok"
  <2>1. Put(req[r].key, Absent)
    BY <1>4 DEF Settle
  <2> QED
    BY <1>1, <1>2, <1>3, <1>4, <2>1, Frees
<1>5. CASE req[r].outcome = "ok"
  <2>1. Put(k, Response(r))
    BY <1>5 DEF Settle
  <2>2. /\ RequestStep(r, Ended(r, a))
        /\ Ended(r, a).pc = "done" /\ Ended(r, a).outcome = "ok" /\ Ended(r, a).key = k
    BY <1>1, <1>2, <1>3, <1>5, EndStep
  <2>3. /\ store'[k] = Response(r) /\ Response(r) \in Values /\ Response(r) # Absent
        /\ Response(r).by = r
    BY <1>1, <2>1, Types, ValueKinds DEF Put
  <2>4. KeyCount(r, Ended(r, a), k)
    BY <1>1, <2>2, <2>3 DEF KeyCount, IsBusy, IsLive, RunLabels
  <2>5. ASSUME resends' = 0, NEW q \in InFlight(k) \ {r}
        PROVE  FALSE
    <3>1. store[k] = Marker(q) /\ store[k] = Marker(r) /\ q \in Requests
      BY <1>1, <2>5, Types DEF ClaimInv, InFlight
    <3>2. q # r
      BY <2>5
    <3> QED
      BY <3>1, <3>2, OneMarker
  <2>6. KeyValue(r, Ended(r, a), k)
    BY <2>2, <2>3, <2>5 DEF KeyValue
  <2> HIDE DEF k
  <2> QED
    BY <1>1, <2>1, <2>2, <2>3, <2>4, <2>6, WriteKeeps
<1> QED
  BY <1>4, <1>5

LEMMA ResendKeeps ==
    ASSUME IInv, NEW r \in Requests, Resend(r)
    PROVE  IInv'
<1>1. /\ req[r].pc = "resend" /\ req[r].outcome # "ok" /\ End(r, Own(FALSE))
      /\ Put(req[r].key, Absent) /\ CountersStep /\ resends' = resends
  BY Facts, CountersSame DEF Resend, At, RequestOK
<1> QED
  BY <1>1, AnswerKinds, Frees

LEMMA SettleFailsKeeps ==
    ASSUME IInv, NEW r \in Requests, SettleFails(r)
    PROVE  IInv'
<1> DEFINE a == Own(req[r].outcome = "ok")
<1>1. /\ req[r].pc = "settle" /\ End(r, a)
      /\ CountersStep /\ resends' = resends /\ store' = store
  BY FaultCounts DEF SettleFails, At
<1>2. a \in Answers /\ a.kind # "replay"
  BY AnswerKinds
<1> HIDE DEF a
<1>3. /\ RequestStep(r, Ended(r, a))
      /\ Ended(r, a).pc = "done" /\ Ended(r, a).key = req[r].key
      /\ Ended(r, a).outcome = req[r].outcome
  BY <1>1, <1>2, EndStep
<1>4. Calm(r, Ended(r, a))
  BY <1>1, <1>3 DEF Calm
<1> QED
  BY <1>1, <1>3, <1>4, CalmKeeps

LEMMA ReplyLostKeeps ==
    ASSUME IInv, NEW r \in Requests, ReplyLost(r)
    PROVE  IInv'
<1> DEFINE u == [req[r] EXCEPT !.pc = "resend"]
<1>1. /\ req[r].pc = "settle" /\ req[r].outcome # "ok" /\ req[r].key \in Keys
      /\ req[r].answer = Pending /\ Goto(r, "resend") /\ Put(req[r].key, Absent)
      /\ resends' = resends + 1 /\ resends' # 0
  BY Facts DEF ReplyLost, At, RequestOK
<1>2. CountersStep
  BY Types DEF ReplyLost, CountersStep
<1>3. RequestOK(u, resends')
  BY <1>1, Facts DEF RequestOK, ReqRecord
<1>4. /\ RequestStep(r, u) /\ u.key = req[r].key /\ u.outcome = req[r].outcome
      /\ u.pc = "resend"
  BY <1>1, <1>3, GotoStep DEF Labels
<1> HIDE DEF u
<1>5. store'[u.key] = Absent /\ Absent \in Values /\ Absent.kind # "response"
  BY <1>1, <1>4, Types, ValueKinds DEF Put
<1>6. KeyCount(r, u, u.key)
  BY <1>1, <1>4 DEF KeyCount, IsBusy, IsLive, RunLabels
<1>7. KeyValue(r, u, u.key)
  BY <1>1, <1>5 DEF KeyValue
<1> QED
  BY <1>1, <1>2, <1>4, <1>5, <1>6, <1>7, WriteKeeps

LEMMA InterruptKeeps ==
    ASSUME IInv, NEW r \in Requests, Interrupt(r)
    PROVE  IInv'
<1>1. /\ req[r].pc \in {"handler", "settle"}
      /\ CountersStep /\ resends' = resends /\ store' = store
  BY FaultCounts DEF Interrupt
<1>2. PICK o \in IF At(r, "handler") THEN {"refused", "half"} ELSE {req[r].outcome} :
        req' = [req EXCEPT ![r].outcome = o, ![r].pc = "done", ![r].answer = Error]
  BY DEF Interrupt
<1> DEFINE v == [req[r] EXCEPT !.outcome = o, !.pc = "done", !.answer = Error]
<1>3. o \in Outcomes /\ (o = "ok" => req[r].outcome = "ok")
  BY <1>2, Facts DEF Outcomes, ReqRecord
<1>4. /\ v \in ReqRecord /\ v.pc = "done" /\ v.key = req[r].key /\ v.outcome = o
      /\ v.answer = Error
  BY <1>3, AnswerKinds, Facts DEF ReqRecord, Labels
<1>5. req' = [req EXCEPT ![r] = v]
  BY <1>2, Types
<1> HIDE DEF v
<1>6. RequestStep(r, v)
  BY <1>1, <1>4, <1>5, AnswerKinds DEF RequestStep, RequestOK
<1>7. Calm(r, v)
  BY <1>3, <1>4 DEF Calm
<1> QED
  BY <1>1, <1>6, <1>7, CalmKeeps

\* An expired key frees its room, and nobody is busy with it.
LEMMA ExpireKeeps ==
    ASSUME IInv, NEW k \in Keys, Expire(k)
    PROVE  IInv'
<1>1. /\ store' \in [Keys -> Values] /\ store'[k] = Absent
      /\ \A j \in Keys \ {k} : store'[j] = store[j]
  BY Types, ValueKinds DEF Expire, Put
<1>2. req' = req /\ faults' = faults /\ resends' = resends
  BY DEF Expire
<1>3. /\ expired' \in [Keys -> 0..MaxExpiries] /\ expired'[k] = expired[k] + 1
      /\ \A j \in Keys \ {k} : expired'[j] = expired[j]
  BY Types DEF Expire
<1>4. TypeOK'
  BY <1>1, <1>2, <1>3, Types DEF TypeOK, ReqRecord
<1>5. CountInv'
  <2>1. ASSUME NEW j \in Keys
        PROVE  Busy(j)' = Busy(j) /\ Live(j)' = Live(j)
    BY <1>2 DEF Busy, Live
  <2>2. ASSUME NEW j \in Keys \ {k}
        PROVE  Room(j)' = Room(j)
    BY <1>1 DEF Room
  <2>3. Room(k)' = 1 /\ Room(k) = 0
    BY <1>1 DEF Room, Expire
  <2>4. Busy(k) = {}
    BY DEF Busy, IsBusy, Expire, RunLabels
  <2>5. Cardinality(Busy(k)) = 0
    BY <2>4, FS_EmptySet
  <2>6. /\ IsFiniteSet(Live(k)')
        /\ Cardinality(Busy(k)') + Room(k)' <= 1 + resends'
        /\ Cardinality(Live(k)') + Room(k)' <= 1 + expired'[k] + resends'
    <3>1. Cardinality(Busy(k)') + Room(k)' <= 1 + resends'
      BY <1>2, <2>1, <2>3, <2>5, Counts
    <3>2. Cardinality(Live(k)') + Room(k)' <= 1 + expired'[k] + resends'
      BY <1>2, <1>3, <2>1, <2>3, Counts
    <3> QED
      BY <2>1, <3>1, <3>2, Counts
  <2>7. ASSUME NEW j \in Keys \ {k}
        PROVE  /\ IsFiniteSet(Live(j)')
               /\ Cardinality(Busy(j)') + Room(j)' <= 1 + resends'
               /\ Cardinality(Live(j)') + Room(j)' <= 1 + expired'[j] + resends'
    BY <1>2, <1>3, <2>1, <2>2, Counts
  <2> QED
    BY <2>6, <2>7 DEF CountInv
<1>6. RequestInv'
  BY <1>2, Types DEF RequestInv, RequestOK
<1>7. ResponseInv'
  BY <1>1, <1>2, ValueKinds, Types DEF ResponseInv, Answered
<1>8. ClaimInv'
  BY <1>1, <1>2, Types DEF ClaimInv, InFlight, Expire
<1> QED
  BY <1>4, <1>5, <1>6, <1>7, <1>8 DEF IInv

-----------------------------------------------------------------------------
(* The invariant.                                                           *)

LEMMA InitInv == Init => IInv
<1> SUFFICES ASSUME Init PROVE IInv
  OBVIOUS
<1>1. /\ Idle \in ReqRecord /\ Idle.pc = "idle" /\ Idle.outcome = "none"
      /\ Idle.answer = Pending
  BY AnswerKinds DEF Idle, ReqRecord, Labels, Outcomes
<1>2. \A r \in Requests : req[r] = Idle
  BY DEF Init
<1>3. \A k \in Keys : store[k] = Absent
  BY DEF Init
<1>4. TypeOK
  BY <1>1, ValueKinds, BoundsAssumption DEF Init, TypeOK, ReqRecord
<1>5. CountInv
  <2>1. ASSUME NEW k \in Keys
        PROVE  Busy(k) = {} /\ Live(k) = {} /\ Room(k) = 1 /\ expired[k] = 0 /\ resends = 0
    BY <1>1, <1>2, <1>3 DEF Busy, Live, IsBusy, IsLive, RunLabels, Room, Init
  <2>2. IsFiniteSet({}) /\ Cardinality({}) = 0
    BY FS_EmptySet
  <2> QED
    BY <2>1, <2>2 DEF CountInv
<1>6. RequestInv
  BY <1>1, <1>2 DEF RequestInv, RequestOK
<1>7. ResponseInv
  BY <1>1, <1>2, <1>3, ValueKinds, AnswerKinds DEF ResponseInv
<1>8. ClaimInv
  BY <1>1, <1>2 DEF ClaimInv, InFlight
<1> QED
  BY <1>4, <1>5, <1>6, <1>7, <1>8 DEF IInv

LEMMA StepInv == IInv /\ [Next]_vars => IInv'
<1> SUFFICES ASSUME IInv, [Next]_vars PROVE IInv'
  OBVIOUS
<1>1. ASSUME NEW r \in Requests, Step(r)
      PROVE  IInv'
  BY <1>1, ArriveKeeps, ClaimKeeps, ClaimFailsKeeps, ReadKeeps, ReadFailsKeeps, HandleKeeps,
     SettleKeeps, SettleFailsKeeps, ReplyLostKeeps, ResendKeeps, InterruptKeeps DEF Step
<1>2. ASSUME NEW k \in Keys, Expire(k)
      PROVE  IInv'
  BY <1>2, ExpireKeeps
<1>3. CASE UNCHANGED vars
  <2>1. /\ store' = store /\ req' = req /\ faults' = faults /\ resends' = resends
        /\ expired' = expired
    BY <1>3 DEF vars
  <2>2. \A k : Busy(k)' = Busy(k) /\ Live(k)' = Live(k) /\ Room(k)' = Room(k)
    BY <2>1 DEF Busy, Live, Room
  <2>3. TypeOK' /\ RequestInv' /\ ResponseInv' /\ ClaimInv'
    BY <2>1 DEF IInv, TypeOK, RequestInv, ResponseInv, ClaimInv, Answered, InFlight
  <2>4. CountInv'
    BY <2>1, <2>2 DEF IInv, CountInv
  <2> QED
    BY <2>3, <2>4 DEF IInv
<1> QED
  BY <1>1, <1>2, <1>3 DEF Next

LEMMA Invariant == Spec => []IInv
BY InitInv, StepInv, PTL DEF Spec

\* The state keeps its type in every run of the middleware.
THEOREM IdempotencyTypes == Spec => []TypeOK
<1>1. IInv => TypeOK
  BY DEF IInv
<1> QED
  BY <1>1, Invariant, PTL

\* InFlight leaves out of the Busy requests those whose DEL is sent again.
THEOREM OneInFlightAlways == Spec => []OneInFlight
<1>1. ASSUME IInv
      PROVE  OneInFlight
  <2>1. ASSUME NEW k \in Keys
        PROVE  Cardinality(InFlight(k)) <= 1 + resends
    <3>1. InFlight(k) \subseteq Busy(k)
      BY DEF InFlight, Busy, IsBusy, RunLabels
    <3>2. IsFiniteSet(InFlight(k)) /\ Cardinality(InFlight(k)) <= Cardinality(Busy(k))
      BY <1>1, <3>1, Counts, FS_Subset
    <3> QED
      BY <1>1, <3>2, Counts, FS_CardinalityType
  <2> QED
    BY <2>1 DEF OneInFlight
<1> QED
  BY <1>1, Invariant, PTL

\* A request that has succeeded is Live.
THEOREM SuccessPerLife == Spec => []OneSuccessPerLife
<1>1. ASSUME IInv
      PROVE  OneSuccessPerLife
  <2>1. ASSUME NEW k \in Keys
        PROVE  Cardinality(Succeeded(k)) <= 1 + expired[k] + resends
    <3>1. Succeeded(k) \subseteq Live(k)
      BY DEF Succeeded, Live, IsLive
    <3>2. IsFiniteSet(Succeeded(k)) /\ Cardinality(Succeeded(k)) <= Cardinality(Live(k))
      BY <1>1, <3>1, Counts, FS_Subset
    <3> QED
      BY <1>1, <3>2, Counts, FS_CardinalityType
  <2> QED
    BY <2>1 DEF OneSuccessPerLife
<1> QED
  BY <1>1, Invariant, PTL

\* The response served from the cache is that of another request with the
\* same key, which succeeded: the one that is served never ran its handler.
THEOREM ReplaysSound == Spec => []ReplaySound
<1>1. ASSUME IInv
      PROVE  ReplaySound
  <2>1. SUFFICES ASSUME NEW r \in Requests, NEW q \in Requests, req[r].answer = Replay(q)
                 PROVE  q \in Succeeded(req[r].key) /\ q # r
    BY DEF ReplaySound
  <2>2. req[r].answer.kind = "replay" /\ req[r].answer.by = q
    BY <2>1, AnswerKinds
  <2>3. req[r].outcome = "none" /\ Answered(q, req[r].key)
    BY <1>1, <2>2, Types DEF ResponseInv
  <2> QED
    BY <2>3 DEF Answered, Succeeded
<1> QED
  BY <1>1, Invariant, PTL

-----------------------------------------------------------------------------
(* The middleware implements OnceCell while no DEL is sent again.           *)

\* The cells and the answers as OnceCell sees them.
Cells == [k \in Keys |->
    IF store[k] = Absent THEN [kind |-> "free"]
    ELSE IF store[k].kind = "response" THEN [kind |-> "done", by |-> store[k].by]
    ELSE IF Holder(k) # {} THEN [kind |-> "running", by |-> store[k].by]
    ELSE [kind |-> "blocked"]]

Told == [r \in Requests |-> req[r].answer]

OnceStep == Once!Next \/ UNCHANGED <<Cells, Told>>

Free == [kind |-> "free"]
Running(r) == [kind |-> "running", by |-> r]
Done(r) == [kind |-> "done", by |-> r]
Blocked == [kind |-> "blocked"]

\* Cell k becomes c, and request r is told a.
CellGoes(k, c) == k \in Keys /\ Cells' = [Cells EXCEPT ![k] = c]
Tells(r, a) == r \in Requests /\ Told[r] = Pending /\ Told' = [Told EXCEPT ![r] = a]

LEMMA OnceTells ==
    ASSUME NEW r, NEW a, Tells(r, a)
    PROVE  Once!Tell(r, a)
BY DEF Tells, Once!Tell, Once!Pending, Pending, Told

LEMMA OncePuts ==
    ASSUME NEW k, NEW c, CellGoes(k, c)
    PROVE  Once!Put(k, c)
BY DEF CellGoes, Once!Put, Cells

LEMMA OnceBegins ==
    ASSUME NEW r \in Requests, NEW k \in Keys, Cells[k] = Free, CellGoes(k, Running(r)),
           Told' = Told
    PROVE  OnceStep
<1>1. Once!Put(k, Running(r))
  BY OncePuts
<1>2. Once!Begin(r, k)
  BY <1>1 DEF Once!Begin, Once!Free, Free, Once!Running, Running, Cells, Told
<1> QED
  BY <1>2 DEF OnceStep, Once!Next

LEMMA OnceBeginsUnknown ==
    ASSUME NEW k \in Keys, Cells[k] = Free, CellGoes(k, Blocked), Told' = Told
    PROVE  OnceStep
<1>1. Once!Put(k, Blocked)
  BY OncePuts
<1>2. Once!BeginUnknown(k)
  BY <1>1 DEF Once!BeginUnknown, Once!Free, Free, Once!Blocked, Blocked, Cells, Told
<1> QED
  BY <1>2 DEF OnceStep, Once!Next

LEMMA OnceFinishes ==
    ASSUME NEW r \in Requests, NEW k \in Keys, Cells[k] = Running(r),
           \/ Tells(r, Own(TRUE)) /\ CellGoes(k, Done(r))
           \/ Tells(r, Own(FALSE)) /\ CellGoes(k, Free)
    PROVE  OnceStep
<1>1. \/ Once!Tell(r, Own(TRUE)) /\ Once!Put(k, Done(r))
      \/ Once!Tell(r, Own(FALSE)) /\ Once!Put(k, Free)
  BY OnceTells, OncePuts
<1>2. Once!Own(TRUE) = Own(TRUE) /\ Once!Own(FALSE) = Own(FALSE)
  BY DEF Once!Own, Own
<1>3. Once!Done(r) = Done(r) /\ Once!Free = Free /\ Once!Running(r) = Running(r)
  BY DEF Once!Done, Done, Once!Free, Free, Once!Running, Running
<1>4. Once!Finish(r, k)
  BY <1>1, <1>2, <1>3 DEF Once!Finish, Cells
<1> QED
  BY <1>4 DEF OnceStep, Once!Next

LEMMA OnceDrops ==
    ASSUME NEW r \in Requests, NEW k \in Keys, Cells[k] = Running(r), CellGoes(k, Blocked),
           NEW a \in {Own(TRUE), Own(FALSE), Error}, Tells(r, a)
    PROVE  OnceStep
<1>1. Once!Tell(r, a) /\ Once!Put(k, Blocked)
  BY OnceTells, OncePuts
<1>2. a \in {Once!Own(TRUE), Once!Own(FALSE), Once!Error}
  BY DEF Once!Own, Own, Once!Error, Error
<1>3. Once!Blocked = Blocked /\ Once!Running(r) = Running(r)
  BY DEF Once!Blocked, Blocked, Once!Running, Running
<1>4. Once!Drop(r, k)
  BY <1>1, <1>2, <1>3 DEF Once!Drop, Cells
<1> QED
  BY <1>4 DEF OnceStep, Once!Next

LEMMA OnceReplays ==
    ASSUME NEW r \in Requests, NEW k \in Keys, Cells' = Cells,
           Cells[k].kind = "done", NEW a, a = Replay(Cells[k].by), Tells(r, a)
    PROVE  OnceStep
<1>1. Once!Tell(r, a)
  BY OnceTells
<1>2. a = Once!Replay(Cells[k].by)
  BY DEF Once!Replay, Replay
<1>3. Once!Serve(r, k)
  BY <1>1, <1>2 DEF Once!Serve, Once!Tell, Cells
<1> QED
  BY <1>3 DEF OnceStep, Once!Next

LEMMA OnceConflicts ==
    ASSUME NEW r \in Requests, NEW k \in Keys, Cells' = Cells,
           Cells[k].kind \in {"running", "blocked"}, Tells(r, Conflict)
    PROVE  OnceStep
<1>1. Once!Tell(r, Conflict) /\ Once!Conflict = Conflict
  BY OnceTells DEF Once!Conflict, Conflict
<1>2. Once!Serve(r, k)
  BY <1>1 DEF Once!Serve, Cells
<1> QED
  BY <1>2 DEF OnceStep, Once!Next

LEMMA OnceRefuses ==
    ASSUME NEW r \in Requests, Tells(r, Error), Cells' = Cells
    PROVE  OnceStep
<1>1. Once!Tell(r, Error) /\ Once!Error = Error
  BY OnceTells DEF Once!Error, Error
<1>2. Once!Refuse(r)
  BY <1>1 DEF Once!Refuse, Cells
<1> QED
  BY <1>2 DEF OnceStep, Once!Next

LEMMA OnceRefusesUnknown ==
    ASSUME NEW r \in Requests, NEW k \in Keys, Cells[k] = Free, CellGoes(k, Blocked),
           Tells(r, Error)
    PROVE  OnceStep
<1>1. /\ Once!Tell(r, Error) /\ Once!Put(k, Blocked)
      /\ Once!Error = Error /\ Once!Blocked = Blocked /\ Once!Free = Free
  BY OnceTells, OncePuts DEF Once!Error, Error, Once!Blocked, Blocked, Once!Free, Free
<1>2. Once!RefuseUnknown(r, k)
  BY <1>1 DEF Once!RefuseUnknown, Cells
<1> QED
  BY <1>2 DEF OnceStep, Once!Next

LEMMA OnceForgets ==
    ASSUME NEW k \in Keys, Cells[k].kind \in {"done", "blocked"}, CellGoes(k, Free),
           Told' = Told
    PROVE  OnceStep
<1>1. Once!Put(k, Free) /\ Once!Free = Free
  BY OncePuts DEF Once!Free, Free
<1>2. Once!Forget(k)
  BY <1>1 DEF Once!Forget, Cells, Told
<1> QED
  BY <1>2 DEF OnceStep, Once!Next

LEMMA OnceBypasses ==
    ASSUME NEW r \in Requests, NEW ok \in BOOLEAN, Tells(r, Own(ok)), Cells' = Cells
    PROVE  OnceStep
<1>1. Once!Tell(r, Own(ok))
  BY OnceTells
<1>2. Once!Own(ok) = Own(ok)
  BY DEF Once!Own, Own
<1>3. Once!Bypass(r)
  BY <1>1, <1>2 DEF Once!Bypass, Cells
<1> QED
  BY <1>3 DEF OnceStep, Once!Next

-----------------------------------------------------------------------------
(* What the steps do to the cells.                                          *)

\* What a cell is, from the value of the key and whether its claimer runs.
CellValue(v, held) ==
    IF v = Absent THEN Free
    ELSE IF v.kind = "response" THEN Done(v.by)
    ELSE IF held THEN Running(v.by)
    ELSE Blocked

Flies(u, k) == u.key = k /\ u.pc \in {"handler", "settle"}
Held(k) == \E q \in Requests : Flies(req[q], k) /\ store[k] = Marker(q)
HeldNext(k) == \E q \in Requests : Flies(req'[q], k) /\ store'[k] = Marker(q)

LEMMA CellValues ==
    ASSUME NEW r \in Requests, NEW held \in BOOLEAN
    PROVE  /\ CellValue(Absent, held) = Free
           /\ CellValue(Response(r), held) = Done(r)
           /\ CellValue(Marker(r), TRUE) = Running(r)
           /\ CellValue(Marker(r), FALSE) = Blocked
BY DEF CellValue, Absent, Response, Marker

LEMMA CellIs ==
    ASSUME NEW k \in Keys
    PROVE  Cells[k] = CellValue(store[k], Held(k))
<1>1. Holder(k) # {} <=> Held(k)
  BY DEF Holder, InFlight, Held, Flies
<1> QED
  BY <1>1 DEF Cells, CellValue, Free, Done, Running, Blocked

LEMMA CellsNext ==
    Cells' = [k \in Keys |-> CellValue(store'[k], HeldNext(k))]
<1>1. ASSUME NEW k \in Keys
      PROVE  Cells'[k] = CellValue(store'[k], HeldNext(k))
  <2>1. Holder(k)' # {} <=> HeldNext(k)
    BY DEF Holder, InFlight, HeldNext, Flies
  <2> QED
    BY <2>1 DEF Cells, CellValue, Free, Done, Running, Blocked
<1> QED
  BY <1>1 DEF Cells

\* Only request r moves; it is told its answer.
Moves(r) ==
    /\ req' \in [Requests -> ReqRecord]
    /\ \A q \in Requests \ {r} : req'[q] = req[q]
    /\ req[r].answer = Pending
    /\ \A k \in Keys : Flies(req'[r], k) => req'[r].key = req[r].key

LEMMA ToldGoes ==
    ASSUME IInv, NEW r \in Requests, Moves(r)
    PROVE  /\ Tells(r, req'[r].answer)
           /\ req'[r].answer = Pending => Told' = Told
<1>1. Told[r] = Pending /\ Told' = [Told EXCEPT ![r] = req'[r].answer]
  BY DEF Moves, Told
<1> QED
  BY <1>1 DEF Tells, Told

\* The store stays and r runs if it did: no cell changes.
LEMMA CellsSame ==
    ASSUME IInv, NEW r \in Requests, Moves(r), store' = store,
           \A k \in Keys : Flies(req'[r], k) <=> Flies(req[r], k)
    PROVE  Cells' = Cells
<1>1. ASSUME NEW k \in Keys
      PROVE  HeldNext(k) <=> Held(k)
  BY DEF Moves, HeldNext, Held
<1>2. ASSUME NEW k \in Keys
      PROVE  CellValue(store'[k], HeldNext(k)) = Cells[k]
  BY <1>1, CellIs DEF CellValue
<1>3. Cells = [k \in Keys |-> Cells[k]]
  BY DEF Cells
<1> QED
  BY <1>2, <1>3, CellsNext

\* Only the key of r can change.
LEMMA CellGoesTo ==
    ASSUME IInv, NEW r \in Requests, Moves(r), req[r].key \in Keys,
           req'[r].key = req[r].key,
           \A j \in Keys \ {req[r].key} : store'[j] = store[j]
    PROVE  CellGoes(req[r].key, CellValue(store'[req[r].key], HeldNext(req[r].key)))
<1> DEFINE k == req[r].key
<1>1. ASSUME NEW j \in Keys, j # k
      PROVE  CellValue(store'[j], HeldNext(j)) = Cells[j]
  <2>1. ~Flies(req[r], j) /\ ~Flies(req'[r], j)
    BY <1>1 DEF Flies
  <2>2. HeldNext(j) <=> Held(j)
    BY <1>1, <2>1 DEF Moves, HeldNext, Held
  <2> QED
    BY <1>1, <2>2, CellIs DEF CellValue
<1> DEFINE c == CellValue(store'[k], HeldNext(k))
<1> HIDE DEF c
<1>2. \A j \in Keys : Cells'[j] = IF j = k THEN c ELSE Cells[j]
  BY <1>1, CellsNext DEF c
<1>3. Cells' = [j \in Keys |-> Cells'[j]] /\ Cells = [j \in Keys |-> Cells[j]]
  BY DEF Cells
<1>4. Cells' = [Cells EXCEPT ![k] = c]
  BY <1>2, <1>3
<1> QED
  BY <1>4 DEF CellGoes, c

LEMMA CellBecomes ==
    ASSUME IInv, NEW r \in Requests, Moves(r), NEW k \in Keys, req[r].key = k,
           req'[r].key = k, \A j \in Keys \ {k} : store'[j] = store[j]
    PROVE  /\ store'[k] = Absent => CellGoes(k, Free)
           /\ store'[k] = Response(r) => CellGoes(k, Done(r))
           /\ store'[k] = Marker(r) /\ Flies(req'[r], k) => CellGoes(k, Running(r))
           /\ store'[k] = Marker(r) /\ ~Flies(req'[r], k) => CellGoes(k, Blocked)
<1>1. CellGoes(k, CellValue(store'[k], HeldNext(k)))
  BY CellGoesTo
<1>2. HeldNext(k) \in BOOLEAN
  BY DEF HeldNext
<1>3. store'[k] = Marker(r) => (HeldNext(k) <=> Flies(req'[r], k))
  BY OneMarker DEF HeldNext
<1> HIDE DEF HeldNext
<1>4. /\ store'[k] = Absent => CellValue(store'[k], HeldNext(k)) = Free
      /\ store'[k] = Response(r) => CellValue(store'[k], HeldNext(k)) = Done(r)
  BY <1>2, CellValues
<1>5. ASSUME store'[k] = Marker(r)
      PROVE  CellValue(store'[k], HeldNext(k)) = IF Flies(req'[r], k) THEN Running(r) ELSE Blocked
  <2>1. CASE Flies(req'[r], k)
    <3>1. HeldNext(k) = TRUE
      BY <1>2, <1>3, <1>5, <2>1
    <3> QED
      BY <1>5, <2>1, <3>1, CellValues
  <2>2. CASE ~Flies(req'[r], k)
    <3>1. HeldNext(k) = FALSE
      BY <1>2, <1>3, <1>5, <2>2
    <3> QED
      BY <1>5, <2>2, <3>1, CellValues
  <2> QED
    BY <2>1, <2>2
<1> QED
  BY <1>1, <1>4, <1>5

LEMMA CellNow ==
    ASSUME IInv, NEW k \in Keys
    PROVE  /\ store[k] = Absent => Cells[k] = Free
           /\ \A q \in Requests : store[k] = Response(q) => Cells[k] = Done(q)
           /\ \A q \in Requests : store[k] = Marker(q) => Cells[k] \in {Running(q), Blocked}
           /\ \A q \in Requests : resends = 0 /\ Flies(req[q], k) =>
                store[k] = Marker(q) /\ Cells[k] = Running(q)
<1>1. Cells[k] = CellValue(store[k], Held(k)) /\ Held(k) \in BOOLEAN
  BY CellIs DEF Held
<1>2. ASSUME NEW q \in Requests
      PROVE  store[k] = Response(q) => Cells[k] = Done(q)
  BY <1>1, CellValues
<1>3. ASSUME NEW q \in Requests
      PROVE  store[k] = Marker(q) => Cells[k] \in {Running(q), Blocked}
  BY <1>1, CellValues
<1>4. ASSUME NEW q \in Requests, resends = 0, Flies(req[q], k)
      PROVE  store[k] = Marker(q) /\ Cells[k] = Running(q)
  <2>1. store[k] = Marker(q)
    BY <1>4, Types DEF ClaimInv, InFlight, Flies
  <2>2. Held(k)
    BY <1>4, <2>1 DEF Held
  <2>3. CellValue(Marker(q), TRUE) = Running(q)
    BY CellValues
  <2> QED
    BY <1>1, <2>1, <2>2, <2>3
<1>5. CASE store[k] = Absent
  <2>1. \A held \in BOOLEAN : CellValue(Absent, held) = Free
    BY DEF CellValue
  <2> QED
    BY <1>1, <1>2, <1>3, <1>4, <1>5, <2>1
<1> QED
  BY <1>2, <1>3, <1>4, <1>5

LEMMA GotoMoves ==
    ASSUME IInv, NEW r \in Requests, NEW label \in Labels, Goto(r, label), req[r].pc # "done"
    PROVE  /\ req'[r].pc = label /\ req'[r].key = req[r].key /\ req'[r].answer = Pending
           /\ Moves(r)
<1>1. req[r].answer = Pending /\ req[r] \in ReqRecord
  BY Facts DEF RequestOK
<1>2. /\ req' \in [Requests -> ReqRecord] /\ \A q \in Requests \ {r} : req'[q] = req[q]
      /\ req'[r].pc = label /\ req'[r].key = req[r].key /\ req'[r].answer = Pending
  BY <1>1, Types DEF Goto, ReqRecord
<1> QED
  BY <1>1, <1>2 DEF Moves

LEMMA EndMoves ==
    ASSUME IInv, NEW r \in Requests, NEW a \in Answers, End(r, a), req[r].pc # "done"
    PROVE  /\ req'[r].pc = "done" /\ req'[r].key = req[r].key /\ req'[r].answer = a
           /\ Moves(r) /\ Tells(r, a) /\ \A k : ~Flies(req'[r], k)
<1>1. req[r].answer = Pending /\ req[r] \in ReqRecord
  BY Facts DEF RequestOK
<1>2. /\ req' \in [Requests -> ReqRecord] /\ \A q \in Requests \ {r} : req'[q] = req[q]
      /\ req'[r].pc = "done" /\ req'[r].key = req[r].key /\ req'[r].answer = a
  BY <1>1, Types DEF End, ReqRecord, Labels
<1>3. Moves(r) /\ \A k : ~Flies(req'[r], k)
  BY <1>1, <1>2 DEF Moves, Flies
<1> QED
  BY <1>2, <1>3, ToldGoes

\* A request that ends without having run, and leaves the store alone.
LEMMA RefusedCells ==
    ASSUME IInv, NEW r \in Requests, NEW a \in Answers, End(r, a), store' = store,
           req[r].pc \in {"claim", "read"}
    PROVE  Tells(r, a) /\ Cells' = Cells
<1>1. Moves(r) /\ Tells(r, a) /\ \A k : ~Flies(req'[r], k)
  BY EndMoves
<1>2. \A k : ~Flies(req[r], k)
  BY DEF Flies
<1> QED
  BY <1>1, <1>2, CellsSame

\* A key that is written, whose request is at k.
LEMMA PutKey ==
    ASSUME IInv, NEW k \in Keys, NEW v, Put(k, v)
    PROVE  store'[k] = v /\ \A j \in Keys \ {k} : store'[j] = store[j]
BY Types DEF Put

LEMMA ArriveOnce ==
    ASSUME IInv, NEW r \in Requests, Arrive(r)
    PROVE  OnceStep
<1>1. PICK k \in Keys \cup {NoKey} :
        req' = [req EXCEPT ![r].pc = IF k = NoKey THEN "handler" ELSE "claim", ![r].key = k]
  BY DEF Arrive
<1>2. req[r].pc = "idle" /\ req[r].answer = Pending /\ store' = store
  BY Facts DEF Arrive, At, RequestOK
<1>3. /\ req' \in [Requests -> ReqRecord] /\ \A q \in Requests \ {r} : req'[q] = req[q]
      /\ req'[r].pc = (IF k = NoKey THEN "handler" ELSE "claim") /\ req'[r].key = k
      /\ req'[r].answer = Pending
  <2>1. PICK u : u = [req[r] EXCEPT !.pc = IF k = NoKey THEN "handler" ELSE "claim", !.key = k]
    OBVIOUS
  <2>2. req[r] \in ReqRecord
    BY Types
  <2>3. /\ u \in ReqRecord /\ u.key = k /\ u.answer = Pending
        /\ u.pc = (IF k = NoKey THEN "handler" ELSE "claim")
    BY <1>2, <2>1, <2>2 DEF ReqRecord, Labels
  <2>4. req' = [req EXCEPT ![r] = u]
    BY <1>1, <2>1, Types
  <2> QED
    BY <2>3, <2>4, Types
<1>4. \A j \in Keys : ~Flies(req'[r], j) /\ ~Flies(req[r], j)
  BY <1>2, <1>3, NoKeyAssumption DEF Flies
<1>5. Moves(r)
  BY <1>2, <1>3, <1>4 DEF Moves
<1>6. Told' = Told /\ Cells' = Cells
  BY <1>2, <1>3, <1>4, <1>5, ToldGoes, CellsSame
<1> QED
  BY <1>6 DEF OnceStep

LEMMA ClaimOnce ==
    ASSUME IInv, NEW r \in Requests, Claim(r)
    PROVE  OnceStep
<1> DEFINE k == req[r].key
<1>1. req[r].pc = "claim" /\ k \in Keys /\ req[r].pc # "done"
  BY Facts DEF Claim, At, RequestOK
<1>2. CASE store[k] = Absent
  <2>1. Goto(r, "handler") /\ Put(k, Marker(r))
    BY <1>2 DEF Claim
  <2>2. req'[r].pc = "handler" /\ req'[r].key = k /\ req'[r].answer = Pending /\ Moves(r)
    BY <1>1, <2>1, GotoMoves DEF Labels
  <2>3. store'[k] = Marker(r) /\ \A j \in Keys \ {k} : store'[j] = store[j]
    BY <1>1, <2>1, PutKey
  <2>4. Flies(req'[r], k)
    BY <2>2 DEF Flies
  <2> HIDE DEF k
  <2>5. CellGoes(k, Running(r))
    BY <1>1, <2>2, <2>3, <2>4, CellBecomes DEF k
  <2> QED
    BY <1>1, <1>2, <2>2, <2>5, ToldGoes, CellNow, OnceBegins
<1>3. CASE store[k] # Absent
  <2>1. Goto(r, "read") /\ store' = store
    BY <1>3 DEF Claim
  <2>2. req'[r].pc = "read" /\ req'[r].answer = Pending /\ Moves(r)
    BY <1>1, <2>1, GotoMoves DEF Labels
  <2>3. \A j \in Keys : ~Flies(req'[r], j) /\ ~Flies(req[r], j)
    BY <1>1, <2>2 DEF Flies
  <2>4. Told' = Told /\ Cells' = Cells
    BY <2>1, <2>2, <2>3, ToldGoes, CellsSame
  <2> QED
    BY <2>4 DEF OnceStep
<1> QED
  BY <1>2, <1>3

LEMMA ClaimFailsOnce ==
    ASSUME IInv, NEW r \in Requests, ClaimFails(r)
    PROVE  OnceStep
<1> DEFINE k == req[r].key
<1>1. req[r].pc = "claim" /\ k \in Keys /\ req[r].pc # "done"
  BY Facts DEF ClaimFails, At, RequestOK
<1>2. CASE End(r, Error) /\ store' = store
  BY <1>1, <1>2, AnswerKinds, RefusedCells, OnceRefuses
<1>3. CASE store[k] = Absent /\ Put(k, Marker(r)) /\ End(r, Error)
  <2>1. req'[r].key = k /\ Moves(r) /\ Tells(r, Error) /\ ~Flies(req'[r], k)
    BY <1>1, <1>3, AnswerKinds, EndMoves
  <2>2. store'[k] = Marker(r) /\ \A j \in Keys \ {k} : store'[j] = store[j]
    BY <1>1, <1>3, PutKey
  <2> HIDE DEF k
  <2>3. CellGoes(k, Blocked)
    BY <1>1, <2>1, <2>2, CellBecomes DEF k
  <2> QED
    BY <1>1, <1>3, <2>1, <2>3, CellNow, OnceRefusesUnknown
<1>4. CASE store[k] = Absent /\ Put(k, Marker(r)) /\ Goto(r, "read")
  <2>1. req'[r].pc = "read" /\ req'[r].key = k /\ req'[r].answer = Pending /\ Moves(r)
    BY <1>1, <1>4, GotoMoves DEF Labels
  <2>2. store'[k] = Marker(r) /\ \A j \in Keys \ {k} : store'[j] = store[j]
    BY <1>1, <1>4, PutKey
  <2>3. ~Flies(req'[r], k)
    BY <2>1 DEF Flies
  <2> HIDE DEF k
  <2>4. CellGoes(k, Blocked)
    BY <1>1, <2>1, <2>2, <2>3, CellBecomes DEF k
  <2> QED
    BY <1>1, <1>4, <2>1, <2>4, ToldGoes, CellNow, OnceBeginsUnknown
<1> QED
  BY <1>2, <1>3, <1>4 DEF ClaimFails

LEMMA ReadOnce ==
    ASSUME IInv, NEW r \in Requests, Read(r)
    PROVE  OnceStep
<1> DEFINE k == req[r].key
<1>1. req[r].pc = "read" /\ k \in Keys /\ store[k] \in Values /\ store' = store
  BY Facts DEF Read, At, RequestOK
<1>2. End(r, Got(store[k]))
  BY DEF Read, Got
<1> HIDE DEF k
<1>3. CASE store[k] = Absent
  <2>1. Got(store[k]) = Error
    BY <1>3, ValueKinds DEF Got
  <2> QED
    BY <1>1, <1>2, <2>1, AnswerKinds, RefusedCells, OnceRefuses
<1>4. ASSUME NEW q \in Requests, store[k] = Marker(q)
      PROVE  OnceStep
  <2>1. Got(store[k]) = Conflict
    BY <1>4, ValueKinds DEF Got
  <2>2. Tells(r, Conflict) /\ Cells' = Cells
    BY <1>1, <1>2, <2>1, AnswerKinds, RefusedCells
  <2>3. Cells[k] \in {Running(q), Blocked}
    BY <1>1, <1>4, CellNow
  <2>4. Cells[k].kind \in {"running", "blocked"}
    BY <2>3 DEF Running, Blocked
  <2> QED
    BY <1>1, <2>2, <2>4, OnceConflicts
<1>5. ASSUME NEW q \in Requests, store[k] = Response(q)
      PROVE  OnceStep
  <2>1. Got(store[k]) = Replay(q)
    BY <1>5, ValueKinds DEF Got
  <2>2. PICK a : a = Replay(q)
    OBVIOUS
  <2>3. End(r, a) /\ a \in Answers
    BY <1>2, <2>1, <2>2, AnswerKinds DEF End
  <2>4. Tells(r, a) /\ Cells' = Cells
    BY <1>1, <2>3, RefusedCells
  <2>5. Cells[k] = Done(q)
    BY <1>1, <1>5, CellNow
  <2>6. Cells[k].kind = "done" /\ a = Replay(Cells[k].by)
    BY <2>2, <2>5 DEF Done
  <2> QED
    BY <1>1, <2>4, <2>6, OnceReplays
<1> QED
  BY <1>1, <1>3, <1>4, <1>5, ValueKinds

LEMMA ReadFailsOnce ==
    ASSUME IInv, NEW r \in Requests, ReadFails(r)
    PROVE  OnceStep
<1>1. req[r].pc = "read" /\ End(r, Error) /\ store' = store
  BY DEF ReadFails, At
<1> QED
  BY <1>1, AnswerKinds, RefusedCells, OnceRefuses

LEMMA HandleOnce ==
    ASSUME IInv, NEW r \in Requests, Handle(r)
    PROVE  OnceStep
<1>1. req[r].pc = "handler" /\ req[r].answer = Pending /\ store' = store
  BY Facts DEF Handle, At, RequestOK
<1>2. PICK o \in Outcomes \ {"none"} :
        req' = IF req[r].key = NoKey
               THEN [req EXCEPT ![r].outcome = o, ![r].pc = "done", ![r].answer = Own(o = "ok")]
               ELSE [req EXCEPT ![r].outcome = o, ![r].pc = "settle"]
  BY DEF Handle
<1>3. CASE req[r].key = NoKey
  <2>1. PICK ok \in BOOLEAN : ok = (o = "ok")
    OBVIOUS
  <2>2. Own(ok) \in Answers
    BY AnswerKinds
  <2>3. req' = [req EXCEPT ![r].outcome = o, ![r].pc = "done", ![r].answer = Own(ok)]
    BY <1>2, <1>3, <2>1
  <2>4. /\ req' \in [Requests -> ReqRecord] /\ \A q \in Requests \ {r} : req'[q] = req[q]
        /\ req'[r].pc = "done" /\ req'[r].key = NoKey /\ req'[r].answer = Own(ok)
    <3>1. PICK u : u = [req[r] EXCEPT !.outcome = o, !.pc = "done", !.answer = Own(ok)]
      OBVIOUS
    <3>2. req[r] \in ReqRecord
      BY Types
    <3>3. u \in ReqRecord /\ u.pc = "done" /\ u.key = NoKey /\ u.answer = Own(ok)
      BY <1>3, <2>2, <3>1, <3>2 DEF ReqRecord, Labels
    <3>4. req' = [req EXCEPT ![r] = u]
      BY <2>3, <3>1, Types
    <3> QED
      BY <3>3, <3>4, Types
  <2>5. \A j \in Keys : ~Flies(req'[r], j) /\ ~Flies(req[r], j)
    BY <1>3, <2>4, NoKeyAssumption DEF Flies
  <2>6. Moves(r)
    BY <1>1, <2>4, <2>5 DEF Moves
  <2>7. Cells' = Cells
    BY <1>1, <2>5, <2>6, CellsSame
  <2>8. Tells(r, req'[r].answer)
    BY <2>6, ToldGoes
  <2>9. Tells(r, Own(ok))
    BY <2>4, <2>8
  <2> QED
    BY <2>7, <2>9, OnceBypasses
<1>4. CASE req[r].key # NoKey
  <2>1. /\ req' \in [Requests -> ReqRecord] /\ \A q \in Requests \ {r} : req'[q] = req[q]
        /\ req'[r].pc = "settle" /\ req'[r].key = req[r].key /\ req'[r].answer = Pending
    BY <1>1, <1>2, <1>4, Facts, Types DEF ReqRecord, Labels
  <2>2. Moves(r)
    BY <1>1, <2>1 DEF Moves
  <2>3. \A j \in Keys : Flies(req'[r], j) <=> Flies(req[r], j)
    BY <1>1, <2>1 DEF Flies
  <2>4. Told' = Told /\ Cells' = Cells
    BY <1>1, <2>1, <2>2, <2>3, ToldGoes, CellsSame
  <2> QED
    BY <2>4 DEF OnceStep
<1> QED
  BY <1>3, <1>4

LEMMA SettleOnce ==
    ASSUME IInv, resends = 0, NEW r \in Requests, Settle(r)
    PROVE  OnceStep
<1> DEFINE k == req[r].key
<1>1. req[r].pc = "settle" /\ k \in Keys /\ req[r].pc # "done" /\ Flies(req[r], k)
  BY Facts DEF Settle, At, RequestOK, Flies
<1>2. Cells[k] = Running(r)
  BY <1>1, CellNow
<1>3. CASE req[r].outcome = "ok"
  <2>1. Put(k, Response(r)) /\ End(r, Own(TRUE))
    BY <1>3 DEF Settle
  <2>2. req'[r].key = k /\ Moves(r) /\ Tells(r, Own(TRUE))
    BY <1>1, <2>1, AnswerKinds, EndMoves
  <2>3. store'[k] = Response(r) /\ \A j \in Keys \ {k} : store'[j] = store[j]
    BY <1>1, <2>1, PutKey
  <2> HIDE DEF k
  <2>4. CellGoes(k, Done(r))
    BY <1>1, <2>2, <2>3, CellBecomes DEF k
  <2> QED
    BY <1>1, <1>2, <2>2, <2>4, OnceFinishes
<1>4. CASE req[r].outcome # "ok"
  <2>1. Put(k, Absent) /\ End(r, Own(FALSE))
    BY <1>4 DEF Settle
  <2>2. req'[r].key = k /\ Moves(r) /\ Tells(r, Own(FALSE))
    BY <1>1, <2>1, AnswerKinds, EndMoves
  <2>3. store'[k] = Absent /\ \A j \in Keys \ {k} : store'[j] = store[j]
    BY <1>1, <2>1, PutKey
  <2> HIDE DEF k
  <2>4. CellGoes(k, Free)
    BY <1>1, <2>2, <2>3, CellBecomes DEF k
  <2> QED
    BY <1>1, <1>2, <2>2, <2>4, OnceFinishes
<1> QED
  BY <1>3, <1>4

\* A request whose key keeps its marker when the request is over.
LEMMA DroppedOnce ==
    ASSUME IInv, resends = 0, NEW r \in Requests, NEW k \in Keys, Flies(req[r], k),
           Moves(r), req'[r].key = k, req'[r].pc = "done", store' = store,
           NEW a \in {Own(TRUE), Own(FALSE), Error}, Tells(r, a)
    PROVE  OnceStep
<1>1. Cells[k] = Running(r) /\ store'[k] = Marker(r) /\ req[r].key = k
  BY CellNow DEF Flies
<1>2. ~Flies(req'[r], k)
  BY DEF Flies
<1>3. CellGoes(k, Blocked)
  BY <1>1, <1>2, CellBecomes
<1> QED
  BY <1>1, <1>3, OnceDrops

LEMMA SettleFailsOnce ==
    ASSUME IInv, resends = 0, NEW r \in Requests, SettleFails(r)
    PROVE  OnceStep
<1>1. PICK a : a = Own(req[r].outcome = "ok")
  OBVIOUS
<1>2. a \in Answers /\ a \in {Own(TRUE), Own(FALSE), Error}
  <2>1. CASE req[r].outcome = "ok"
    BY <1>1, <2>1, AnswerKinds
  <2>2. CASE req[r].outcome # "ok"
    BY <1>1, <2>2, AnswerKinds
  <2> QED
    BY <2>1, <2>2
<1>3. End(r, a) /\ req[r].pc = "settle" /\ req[r].key \in Keys /\ store' = store
  BY <1>1, Facts DEF SettleFails, At, RequestOK
<1>4. Flies(req[r], req[r].key)
  BY <1>3 DEF Flies
<1>5. /\ Moves(r) /\ req'[r].key = req[r].key /\ req'[r].pc = "done" /\ Tells(r, a)
  BY <1>2, <1>3, EndMoves
<1> QED
  BY <1>2, <1>3, <1>4, <1>5, DroppedOnce

LEMMA InterruptOnce ==
    ASSUME IInv, resends = 0, NEW r \in Requests, Interrupt(r)
    PROVE  OnceStep
<1>1. req[r].pc \in {"handler", "settle"} /\ req[r].answer = Pending /\ store' = store
  BY Facts DEF Interrupt, RequestOK
<1>2. PICK o \in IF At(r, "handler") THEN {"refused", "half"} ELSE {req[r].outcome} :
        req' = [req EXCEPT ![r].outcome = o, ![r].pc = "done", ![r].answer = Error]
  BY DEF Interrupt
<1>3. o \in Outcomes
  BY <1>2, Facts DEF Outcomes, ReqRecord
<1>4. /\ req' \in [Requests -> ReqRecord] /\ \A q \in Requests \ {r} : req'[q] = req[q]
      /\ req'[r].pc = "done" /\ req'[r].key = req[r].key /\ req'[r].answer = Error
  <2> DEFINE v == [req[r] EXCEPT !.outcome = o, !.pc = "done", !.answer = Error]
  <2>1. /\ v \in ReqRecord /\ v.pc = "done" /\ v.key = req[r].key /\ v.answer = Error
    BY <1>3, AnswerKinds, Facts DEF ReqRecord, Labels
  <2>2. req' = [req EXCEPT ![r] = v]
    BY <1>2, Types
  <2> HIDE DEF v
  <2> QED
    BY <2>1, <2>2, Types
<1>5. Moves(r) /\ \A j : ~Flies(req'[r], j)
  BY <1>1, <1>4 DEF Moves, Flies
<1>6. Tells(r, Error)
  BY <1>4, <1>5, ToldGoes
<1>7. CASE req[r].key = NoKey
  <2>1. \A j \in Keys : ~Flies(req[r], j)
    BY <1>7, NoKeyAssumption DEF Flies
  <2>2. Cells' = Cells
    BY <1>1, <1>5, <2>1, CellsSame
  <2> QED
    BY <1>6, <2>2, OnceRefuses
<1>8. CASE req[r].key # NoKey
  <2>1. req[r].key \in Keys /\ Flies(req[r], req[r].key)
    BY <1>1, <1>8, Facts DEF ReqRecord, Flies
  <2> QED
    BY <1>1, <1>4, <1>5, <1>6, <2>1, DroppedOnce
<1> QED
  BY <1>7, <1>8

\* Only a key that nobody is busy with expires.
LEMMA ExpireOnce ==
    ASSUME IInv, NEW k \in Keys, Expire(k)
    PROVE  OnceStep
<1>1. req' = req /\ store[k] # Absent /\ store[k] \in Values
  BY Types DEF Expire
<1>2. store'[k] = Absent /\ \A j \in Keys \ {k} : store'[j] = store[j]
  BY PutKey DEF Expire
<1>3. ~Held(k)
  BY DEF Held, Flies, Expire
<1>4. Cells[k].kind \in {"done", "blocked"}
  <2>1. Cells[k] = CellValue(store[k], FALSE)
    BY <1>3, CellIs DEF CellValue
  <2>2. PICK q \in Requests : store[k] = Marker(q) \/ store[k] = Response(q)
    BY <1>1, ValueKinds
  <2>3. Cells[k] \in {Blocked, Done(q)}
    BY <2>1, <2>2, CellValues
  <2> QED
    BY <2>3 DEF Blocked, Done
<1>5. ASSUME NEW j \in Keys, j # k
      PROVE  CellValue(store'[j], HeldNext(j)) = Cells[j]
  <2>1. HeldNext(j) <=> Held(j)
    BY <1>1, <1>2, <1>5 DEF Held, HeldNext
  <2> QED
    BY <1>2, <1>5, <2>1, CellIs DEF CellValue
<1>6. \A j \in Keys : Cells'[j] = IF j = k THEN Free ELSE Cells[j]
  BY <1>2, <1>5, CellsNext DEF CellValue
<1>7. Cells' = [j \in Keys |-> Cells'[j]] /\ Cells = [j \in Keys |-> Cells[j]]
  BY DEF Cells
<1>8. Cells' = [Cells EXCEPT ![k] = Free]
  BY <1>6, <1>7
<1>9. CellGoes(k, Free) /\ Told' = Told
  BY <1>1, <1>8 DEF CellGoes, Told
<1> QED
  BY <1>4, <1>9, OnceForgets

-----------------------------------------------------------------------------

LEMMA InitOnce == Init => Once!Init
<1> SUFFICES ASSUME Init PROVE Once!Init
  OBVIOUS
<1>1. \A k \in Keys : store[k] = Absent
  BY DEF Init
<1>2. \A r \in Requests : req[r].answer = Pending
  BY DEF Init, Idle
<1> QED
  BY <1>1, <1>2 DEF Once!Init, Once!Free, Once!Pending, Pending

LEMMA NextOnce == IInv /\ [Next]_vars /\ resends' = 0 => [Once!Next]_(Once!vars)
<1> SUFFICES ASSUME IInv, [Next]_vars, resends' = 0
             PROVE  OnceStep
  BY DEF OnceStep, Once!vars, Cells, Told
<1>1. ASSUME NEW r \in Requests, Step(r)
      PROVE  OnceStep
  <2>1. ~ReplyLost(r)
    BY Facts DEF ReplyLost
  <2>2. ASSUME Resend(r)
        PROVE  FALSE
    <3>1. resends = 0 /\ req[r].pc = "resend"
      BY <2>2 DEF Resend, CountersStay, At
    <3> QED
      BY <3>1, Facts DEF RequestOK
  <2>3. CASE Arrive(r) \/ Claim(r) \/ ClaimFails(r) \/ Read(r) \/ ReadFails(r) \/ Handle(r)
    BY <2>3, ArriveOnce, ClaimOnce, ClaimFailsOnce, ReadOnce, ReadFailsOnce, HandleOnce
  <2>4. CASE Settle(r) \/ SettleFails(r) \/ Interrupt(r)
    <3>1. resends = 0
      BY <2>4 DEF Settle, SettleFails, Interrupt, CountersStay
    <3> QED
      BY <2>4, <3>1, SettleOnce, SettleFailsOnce, InterruptOnce
  <2> QED
    BY <1>1, <2>1, <2>2, <2>3, <2>4 DEF Step
<1>2. ASSUME NEW k \in Keys, Expire(k)
      PROVE  OnceStep
  BY <1>2, ExpireOnce
<1>3. CASE UNCHANGED vars
  BY <1>3 DEF vars, OnceStep, Cells, Told, Holder, InFlight
<1> QED
  BY <1>1, <1>2, <1>3 DEF Next

\* Until a DEL is sent again, any number of requests in any number of
\* replicas, with Redis failing between their commands, do to each key what
\* a cell allows that runs one request at a time and none after a success.
THEOREM OnceRefined == Spec => ImplementsOnceCell
<1>1. IInv /\ [Next]_vars => [resends' = 0 => [Once!Next]_(Once!vars)]_vars
  BY NextOnce
<1> QED
  BY <1>1, InitOnce, Invariant, PTL DEF Spec, ImplementsOnceCell

=============================================================================
