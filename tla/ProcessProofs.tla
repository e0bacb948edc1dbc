---------------------------- MODULE ProcessProofs ----------------------------
(***************************************************************************)
(* Proofs about what a process keeps in memory.  Router: for any number of *)
(* PSPs and goroutines, any plans and any thresholds, its types and        *)
(* CountersOfPhase, which only hold together: the counter of successes     *)
(* stays within its type because a half-open breaker has a success to go.  *)
(* Server: for any number of requests, readers, workers and buckets, any   *)
(* amounts and ranges of time, its types, the metrics, what the dashboard  *)
(* shows, and the graceful end.                                            *)
(*                                                                         *)
(* Router and Server share no variable; each has its theorems here about   *)
(* its own specification, Spec and ServerSpec.                             *)
(***************************************************************************)
EXTENDS Router, Server, FiniteSetTheorems, TLAPS

-----------------------------------------------------------------------------
(* Router.                                                                   *)

\* A breaker whose counters are those of its phase.
InPhase(b) ==
    /\ b \in Breaker
    /\ b.state = "closed" => b.fails < FailureThreshold
    /\ b.state = "half_open" => b.ok < SuccessThreshold

\* A goroutine that is calling has a PSP to record its outcome on.
CallingHasPsp == \A c \in Clients : client[c].pc = "calling" => client[c].psp \in Psps

IInv == TypeOK /\ CountersOfPhase /\ CallingHasPsp

\* The three methods and the passing of the timeout keep a breaker in phase.
LEMMA NewInPhase == InPhase(New)
BY ThresholdAssumption DEF InPhase, New, Breaker, States

\* What the fields of a breaker hold, and what replacing some of them gives.
LEMMA BreakerFields ==
    ASSUME NEW b \in Breaker
    PROVE  /\ b.state \in States /\ b.fails \in 0 .. FailureThreshold
           /\ b.ok \in 0 .. SuccessThreshold /\ b.elapsed \in BOOLEAN
BY DEF Breaker

\* Allow leaves a breaker in phase.
LEMMA AllowInPhase ==
    ASSUME NEW b, InPhase(b)
    PROVE  InPhase(AfterAllow(b))
<1>0. b \in Breaker
  BY DEF InPhase
<1> DEFINE c == [b EXCEPT !.state = "half_open", !.ok = 0]
<1>1. AfterAllow(b) = IF b.state = "open" THEN c ELSE b
  BY DEF AfterAllow
<1>2. "half_open" \in States /\ 0 \in 0 .. SuccessThreshold /\ 0 < SuccessThreshold
  BY ThresholdAssumption DEF States
<1>3. c \in Breaker /\ c.state = "half_open" /\ c.ok = 0
  BY <1>0, <1>2 DEF Breaker
<1> HIDE DEF c
<1> QED
  BY <1>1, <1>2, <1>3 DEF InPhase

\* So does RecordSuccess.
LEMMA SuccessInPhase ==
    ASSUME NEW b, InPhase(b)
    PROVE  InPhase(RecordSuccess(b))
<1>0. b \in Breaker
  BY DEF InPhase
<1> DEFINE c == [b EXCEPT !.fails = 0]
<1> DEFINE s == IF b.ok + 1 >= SuccessThreshold THEN "closed" ELSE "half_open"
<1> DEFINE e == [c EXCEPT !.ok = c.ok + 1, !.state = s]
<1>1. 0 \in 0 .. FailureThreshold /\ 0 < FailureThreshold
  BY ThresholdAssumption
<1>2. c \in Breaker /\ c.state = b.state /\ c.ok = b.ok /\ c.fails = 0
  BY <1>0, <1>1 DEF Breaker
<1>3. RecordSuccess(b) = IF b.state # "half_open" THEN c ELSE e
  BY <1>2 DEF RecordSuccess, Breaker
<1> HIDE DEF c
<1>4. CASE b.state # "half_open"
  BY <1>1, <1>2, <1>3, <1>4 DEF InPhase
<1>5. CASE b.state = "half_open"
  <2>1. b.ok \in 0 .. SuccessThreshold /\ b.ok < SuccessThreshold
    BY <1>5, BreakerFields DEF InPhase
  <2>2. c.ok + 1 \in 0 .. SuccessThreshold /\ s \in States
        /\ (s = "half_open" => c.ok + 1 < SuccessThreshold)
    BY <1>2, <2>1, ThresholdAssumption DEF States
  <2> HIDE DEF s
  <2>3. e \in Breaker /\ e.state = s /\ e.ok = c.ok + 1 /\ e.fails = 0
    BY <1>2, <2>2 DEF Breaker
  <2> HIDE DEF e
  <2> QED
    BY <1>1, <1>3, <1>5, <2>2, <2>3 DEF InPhase
<1> QED
  BY <1>4, <1>5

\* So does RecordFailure.
LEMMA FailureInPhase ==
    ASSUME NEW b, InPhase(b)
    PROVE  InPhase(RecordFailure(b))
<1>0. b \in Breaker
  BY DEF InPhase
<1> DEFINE n == IF b.fails < FailureThreshold THEN b.fails + 1 ELSE b.fails
<1> DEFINE c == [b EXCEPT !.fails = n, !.ok = 0]
<1>1. n \in 0 .. FailureThreshold /\ 0 \in 0 .. SuccessThreshold
  <2>1. b.fails \in 0 .. FailureThreshold
    BY BreakerFields DEF InPhase
  <2> QED
    BY <2>1, ThresholdAssumption
<1>2. RecordFailure(b) = IF b.state = "half_open" \/ (b.state = "closed" /\ c.fails >= FailureThreshold)
                         THEN Opened(c) ELSE c
  BY DEF RecordFailure
<1> HIDE DEF n
<1>3. c \in Breaker /\ c.state = b.state /\ c.fails = n /\ c.ok = 0
  BY <1>0, <1>1 DEF Breaker
<1> HIDE DEF c
<1>4. Opened(c) \in Breaker /\ Opened(c).state = "open"
  BY <1>3 DEF Opened, Breaker, States
<1>5. c.fails < FailureThreshold \/ c.fails >= FailureThreshold
  BY <1>1, <1>3, ThresholdAssumption
<1> QED
  BY <1>2, <1>3, <1>4, <1>5 DEF InPhase

\* Both parts of the invariant, read breaker by breaker.
LEMMA PhaseOfEach ==
    ASSUME TypeOK
    PROVE  CountersOfPhase <=> \A x \in Psps : InPhase(breakers[x])
BY DEF TypeOK, CountersOfPhase, InPhase

\* A step that replaces one breaker by one in phase keeps every breaker so.
LEMMA OneBreaker ==
    ASSUME IInv, NEW x \in Psps, NEW b, InPhase(b), breakers' = [breakers EXCEPT ![x] = b]
    PROVE  breakers' \in [Psps -> Breaker] /\ CountersOfPhase'
<1>1. b \in Breaker
  BY DEF InPhase
<1>2. breakers' \in [Psps -> Breaker]
  BY <1>1 DEF IInv, TypeOK
<1>3. ASSUME NEW y \in Psps
      PROVE  InPhase(breakers'[y])
  BY <1>1, PhaseOfEach DEF IInv, TypeOK
<1> QED
  BY <1>2, <1>3 DEF CountersOfPhase, InPhase

\* The breakers stay where they are.
LEMMA SameBreakers ==
    ASSUME IInv, UNCHANGED breakers
    PROVE  breakers' \in [Psps -> Breaker] /\ CountersOfPhase'
BY DEF IInv, TypeOK, CountersOfPhase

\* Initially the breakers are closed and nobody calls.
LEMMA InitIInv == Init => IInv
<1> SUFFICES ASSUME Init PROVE IInv
  OBVIOUS
<1>1. \A x \in Psps : breakers[x] = New
  BY DEF Init
<1>2. <<>> \in Seq(Psps \cup {"unregistered"})
  OBVIOUS
<1>3. TypeOK
  BY <1>1, <1>2, NewInPhase DEF Init, TypeOK, Waiting, InPhase
<1>4. CountersOfPhase
  BY <1>1, <1>3, NewInPhase, PhaseOfEach
<1>5. CallingHasPsp
  BY DEF Init, CallingHasPsp, Waiting
<1> QED
  BY <1>3, <1>4, <1>5 DEF IInv

Client == [pc : {"idle", "routing", "calling"},
           plan : Seq(Psps \cup {"unregistered"}), left : SUBSET Psps,
           psp : Psps \cup {"none"}]

\* A step changes the state of one goroutine, and gives a caller its PSP.
LEMMA OneClient ==
    ASSUME IInv, NEW c \in Clients, NEW k \in Client, k.pc = "calling" => k.psp \in Psps,
           client' = [client EXCEPT ![c] = k]
    PROVE  client' \in [Clients -> Client] /\ CallingHasPsp'
BY DEF IInv, TypeOK, CallingHasPsp, Client

\* A goroutine that waits is one that is not calling.
LEMMA WaitingIsClient == Waiting \in Client /\ Waiting.pc = "idle"
<1>1. <<>> \in Seq(Psps \cup {"unregistered"})
  OBVIOUS
<1> QED
  BY <1>1 DEF Waiting, Client

\* Allow lets a request through to a PSP.
LEMMA SelectIInv ==
    ASSUME IInv, NEW c \in Clients, NEW x \in Psps, Select(c, x)
    PROVE  breakers' \in [Psps -> Breaker] /\ CountersOfPhase'
           /\ client' \in [Clients -> Client] /\ CallingHasPsp'
<1> DEFINE k == [Waiting EXCEPT !.pc = "calling", !.psp = x]
<1>1. InPhase(AfterAllow(breakers[x]))
  BY AllowInPhase, PhaseOfEach DEF IInv
<1>2. breakers' = [breakers EXCEPT ![x] = AfterAllow(breakers[x])]
  BY DEF Select
<1>3. k \in Client /\ k.psp = x
  BY WaitingIsClient DEF Client, Waiting
<1>4. client' = [client EXCEPT ![c] = k]
  BY DEF Select
<1> HIDE DEF k
<1>5. client' \in [Clients -> Client] /\ CallingHasPsp'
  BY <1>3, <1>4, OneClient
<1> QED
  BY <1>1, <1>2, <1>5, OneBreaker

\* Every step keeps the invariant.
LEMMA NextIInv == IInv /\ [Next]_vars => IInv'
<1> SUFFICES ASSUME IInv, [Next]_vars PROVE IInv'
  OBVIOUS
<1> DEFINE Goal == /\ breakers' \in [Psps -> Breaker] /\ CountersOfPhase'
                   /\ client' \in [Clients -> Client] /\ CallingHasPsp'
                   /\ healthy' \subseteq Psps
<1>0. ASSUME Goal PROVE IInv'
  BY <1>0 DEF IInv, TypeOK, Client
<1>1. ASSUME NEW c \in Clients, NEW plan \in Plans, Start(c, plan)
      PROVE  Goal
  <2> DEFINE k == [client[c] EXCEPT !.pc = "routing", !.plan = plan, !.left = Psps]
  <2>1. k \in Client /\ k.pc = "routing"
    BY PlanAssumption DEF IInv, TypeOK, Client
  <2>2. client' = [client EXCEPT ![c] = k] /\ UNCHANGED <<breakers, healthy>>
    BY <1>1 DEF Start, IInv, TypeOK
  <2> HIDE DEF k
  <2>3. client' \in [Clients -> Client] /\ CallingHasPsp'
    BY <2>1, <2>2, OneClient
  <2> QED
    BY <2>2, <2>3, SameBreakers DEF IInv, TypeOK
<1>2. ASSUME NEW c \in Clients, TryNamed(c)
      PROVE  Goal
  <2> DEFINE x == Head(client[c].plan)
  <2>1. healthy' \subseteq Psps
    BY <1>2 DEF TryNamed, IInv, TypeOK
  <2>2. CASE x \in Psps /\ Select(c, x)
    BY <2>1, <2>2, SelectIInv
  <2>3. CASE client' = [client EXCEPT ![c].plan = Tail(@)] /\ UNCHANGED breakers
    <3> DEFINE t == Tail(client[c].plan)
    <3> DEFINE k == [client[c] EXCEPT !.plan = t]
    <3>0. client[c] \in Client /\ client[c].pc = "routing" /\ t \in Seq(Psps \cup {"unregistered"})
      <4>1. client[c].plan \in Seq(Psps \cup {"unregistered"}) /\ client[c].plan # <<>>
        BY <1>2 DEF TryNamed, IInv, TypeOK
      <4> QED
        BY <1>2, <4>1 DEF TryNamed, IInv, TypeOK, Client
    <3>1. k \in Client /\ k.pc = "routing"
      <4> HIDE DEF t
      <4> QED
        BY <3>0 DEF Client
    <3>2. client' = [client EXCEPT ![c] = k]
      BY <2>3 DEF IInv, TypeOK
    <3> HIDE DEF k
    <3>3. client' \in [Clients -> Client] /\ CallingHasPsp'
      BY <3>1, <3>2, OneClient
    <3> QED
      BY <2>1, <2>3, <3>3, SameBreakers
  <2> QED
    BY <1>2, <2>2, <2>3 DEF TryNamed
<1>3. ASSUME NEW c \in Clients, TryAny(c)
      PROVE  Goal
  <2>1. healthy' \subseteq Psps /\ client[c].left \subseteq Psps
    BY <1>3 DEF TryAny, IInv, TypeOK
  <2>2. PICK x \in client[c].left :
            \/ Select(c, x)
            \/ /\ client' = [client EXCEPT ![c].left = @ \ {x}]
               /\ UNCHANGED breakers
    BY <1>3 DEF TryAny
  <2>3. CASE Select(c, x)
    BY <2>1, <2>3, SelectIInv
  <2>4. CASE client' = [client EXCEPT ![c].left = @ \ {x}] /\ UNCHANGED breakers
    <3> DEFINE k == [client[c] EXCEPT !.left = client[c].left \ {x}]
    <3>1. k \in Client /\ k.pc = "routing"
      BY <1>3, <2>1 DEF TryAny, IInv, TypeOK, Client
    <3>2. client' = [client EXCEPT ![c] = k]
      BY <2>4 DEF IInv, TypeOK
    <3> HIDE DEF k
    <3>3. client' \in [Clients -> Client] /\ CallingHasPsp'
      BY <3>1, <3>2, OneClient
    <3> QED
      BY <2>1, <2>4, <3>3, SameBreakers
  <2> QED
    BY <2>2, <2>3, <2>4
<1>4. ASSUME NEW c \in Clients, Unavailable(c) \/ NotCalled(c)
      PROVE  Goal
  <2>1. client' = [client EXCEPT ![c] = Waiting] /\ UNCHANGED <<breakers, healthy>>
    BY <1>4 DEF Unavailable, NotCalled
  <2>2. client' \in [Clients -> Client] /\ CallingHasPsp'
    BY <2>1, WaitingIsClient, OneClient
  <2> QED
    BY <2>1, <2>2, SameBreakers DEF IInv, TypeOK
<1>5. ASSUME NEW c \in Clients, Record(c)
      PROVE  Goal
  <2> DEFINE x == client[c].psp
  <2> DEFINE b == IF x \in healthy THEN RecordSuccess(breakers[x]) ELSE RecordFailure(breakers[x])
  <2>1. x \in Psps
    BY <1>5 DEF Record, IInv, CallingHasPsp
  <2>2. InPhase(b)
    BY <2>1, PhaseOfEach, SuccessInPhase, FailureInPhase DEF IInv
  <2>3. /\ breakers' = [breakers EXCEPT ![x] = b]
        /\ client' = [client EXCEPT ![c] = Waiting]
        /\ UNCHANGED healthy
    BY <1>5 DEF Record
  <2> HIDE DEF x, b
  <2>4. client' \in [Clients -> Client] /\ CallingHasPsp'
    BY <2>3, WaitingIsClient, OneClient
  <2> QED
    BY <2>1, <2>2, <2>3, <2>4, OneBreaker DEF IInv, TypeOK
<1>6. ASSUME NEW x \in Psps, Elapse(x)
      PROVE  Goal
  <2> DEFINE b == [breakers[x] EXCEPT !.elapsed = TRUE]
  <2>1. InPhase(breakers[x])
    BY PhaseOfEach DEF IInv
  <2>2. InPhase(b)
    BY <2>1 DEF InPhase, Breaker
  <2>3. breakers' = [breakers EXCEPT ![x] = b] /\ UNCHANGED <<client, healthy>>
    BY <1>6 DEF Elapse
  <2> HIDE DEF b
  <2> QED
    BY <2>2, <2>3, OneBreaker DEF IInv, TypeOK, CallingHasPsp, Client
<1>7. ASSUME NEW x \in Psps, Turn(x)
      PROVE  Goal
  BY <1>7, SameBreakers DEF Turn, IInv, TypeOK, CallingHasPsp, Client
<1>8. CASE UNCHANGED vars
  BY <1>0, <1>8, SameBreakers DEF vars, IInv, TypeOK, CallingHasPsp, Client
<1> HIDE DEF Goal
<1>9. CASE Next
  BY <1>0, <1>1, <1>2, <1>3, <1>4, <1>5, <1>6, <1>7, <1>9 DEF Next, Route
<1> QED
  BY <1>8, <1>9

\* For any number of PSPs and goroutines and any thresholds, breakers and
\* goroutines keep their types in every interleaving of Route, Allow and Record.
THEOREM TypeCorrect == Spec => []TypeOK
<1>1. IInv => TypeOK
  BY DEF IInv
<1> QED
  BY <1>1, InitIInv, NextIInv, PTL DEF Spec

\* For any number of PSPs and goroutines and any thresholds, no late
\* RecordSuccess or RecordFailure leaves a counter at its threshold without
\* the transition that it calls for.
THEOREM CountersCorrect == Spec => []CountersOfPhase
<1>1. IInv => CountersOfPhase
  BY DEF IInv
<1> QED
  BY <1>1, InitIInv, NextIInv, PTL DEF Spec

-----------------------------------------------------------------------------
(* Server: what steps do to the requests, to the rows and to the rest.       *)

\* What a step may do to the state of the middleware.
MetricsStep(p) == Enter(p) \/ Count(p) \/ Return(p) \/ Panic(p) \/ Observe(p) \/ Leave(p)

\* What a step may do to the state behind the dashboard.
Concluded(p) ==
    /\ status[p] = "created"
    /\ \E s \in {"authorized", "failed"} : status' = [status EXCEPT ![p] = s]
    /\ UNCHANGED <<stamped, stats, pages, known>>
DashStep ==
    \/ \E p \in Writers : Stamp(p) \/ Insert(p) \/ Concluded(p) \/ MovePayment(p)
    \/ \E r \in Readers : GetStats(r) \/ GetRecentPayments(r)

\* A step of the process is one of the middleware and leaves the rows alone, or
\* the other way round, or leaves both alone.
LEMMA StepOfMetrics ==
    ASSUME [ServerNext]_serverVars
    PROVE  (\E p \in Writers : MetricsStep(p)) \/ UNCHANGED metricVars
BY DEF ServerNext, serverVars, MetricsStep, Main, Subscribe, Serve, Signal, Drained, ShutdownTimesOut,
       Flushed, PoolClosed, StartFails, Kill, Request, Create, Conclude, HandOver, Answer, Send,
       Pull, Acquire, Release, Read

\* The same of the rows and of their readers.
LEMMA StepOfDashboard ==
    ASSUME [ServerNext]_serverVars
    PROVE  DashStep \/ UNCHANGED dashVars
BY DEF ServerNext, serverVars, DashStep, Concluded, Main, Subscribe, Serve, Signal, Drained,
       ShutdownTimesOut, Flushed, PoolClosed, StartFails, Kill, Request, Create, Conclude, HandOver,
       Answer, Send, Pull, Acquire, Release, Read, dashVars

-----------------------------------------------------------------------------
(* Metrics.                                                                  *)

\* Requests that are, for a function from requests to stages, at one of the stages.
AtIn(h, stages) == {r \in Requests : h[r] \in stages}

\* From h to h2 one request goes to a stage.
Goes(h, h2, r, to) ==
    /\ h \in [Requests -> HttpStages] /\ r \in Requests /\ to \in HttpStages
    /\ h2 = [h EXCEPT ![r] = to]

\* What that does to how many are at the stages of S.
Counted(h, h2, r, to, S) ==
    /\ IsFiniteSet(AtIn(h2, S))
    /\ Cardinality(AtIn(h, S)) \in Nat
    /\ Cardinality(AtIn(h2, S)) \in Nat
    /\ (h[r] \in S <=> to \in S) => Cardinality(AtIn(h2, S)) = Cardinality(AtIn(h, S))
    /\ h[r] \notin S /\ to \in S => Cardinality(AtIn(h2, S)) = Cardinality(AtIn(h, S)) + 1
    /\ h[r] \in S /\ to \notin S => /\ Cardinality(AtIn(h2, S)) = Cardinality(AtIn(h, S)) - 1
                                    /\ Cardinality(AtIn(h, S)) - 1 \in Nat

\* A request that goes over is counted where it goes to, and no longer where it came from.
LEMMA GoneOver ==
    ASSUME NEW h, NEW h2, NEW r, NEW to, Goes(h, h2, r, to), NEW S, IsFiniteSet(AtIn(h, S))
    PROVE  Counted(h, h2, r, to, S)
<1>0. Cardinality(AtIn(h, S)) \in Nat
  BY FS_CardinalityType
<1>1. CASE h[r] \in S <=> to \in S
  <2>1. AtIn(h2, S) = AtIn(h, S)
    BY <1>1 DEF AtIn, Goes
  <2> QED
    BY <1>0, <1>1, <2>1 DEF Counted
<1>2. CASE h[r] \notin S /\ to \in S
  <2>1. AtIn(h2, S) = AtIn(h, S) \cup {r} /\ r \notin AtIn(h, S)
    BY <1>2 DEF AtIn, Goes
  <2>2. IsFiniteSet(AtIn(h2, S)) /\ Cardinality(AtIn(h2, S)) = Cardinality(AtIn(h, S)) + 1
    <3>1. PICK A : A = AtIn(h, S)
      OBVIOUS
    <3>2. IsFiniteSet(A \cup {r}) /\ Cardinality(A \cup {r}) = Cardinality(A) + 1
      BY <2>1, <3>1, FS_AddElement
    <3> QED
      BY <2>1, <3>1, <3>2
  <2> QED
    BY <1>0, <1>2, <2>2 DEF Counted
<1>3. CASE h[r] \in S /\ to \notin S
  <2>1. AtIn(h2, S) = AtIn(h, S) \ {r} /\ r \in AtIn(h, S)
    BY <1>3 DEF AtIn, Goes
  <2>2. IsFiniteSet(AtIn(h2, S)) /\ Cardinality(AtIn(h2, S)) = Cardinality(AtIn(h, S)) - 1
    <3>1. PICK A : A = AtIn(h, S)
      OBVIOUS
    <3>2. IsFiniteSet(A \ {r}) /\ Cardinality(A \ {r}) = Cardinality(A) - 1
      BY <2>1, <3>1, FS_RemoveElement
    <3> QED
      BY <2>1, <3>1, <3>2
  <2>3. Cardinality(AtIn(h2, S)) \in Nat
    BY <2>2, FS_CardinalityType
  <2> QED
    BY <1>0, <1>3, <2>2, <2>3 DEF Counted
<1> QED
  BY <1>1, <1>2, <1>3

\* The stages at which a request has been counted and not yet timed.
Untimed == {"serving", "served", "panicked", "aborted"}

\* A histogram: its buckets are nested, and the last one has everything.
Nested(h) ==
    /\ h \in [counts : [BucketIds -> Nat], count : Nat]
    /\ h.counts[Buckets + 1] = h.count
    /\ \A i \in 1 .. Buckets : h.counts[i] <= h.counts[i + 1]

\* The invariant of the middleware: finitely many requests have come in.
MetricsInv ==
    /\ http \in [Requests -> HttpStages]
    /\ active \in Nat /\ total \in Nat
    /\ Nested(hist)
    /\ IsFiniteSet(AtIn(http, Inside)) /\ IsFiniteSet(AtIn(http, Untimed))
    /\ active = Cardinality(AtIn(http, Inside))
    /\ total = hist.count + Cardinality(AtIn(http, Untimed))

\* What the invariant of the middleware says of its metrics.
LEMMA MetricsInvSays == MetricsInv => MetricsTypeOK /\ MetricsAgree
BY DEF MetricsInv, Nested, MetricsTypeOK, MetricsAgree, At, AtIn, Untimed

\* A latency keeps the buckets nested.
LEMMA ObservedNested ==
    ASSUME NEW h, Nested(h), NEW b \in BucketIds
    PROVE  Nested(Observed(h, b)) /\ Observed(h, b).count = h.count + 1
<1> DEFINE c == [i \in BucketIds |-> IF b <= i THEN h.counts[i] + 1 ELSE h.counts[i]]
<1>1. Observed(h, b) = [counts |-> c, count |-> h.count + 1]
  BY DEF Observed
<1>2. PICK k : k = h.counts
  OBVIOUS
<1>3. /\ k \in [BucketIds -> Nat] /\ h.count \in Nat
      /\ k[Buckets + 1] = h.count
      /\ \A i \in 1 .. Buckets : k[i] <= k[i + 1]
  BY <1>2 DEF Nested
<1>4. \A i \in BucketIds : c[i] = IF b <= i THEN k[i] + 1 ELSE k[i]
  BY <1>2
<1>5. c \in [BucketIds -> Nat]
  BY <1>2, <1>3
<1> HIDE DEF c
<1>6. Buckets \in Nat /\ b \in 1 .. Buckets + 1 /\ Buckets + 1 \in BucketIds
  BY BucketsAssumption DEF BucketIds
<1>7. c[Buckets + 1] = h.count + 1
  BY <1>3, <1>4, <1>6
<1>8. ASSUME NEW i \in 1 .. Buckets PROVE c[i] <= c[i + 1]
  <2>1. i \in BucketIds /\ i + 1 \in BucketIds /\ i \in Nat /\ b \in Nat
    BY <1>6 DEF BucketIds
  <2>2. k[i] \in Nat /\ k[i + 1] \in Nat /\ k[i] <= k[i + 1]
    BY <1>3, <2>1
  <2> QED
    BY <1>4, <2>1, <2>2
<1> QED
  BY <1>1, <1>3, <1>5, <1>7, <1>8 DEF Nested

\* It holds when the process starts.
LEMMA MetricsInvInit == MetricsInit => MetricsInv
<1> SUFFICES ASSUME MetricsInit PROVE MetricsInv
  OBVIOUS
<1>1. http \in [Requests -> HttpStages] /\ active = 0 /\ total = 0
  BY DEF MetricsInit, HttpStages
<1>2. AtIn(http, Inside) = {} /\ AtIn(http, Untimed) = {}
  BY DEF MetricsInit, AtIn, Inside, Untimed
<1>3. Nested(hist) /\ hist.count = 0
  <2>1. Buckets + 1 \in BucketIds /\ \A i \in 1 .. Buckets : i \in BucketIds /\ i + 1 \in BucketIds
    BY BucketsAssumption DEF BucketIds
  <2>2. PICK c : c = [i \in BucketIds |-> 0]
    OBVIOUS
  <2>3. hist = [counts |-> c, count |-> 0] /\ c \in [BucketIds -> Nat] /\ \A i \in BucketIds : c[i] = 0
    BY <2>2 DEF MetricsInit
  <2> QED
    BY <2>1, <2>3 DEF Nested
<1> QED
  BY <1>1, <1>2, <1>3, FS_EmptySet DEF MetricsInv

\* Each call of the middleware preserves it: what a metric counts goes over with the request.
LEMMA MetricsInvStep ==
    MetricsInv /\ ((\E p \in Writers : MetricsStep(p)) \/ UNCHANGED metricVars) => MetricsInv'
<1> SUFFICES ASSUME MetricsInv, (\E p \in Writers : MetricsStep(p)) \/ UNCHANGED metricVars
             PROVE  MetricsInv'
  OBVIOUS
<1>1. CASE UNCHANGED metricVars
  BY <1>1 DEF MetricsInv, metricVars, Nested, AtIn
<1>2. ASSUME NEW p \in Writers, MetricsStep(p)
      PROVE  MetricsInv'
  <2>1. p \in Requests
    BY RequestsAreWriters
  <2>2. PICK h, h2 : h = http /\ h2 = http'
    OBVIOUS
  <2>3. PICK from, to : from = h[p] /\ to = h2[p]
    OBVIOUS
  <2>4. Goes(h, h2, p, to) /\ h2 \in [Requests -> HttpStages]
    <3>1. h \in [Requests -> HttpStages]
      BY <2>2 DEF MetricsInv
    <3>2. \E s \in HttpStages : h2 = [h EXCEPT ![p] = s]
      BY <1>2, <2>2 DEF MetricsStep, Enter, Count, Return, Panic, Observe, Leave, HttpStages, Inside, Go
    <3> QED
      BY <2>1, <2>3, <3>1, <3>2 DEF Goes
  <2>5. PICK a, a2, u, u2 : /\ a = Cardinality(AtIn(h, Inside)) /\ a2 = Cardinality(AtIn(h2, Inside))
                            /\ u = Cardinality(AtIn(h, Untimed)) /\ u2 = Cardinality(AtIn(h2, Untimed))
    OBVIOUS
  <2>6. active = a /\ total = hist.count + u
    BY <2>2, <2>5 DEF MetricsInv
  <2>7. /\ IsFiniteSet(AtIn(h2, Inside))
        /\ a \in Nat /\ a2 \in Nat
        /\ (from \in Inside <=> to \in Inside) => a2 = a
        /\ from \notin Inside /\ to \in Inside => a2 = a + 1
        /\ from \in Inside /\ to \notin Inside => a2 = a - 1 /\ a - 1 \in Nat
    <3>1. PICK S : S = Inside /\ IsFiniteSet(AtIn(h, S))
      BY <2>2 DEF MetricsInv
    <3>2. Counted(h, h2, p, to, S)
      BY <2>4, <3>1, GoneOver
    <3> QED
      BY <2>3, <2>5, <3>1, <3>2 DEF Counted
  <2>8. /\ IsFiniteSet(AtIn(h2, Untimed))
        /\ u \in Nat /\ u2 \in Nat
        /\ (from \in Untimed <=> to \in Untimed) => u2 = u
        /\ from \notin Untimed /\ to \in Untimed => u2 = u + 1
        /\ from \in Untimed /\ to \notin Untimed => u2 = u - 1 /\ u - 1 \in Nat
    <3>1. PICK S : S = Untimed /\ IsFiniteSet(AtIn(h, S))
      BY <2>2 DEF MetricsInv
    <3>2. Counted(h, h2, p, to, S)
      BY <2>4, <3>1, GoneOver
    <3> QED
      BY <2>3, <2>5, <3>1, <3>2 DEF Counted
  <2>9. Nested(hist) /\ hist.count \in Nat /\ active = a /\ total = hist.count + u
    BY <2>2, <2>5 DEF MetricsInv, Nested
  <2>10. ASSUME active' = a2, Nested(hist'), hist'.count \in Nat, total' = hist'.count + u2
         PROVE  MetricsInv'
    <3>1. total' \in Nat
      BY <2>8, <2>10
    <3>2. /\ http' = h2 /\ active' \in Nat
          /\ active' = Cardinality(AtIn(h2, Inside))
          /\ total' = hist'.count + Cardinality(AtIn(h2, Untimed))
      BY <2>2, <2>4, <2>5, <2>7, <2>10
    <3> QED
      BY <2>4, <2>7, <2>8, <2>10, <3>1, <3>2 DEF MetricsInv
  \* From which stage to which each of them goes, and what it counts.
  <2>11. ASSUME NEW x, NEW y, Go(p, x, y)
         PROVE  from = x /\ to = y
    BY <2>1, <2>2, <2>3, <2>4, <2>11 DEF Go, Goes
  <2>12. CASE Enter(p)
    <3>1. from = "out" /\ to = "entered" /\ active' = active + 1 /\ UNCHANGED <<total, hist>>
      BY <2>11, <2>12 DEF Enter
    <3>2. a2 = a + 1 /\ u2 = u
      BY <2>7, <2>8, <3>1 DEF Inside, Untimed
    <3> QED
      BY <2>9, <2>10, <3>1, <3>2
  <2>13. CASE Count(p)
    <3>1. from = "entered" /\ to = "serving" /\ total' = total + 1 /\ UNCHANGED <<active, hist>>
      BY <2>11, <2>13 DEF Count
    <3>2. a2 = a /\ u2 = u + 1
      BY <2>7, <2>8, <3>1 DEF Inside, Untimed
    <3>3. total' = hist'.count + u2
      BY <2>8, <2>9, <3>1, <3>2
    <3> QED
      BY <2>9, <2>10, <3>1, <3>2, <3>3
  <2>14. CASE Return(p) \/ Panic(p)
    <3>1. from = "serving" /\ to \in {"served", "panicked"} /\ UNCHANGED <<active, total, hist>>
      BY <2>11, <2>14 DEF Return, Panic
    <3>2. a2 = a /\ u2 = u
      BY <2>7, <2>8, <3>1 DEF Inside, Untimed
    <3> QED
      BY <2>9, <2>10, <3>1, <3>2
  <2>15. CASE Observe(p)
    <3>1. PICK b \in BucketIds : hist' = Observed(hist, b)
      BY <2>15 DEF Observe
    <3>2. from = "served" /\ to = "observed" /\ UNCHANGED <<active, total>>
      BY <2>11, <2>15 DEF Observe
    <3>3. a2 = a /\ u2 = u - 1
      BY <2>7, <2>8, <3>2 DEF Inside, Untimed
    <3>4. Nested(hist') /\ hist'.count = hist.count + 1
      BY <2>9, <3>1, ObservedNested
    <3>5. total' = hist'.count + u2 /\ hist'.count \in Nat
      BY <2>8, <2>9, <3>2, <3>3, <3>4
    <3> QED
      BY <2>9, <2>10, <3>2, <3>3, <3>4, <3>5
  <2>16. CASE Leave(p)
    <3>1. /\ <<from, to>> \in {<<"observed", "left">>, <<"panicked", "aborted">>}
          /\ active' = active - 1 /\ UNCHANGED <<total, hist>>
      BY <2>11, <2>16 DEF Leave
    <3>2. a2 = a - 1 /\ u2 = u
      BY <2>7, <2>8, <3>1 DEF Inside, Untimed
    <3> QED
      BY <2>9, <2>10, <3>1, <3>2
  <2> QED
    BY <1>2, <2>12, <2>13, <2>14, <2>15, <2>16 DEF MetricsStep
<1> QED
  BY <1>1, <1>2

-----------------------------------------------------------------------------
(* Dashboard: counts and sums over rows.                                     *)

\* The payments of a set that have one of the statuses, and how many they are.
HasIn(W, st, statuses) == {p \in W : st[p] \in statuses}
CountIn(W, st, statuses) == Cardinality(HasIn(W, st, statuses))

\* What the payments of a set that have a row amount to.
VolumeIn(W, st) == MapThenSumSet(LAMBDA p : Amount[p], HasIn(W, st, Status))

\* There are finitely many rows.
Few(st) == IsFiniteSet(HasIn(Writers, st, Status))

\* COUNT(*) and SUM(amount) in terms of the statuses as a function.
LEMMA WithIsCount ==
    ASSUME NEW W
    PROVE  (\A S : With(W, S) = CountIn(W, status, S)) /\ Volume(W) = VolumeIn(W, status)
BY DEF With, CountIn, HasIn, Volume, VolumeIn

\* Of finitely many rows, finitely many are in a window and have one of some statuses.
LEMMA CountType ==
    ASSUME NEW st, Few(st), NEW W \in SUBSET Writers, NEW S \in SUBSET Status
    PROVE  IsFiniteSet(HasIn(W, st, S)) /\ CountIn(W, st, S) \in Nat
<1>1. HasIn(W, st, S) \in SUBSET HasIn(Writers, st, Status)
  BY DEF HasIn
<1>2. IsFiniteSet(HasIn(W, st, S))
  BY <1>1, FS_Subset DEF Few
<1> QED
  BY <1>2, FS_CardinalityType DEF CountIn

\* The payments of a status more are as many as those of that status more.
LEMMA CountOfMore ==
    ASSUME NEW st, Few(st), NEW W \in SUBSET Writers, NEW S \in SUBSET Status, NEW s \in S
    PROVE  CountIn(W, st, S) = CountIn(W, st, {s}) + CountIn(W, st, S \ {s})
<1>1. PICK A, B : A = HasIn(W, st, {s}) /\ B = HasIn(W, st, S \ {s})
  OBVIOUS
<1>2. IsFiniteSet(A) /\ IsFiniteSet(B) /\ Cardinality(A) \in Nat /\ Cardinality(B) \in Nat
  <2>1. {s} \in SUBSET Status /\ S \ {s} \in SUBSET Status
    OBVIOUS
  <2> QED
    BY <1>1, <2>1, CountType DEF CountIn
<1>3. A \cap B = {} /\ HasIn(W, st, S) = A \cup B
  BY <1>1 DEF HasIn
<1>4. Cardinality(A \cup B) = Cardinality(A) + Cardinality(B) - Cardinality(A \cap B)
  BY <1>2, FS_Union
<1>5. Cardinality(A \cap B) = 0
  BY <1>3, FS_EmptySet
<1>6. Cardinality(A \cup B) = Cardinality(A) + Cardinality(B)
  BY <1>2, <1>4, <1>5
<1> QED
  BY <1>1, <1>3, <1>6 DEF CountIn

\* The statuses of a payment that has been captured.
Taken == {"captured", "partially_refunded", "refunded"}

\* A payment that has been captured has one of three statuses.
LEMMA CountTaken ==
    ASSUME NEW st, Few(st), NEW W \in SUBSET Writers
    PROVE  CountIn(W, st, Taken) =
               CountIn(W, st, {"captured"}) + CountIn(W, st, {"partially_refunded"})
                 + CountIn(W, st, {"refunded"})
<1>1. PICK x, y, z : x = "captured" /\ y = "partially_refunded" /\ z = "refunded"
  OBVIOUS
<1>2. /\ {x, y, z} \in SUBSET Status /\ {y, z} \in SUBSET Status
      /\ {x} \in SUBSET Status /\ {y} \in SUBSET Status /\ {z} \in SUBSET Status
      /\ {x, y, z} \ {x} = {y, z} /\ {y, z} \ {y} = {z} /\ Taken = {x, y, z}
  BY <1>1 DEF Status, Taken
<1>3. PICK S, T : S = {x, y, z} /\ T = {y, z}
  OBVIOUS
<1>4. CountIn(W, st, S) = CountIn(W, st, {x}) + CountIn(W, st, S \ {x})
  BY <1>2, <1>3, CountOfMore
<1>5. CountIn(W, st, T) = CountIn(W, st, {y}) + CountIn(W, st, T \ {y})
  BY <1>2, <1>3, CountOfMore
<1>6. PICK a, b, c, d, e :
        /\ a = CountIn(W, st, S) /\ b = CountIn(W, st, T)
        /\ c = CountIn(W, st, {x}) /\ d = CountIn(W, st, {y}) /\ e = CountIn(W, st, {z})
  OBVIOUS
<1>7. c \in Nat /\ d \in Nat /\ e \in Nat
  BY <1>2, <1>6, CountType
<1>8. a = c + b /\ b = d + e
  BY <1>2, <1>3, <1>4, <1>5, <1>6
<1>9. a = c + d + e
  BY <1>7, <1>8
<1> QED
  BY <1>1, <1>2, <1>3, <1>6, <1>9

\* There are finitely many statuses.
LEMMA StatusFinite == IsFiniteSet(Status)
<1> DEFINE f == <<"created", "pending", "authorized", "captured",
                  "partially_refunded", "refunded", "failed", "cancelled">>
<1>1. f \in [1 .. 8 -> Status] /\ \A s \in Status : \E i \in 1 .. 8 : f[i] = s
  BY DEF Status
<1> HIDE DEF f
<1>2. f \in Surjection(1 .. 8, Status)
  BY <1>1 DEF Surjection
<1>3. IsFiniteSet(1 .. 8)
  <2>1. PICK a \in Int, b \in Int : a = 1 /\ b = 8
    OBVIOUS
  <2>2. IsFiniteSet(a .. b)
    BY FS_Interval
  <2> QED
    BY <2>1, <2>2
<1> QED
  BY <1>2, <1>3, FS_Surjection

\* Of the subsets of a finite set in T, one has no other of them below it.
LEMMA SmallestSet ==
    ASSUME NEW S, IsFiniteSet(S), NEW T \in SUBSET (SUBSET S), T # {}
    PROVE  \E s \in T : \A t \in T : t \subseteq s => t = s
<1>1. FiniteSubsetsOf(S) = SUBSET S
  BY FS_FiniteSubsetsOfFinite
<1>2. IsWellFoundedOn(StrictSubsetOrdering(S), SUBSET S)
  BY <1>1, FS_StrictSubsetOrderingWellFounded
<1>3. PICK s \in T : \A t \in T : ~ (<<t, s>> \in StrictSubsetOrdering(S))
  BY <1>2, WFMin
<1>4. \A t \in T : t \subseteq s => t = s
  BY <1>3 DEF StrictSubsetOrdering
<1> QED
  BY <1>4

\* F is the sum of h over each subset of S, whichever element is added last.
SumsOf(F, h, S) ==
    /\ F = [s \in SUBSET S |-> F[s]]
    /\ F[{}] = 0
    /\ \A s \in SUBSET S : \A x \in s : F[s] = h[x] + F[s \ {x}]

\* What the folds behind SUM and SumFunction compute, an element at a time.
Folds(g, h, S) ==
    g = [s \in SUBSET S |->
            IF s = {} THEN 0
            ELSE h[CHOOSE x \in s : TRUE] + g[s \ {CHOOSE x \in s : TRUE}]]

\* A sum is such a fold.
LEMMA SumFolds ==
    ASSUME NEW S, NEW h, NEW F, SumsOf(F, h, S)
    PROVE  Folds(F, h, S)
<1>1. ASSUME NEW s \in SUBSET S
      PROVE  F[s] = IF s = {} THEN 0 ELSE h[CHOOSE x \in s : TRUE] + F[s \ {CHOOSE x \in s : TRUE}]
  <2>1. CASE s = {}
    BY <2>1 DEF SumsOf
  <2>2. CASE s # {}
    <3>1. PICK x \in s : x = CHOOSE y \in s : TRUE
      BY <2>2
    <3>2. F[s] = h[x] + F[s \ {x}]
      BY DEF SumsOf
    <3> QED
      BY <2>2, <3>1, <3>2
  <2> QED
    BY <2>1, <2>2
<1>2. F = [s \in SUBSET S |->
            IF s = {} THEN 0 ELSE h[CHOOSE x \in s : TRUE] + F[s \ {CHOOSE x \in s : TRUE}]]
  <2>1. F = [s \in SUBSET S |-> F[s]]
    BY DEF SumsOf
  <2> QED
    BY <1>1, <2>1
<1> QED
  BY <1>2 DEF Folds

\* And there is no other one.
LEMMA FoldIsSum ==
    ASSUME NEW S, IsFiniteSet(S), NEW h, NEW F, SumsOf(F, h, S), NEW g, Folds(g, h, S)
    PROVE  g[S] = F[S]
<1> DEFINE T == {s \in SUBSET S : g[s] # F[s]}
<1> SUFFICES ASSUME T # {} PROVE FALSE
  OBVIOUS
<1>1. PICK s \in T : \A t \in T : t \subseteq s => t = s
  <2>1. T \in SUBSET (SUBSET S)
    OBVIOUS
  <2> HIDE DEF T
  <2> QED
    BY <2>1, SmallestSet
<1>2. CASE s = {}
  BY <1>2 DEF SumsOf, Folds
<1>3. CASE s # {}
  <2>1. PICK x \in s : x = CHOOSE y \in s : TRUE
    BY <1>3
  <2>2. g[s] = h[x] + g[s \ {x}]
    BY <1>3, <2>1 DEF Folds
  <2>3. g[s \ {x}] = F[s \ {x}]
    BY <1>1, <2>1
  <2>4. F[s] = h[x] + F[s \ {x}]
    BY DEF SumsOf
  <2> QED
    BY <2>2, <2>3, <2>4
<1> QED
  BY <1>2, <1>3

\* The breakdown that the third SELECT yields.
BreakdownOf(W, st) == [s \in Status |-> CountIn(W, st, {s})]

\* The sum of a breakdown is the number of payments.
LEMMA BreakdownSum ==
    ASSUME NEW st, Few(st), NEW W \in SUBSET Writers
    PROVE  SumFunction(BreakdownOf(W, st)) = CountIn(W, st, Status)
<1>1. PICK h : h = BreakdownOf(W, st)
  OBVIOUS
<1>2. DOMAIN h = Status
  BY <1>1 DEF BreakdownOf
<1>3. PICK F : F = [S \in SUBSET Status |-> CountIn(W, st, S)]
  OBVIOUS
<1>4. SumsOf(F, h, Status)
  <2>1. F = [S \in SUBSET Status |-> F[S]]
    BY <1>3
  <2>2. F[{}] = 0
    <3>1. HasIn(W, st, {}) = {}
      BY DEF HasIn
    <3> QED
      BY <1>3, <3>1, FS_EmptySet DEF CountIn
  <2>3. ASSUME NEW S \in SUBSET Status, NEW x \in S
        PROVE  F[S] = h[x] + F[S \ {x}]
    <3>1. CountIn(W, st, S) = CountIn(W, st, {x}) + CountIn(W, st, S \ {x})
      BY CountOfMore
    <3> QED
      BY <1>1, <1>3, <3>1 DEF BreakdownOf
  <2> QED
    BY <2>1, <2>2, <2>3 DEF SumsOf
<1>5. Folds(F, h, Status)
  BY <1>4, SumFolds
<1>6. \E g : Folds(g, h, Status) /\ SumFunctionOnSet(h, Status) = g[Status]
  BY <1>5 DEF Folds, SumFunctionOnSet, FoldFunctionOnSet, MapThenFoldSet
<1>7. SumFunction(h) = SumFunctionOnSet(h, Status)
  BY <1>2 DEF SumFunction
<1>8. F[Status] = CountIn(W, st, Status)
  BY <1>3
<1> QED
  BY <1>1, <1>4, <1>6, <1>7, <1>8, StatusFinite, FoldIsSum

\* A sum of amounts counts units: as many for each payment as its amount says.
Units(S) == {c \in S \X Nat : 1 <= c[2] /\ c[2] <= Amount[c[1]]}

\* One more payment adds as many units as its amount says.
LEMMA UnitsOfMore ==
    ASSUME NEW S \in SUBSET Writers, NEW x \in S, IsFiniteSet(Units(S \ {x}))
    PROVE  /\ IsFiniteSet(Units(S))
           /\ Cardinality(Units(S)) = Amount[x] + Cardinality(Units(S \ {x}))
<1>1. PICK n \in Nat : n = Amount[x]
  BY AmountAssumption
<1>2. PICK A, B : A = Units(S \ {x}) /\ B = Units({x})
  OBVIOUS
<1>3. IsFiniteSet(B) /\ Cardinality(B) = n
  <2> DEFINE f == [i \in 1 .. n |-> <<x, i>>]
  <2>1. f \in [1 .. n -> B]
    BY <1>1, <1>2 DEF Units
  <2>2. ASSUME NEW i \in 1 .. n, NEW j \in 1 .. n, f[i] = f[j]
        PROVE  i = j
    BY <2>2
  <2>3. ASSUME NEW c \in B
        PROVE  \E i \in 1 .. n : f[i] = c
    <3>1. c[2] \in 1 .. n /\ c = <<x, c[2]>>
      BY <1>1, <1>2 DEF Units
    <3> QED
      BY <3>1
  <2>4. f \in Bijection(1 .. n, B)
    BY <2>1, <2>2, <2>3 DEF Bijection, Injection, Surjection, IsInjective
  <2>5. ExistsBijection(1 .. n, B)
    BY <2>4 DEF ExistsBijection
  <2> QED
    BY <2>5, FS_CountingElements, FS_NatBijection
<1>4. Units(S) = A \cup B /\ A \cap B = {}
  BY <1>2 DEF Units
<1>5. Cardinality(A) \in Nat /\ Cardinality(A \cap B) = 0
  BY <1>2, <1>4, FS_CardinalityType, FS_EmptySet
<1>6. /\ IsFiniteSet(A \cup B)
      /\ Cardinality(A \cup B) = Cardinality(A) + Cardinality(B) - Cardinality(A \cap B)
  BY <1>2, <1>3, FS_Union
<1>7. Cardinality(A \cup B) = n + Cardinality(A)
  BY <1>3, <1>5, <1>6
<1> QED
  BY <1>1, <1>2, <1>4, <1>6, <1>7

\* The units of finitely many payments are finitely many.
LEMMA UnitsFinite ==
    ASSUME NEW S \in SUBSET Writers, IsFiniteSet(S)
    PROVE  IsFiniteSet(Units(S))
<1> DEFINE T == {s \in SUBSET S : ~IsFiniteSet(Units(s))}
<1> SUFFICES ASSUME T # {} PROVE FALSE
  OBVIOUS
<1>1. PICK s \in T : \A t \in T : t \subseteq s => t = s
  <2>1. T \in SUBSET (SUBSET S)
    OBVIOUS
  <2> HIDE DEF T
  <2> QED
    BY <2>1, SmallestSet
<1>2. CASE s = {}
  <2>1. Units(s) = {}
    BY <1>2 DEF Units
  <2> QED
    BY <2>1, FS_EmptySet
<1>3. CASE s # {}
  <2>1. PICK x \in s : TRUE
    BY <1>3
  <2>2. IsFiniteSet(Units(s \ {x}))
    BY <1>1, <2>1
  <2>3. s \in SUBSET Writers
    OBVIOUS
  <2> QED
    BY <2>1, <2>2, <2>3, UnitsOfMore
<1> QED
  BY <1>2, <1>3

\* The sum of the amounts of finitely many payments is the number of their units.
LEMMA AmountsCount ==
    ASSUME NEW S \in SUBSET Writers, IsFiniteSet(S)
    PROVE  MapThenSumSet(LAMBDA p : Amount[p], S) = Cardinality(Units(S))
<1>1. PICK h : h = Amount
  OBVIOUS
<1>2. PICK F : F = [s \in SUBSET S |-> Cardinality(Units(s))]
  OBVIOUS
<1>3. SumsOf(F, h, S)
  <2>1. F = [s \in SUBSET S |-> F[s]]
    BY <1>2
  <2>2. F[{}] = 0
    <3>1. Units({}) = {}
      BY DEF Units
    <3> QED
      BY <1>2, <3>1, FS_EmptySet
  <2>3. ASSUME NEW s \in SUBSET S, NEW x \in s
        PROVE  F[s] = h[x] + F[s \ {x}]
    <3>1. IsFiniteSet(s \ {x}) /\ s \ {x} \in SUBSET Writers /\ s \in SUBSET Writers
      BY FS_Subset
    <3>2. IsFiniteSet(Units(s \ {x}))
      BY <3>1, UnitsFinite
    <3>3. Cardinality(Units(s)) = Amount[x] + Cardinality(Units(s \ {x}))
      BY <3>1, <3>2, UnitsOfMore
    <3> QED
      BY <1>1, <1>2, <3>3
  <2> QED
    BY <2>1, <2>2, <2>3 DEF SumsOf
<1>4. Folds(F, h, S)
  BY <1>3, SumFolds
<1>5. \E g : Folds(g, h, S) /\ MapThenSumSet(LAMBDA p : h[p], S) = g[S]
  BY <1>4 DEF Folds, MapThenSumSet, MapThenFoldSet
<1>6. MapThenSumSet(LAMBDA p : h[p], S) = F[S]
  BY <1>3, <1>5, FoldIsSum
<1> QED
  BY <1>1, <1>2, <1>6

\* What a step may do to the rows: none goes away, a failed one stays failed
\* and a captured one captured, if not refunded.
Later(st, st2) ==
    /\ \A p \in Writers : st[p] \in Status => st2[p] \in Status
    /\ \A p \in Writers : st[p] = "failed" => st2[p] = "failed"
    /\ \A p \in Writers : st[p] \in Taken => st2[p] \in Taken

\* Counts and sums over later rows are not smaller.
LEMMA CountsGrow ==
    ASSUME NEW st, NEW st2, Few(st), Few(st2), Later(st, st2), NEW W \in SUBSET Writers
    PROVE  /\ CountIn(W, st, Status) <= CountIn(W, st2, Status)
           /\ CountIn(W, st, {"failed"}) <= CountIn(W, st2, {"failed"})
           /\ CountIn(W, st, Taken) <= CountIn(W, st2, Taken)
           /\ VolumeIn(W, st) <= VolumeIn(W, st2)
<1>1. \A S \in {Status, {"failed"}, Taken} : S \in SUBSET Status
  BY DEF Status, Taken
<1>2. ASSUME NEW S \in {Status, {"failed"}, Taken}
      PROVE  CountIn(W, st, S) <= CountIn(W, st2, S)
  <2>1. PICK A, B : A = HasIn(W, st, S) /\ B = HasIn(W, st2, S)
    OBVIOUS
  <2>2. A \in SUBSET B
    BY <2>1 DEF HasIn, Later
  <2>3. IsFiniteSet(B)
    BY <1>1, <2>1, CountType
  <2> QED
    BY <2>1, <2>2, <2>3, FS_Subset DEF CountIn
<1>3. VolumeIn(W, st) <= VolumeIn(W, st2)
  <2>1. PICK A, B : A = HasIn(W, st, Status) /\ B = HasIn(W, st2, Status)
    OBVIOUS
  <2>2. A \in SUBSET Writers /\ B \in SUBSET Writers /\ A \subseteq B
    BY <2>1 DEF HasIn, Later
  <2>3. IsFiniteSet(A) /\ IsFiniteSet(B)
    BY <1>1, <2>1, CountType
  <2>4. VolumeIn(W, st) = Cardinality(Units(A)) /\ VolumeIn(W, st2) = Cardinality(Units(B))
    BY <2>1, <2>2, <2>3, AmountsCount DEF VolumeIn
  <2>5. Units(A) \in SUBSET Units(B) /\ IsFiniteSet(Units(B))
    BY <2>2, <2>3, UnitsFinite DEF Units
  <2> QED
    BY <2>4, <2>5, FS_Subset
<1> QED
  BY <1>2, <1>3

\* A sum over finitely many rows is a number.
LEMMA VolumeType ==
    ASSUME NEW st, Few(st), NEW W \in SUBSET Writers
    PROVE  VolumeIn(W, st) \in Nat
<1>1. PICK A : A = HasIn(W, st, Status)
  OBVIOUS
<1>2. A \in SUBSET Writers /\ IsFiniteSet(A)
  BY <1>1, CountType DEF HasIn
<1>3. VolumeIn(W, st) = Cardinality(Units(A)) /\ IsFiniteSet(Units(A))
  BY <1>1, <1>2, AmountsCount, UnitsFinite DEF VolumeIn
<1> QED
  BY <1>3, FS_CardinalityType

-----------------------------------------------------------------------------
(* Dashboard: the rows.                                                      *)

\* Every payment has its created_at once, and every row had it before.
StampInv ==
    /\ stamped \in Seq(Writers)
    /\ status \in [Writers -> Status \cup {NoStatus}]
    /\ Rows \subseteq ToSet(stamped)
    /\ \A i, j \in DOMAIN stamped : stamped[i] = stamped[j] => i = j

\* A step takes the rows onwards, and what was stamped keeps its place.
Onwards ==
    /\ Later(status, status')
    /\ Len(stamped) <= Len(stamped')
    /\ \A i \in DOMAIN stamped : stamped'[i] = stamped[i]

\* It holds of an empty table.
LEMMA StampInvInit == DashInit => StampInv
BY DEF DashInit, StampInv, Rows, ToSet

\* A transition of the table leads to a status, none leaves "failed", and what
\* has been captured is captured or refunded afterwards.
LEMMA TransitionStatus ==
    ASSUME NEW s \in Status, NEW t \in validTransitions[s]
    PROVE  t \in Status /\ s # "failed" /\ (s \in Taken => t \in Taken)
BY DEF validTransitions, Status, Taken

\* A payment without a row has none of the statuses.
LEMMA NoStatusIsNone ==
    /\ NoStatus \notin Status /\ "created" \in Status /\ "failed" \in Status
    /\ NoStatus \notin Taken /\ "created" \notin Taken
BY DEF NoStatus, Status, Taken

\* A payment that gets a status of its own.
LEMMA SetStatus ==
    ASSUME StampInv, NEW p \in Writers, NEW s \in Status, status' = [status EXCEPT ![p] = s],
           status[p] # "failed", status[p] \in Taken => s \in Taken,
           p \in ToSet(stamped), UNCHANGED stamped
    PROVE  StampInv' /\ Onwards
<1>1. status' \in [Writers -> Status \cup {NoStatus}]
  BY DEF StampInv
<1>2. Rows' \subseteq ToSet(stamped)
  BY DEF StampInv, Rows
<1>3. stamped \in Seq(Writers) /\ Len(stamped) \in Nat
  BY DEF StampInv
<1>4. Later(status, status')
  BY DEF StampInv, Later
<1> QED
  BY <1>1, <1>2, <1>3, <1>4 DEF StampInv, Onwards, ToSet

\* Readers leave the rows as they are.
LEMMA Unmoved ==
    ASSUME StampInv, UNCHANGED <<stamped, status>>
    PROVE  StampInv' /\ Onwards
<1>1. stamped \in Seq(Writers) /\ Len(stamped) \in Nat
  BY DEF StampInv
<1> QED
  BY <1>1 DEF StampInv, Onwards, Later, Rows, ToSet

\* Each write preserves the invariant of the rows and takes them onwards.
LEMMA StampInvStep ==
    ASSUME StampInv, DashStep \/ UNCHANGED dashVars
    PROVE  StampInv' /\ Onwards
<1>1. CASE UNCHANGED dashVars
  BY <1>1, Unmoved DEF dashVars
<1>2. ASSUME NEW p \in Writers, Stamp(p)
      PROVE  StampInv' /\ Onwards
  <2>1. PICK q : q = stamped
    OBVIOUS
  <2>2. q \in Seq(Writers) /\ stamped' = Append(q, p) /\ \A i \in DOMAIN q : q[i] # p
    BY <1>2, <2>1 DEF Stamp, StampInv, ToSet
  <2>3. PICK n \in Nat : n = Len(q)
    BY <2>2
  <2>4. /\ stamped' \in Seq(Writers) /\ Len(stamped') = n + 1 /\ stamped'[n + 1] = p
        /\ DOMAIN q = 1 .. n /\ DOMAIN stamped' = 1 .. n + 1
        /\ \A i \in 1 .. n : stamped'[i] = q[i]
    BY <2>2, <2>3
  <2>5. UNCHANGED status /\ UNCHANGED Rows
    BY <1>2 DEF Stamp, Rows
  <2>6. ToSet(stamped) \subseteq ToSet(stamped')
    BY <2>1, <2>4 DEF ToSet
  <2>7. ASSUME NEW i \in 1 .. n + 1, NEW j \in 1 .. n + 1, stamped'[i] = stamped'[j]
        PROVE  i = j
    <3>1. (i \in 1 .. n \/ i = n + 1) /\ (j \in 1 .. n \/ j = n + 1)
      OBVIOUS
    <3>2. \A k, l \in 1 .. n : q[k] = q[l] => k = l
      BY <2>1, <2>4 DEF StampInv
    <3> QED
      BY <2>2, <2>4, <2>7, <3>1, <3>2
  <2>8. StampInv'
    BY <2>4, <2>5, <2>6, <2>7 DEF StampInv
  <2> QED
    BY <2>1, <2>3, <2>4, <2>5, <2>8 DEF Onwards, Later
<1>3. ASSUME NEW p \in Writers, Insert(p)
      PROVE  StampInv' /\ Onwards
  <2>1. /\ p \in ToSet(stamped) /\ status[p] # "failed" /\ status[p] \notin Taken
        /\ status' = [status EXCEPT ![p] = "created"]
        /\ UNCHANGED stamped
    BY <1>3, NoStatusIsNone DEF Insert, Rows
  <2> QED
    BY <2>1, NoStatusIsNone, SetStatus
<1>4. ASSUME NEW p \in Writers, Concluded(p) \/ MovePayment(p)
      PROVE  StampInv' /\ Onwards
  <2>1. p \in ToSet(stamped) /\ UNCHANGED stamped
    BY <1>4, NoStatusIsNone DEF Concluded, MovePayment, Rows, StampInv
  <2>2. \E s \in Status : /\ status[p] # "failed" /\ (status[p] \in Taken => s \in Taken)
                          /\ status' = [status EXCEPT ![p] = s]
    <3>1. CASE Concluded(p)
      BY <3>1, NoStatusIsNone DEF Concluded, Status
    <3>2. CASE MovePayment(p)
      <4>1. status[p] \in Status
        BY <3>2 DEF MovePayment, Rows, StampInv
      <4>2. PICK s \in validTransitions[status[p]] : status' = [status EXCEPT ![p] = s]
        BY <3>2 DEF MovePayment
      <4> QED
        BY <4>1, <4>2, TransitionStatus
    <3> QED
      BY <1>4, <3>1, <3>2
  <2> QED
    BY <2>1, <2>2, SetStatus
<1>5. ASSUME NEW r \in Readers, GetStats(r) \/ GetRecentPayments(r)
      PROVE  StampInv' /\ Onwards
  BY <1>5, Unmoved DEF GetStats, GetRecentPayments
<1> QED
  BY <1>1, <1>2, <1>3, <1>4, <1>5 DEF DashStep

\* The payments that have a row are finitely many: each has been stamped.
LEMMA FewRows ==
    ASSUME NEW q \in Seq(Writers), NEW st, HasIn(Writers, st, Status) \subseteq ToSet(q)
    PROVE  Few(st)
<1>1. PICK n \in Nat : n = Len(q) /\ DOMAIN q = 1 .. n
  OBVIOUS
<1>2. q \in Surjection(1 .. n, ToSet(q))
  BY <1>1 DEF Surjection, ToSet
<1>3. IsFiniteSet(1 .. n)
  BY FS_Interval
<1>4. IsFiniteSet(ToSet(q))
  BY <1>2, <1>3, FS_Surjection
<1> QED
  BY <1>4, FS_Subset DEF Few

\* The rows are the payments that have a status.
LEMMA RowsCount ==
    ASSUME StampInv
    PROVE  /\ Rows = HasIn(Writers, status, Status)
           /\ Few(status) /\ IsFiniteSet(Rows) /\ Cardinality(Rows) \in Nat
<1>1. Rows = HasIn(Writers, status, Status)
  BY NoStatusIsNone DEF Rows, HasIn, StampInv
<1>2. Few(status)
  BY <1>1, FewRows DEF StampInv
<1> QED
  BY <1>1, <1>2, FS_CardinalityType DEF Few

\* A step loses no row, and there are finitely many afterwards.
LEMMA RowsGrow ==
    ASSUME StampInv, StampInv', Onwards
    PROVE  Rows \subseteq Rows' /\ Few(status) /\ Few(status')
<1>1. Rows = HasIn(Writers, status, Status) /\ Few(status)
  BY RowsCount
<1>2. Rows' = HasIn(Writers, status', Status)
  BY NoStatusIsNone DEF Rows, HasIn, StampInv
<1>3. Few(status')
  <2>1. PICK q, st : q = stamped' /\ st = status'
    OBVIOUS
  <2>2. q \in Seq(Writers) /\ HasIn(Writers, st, Status) \subseteq ToSet(q)
    BY <1>2, <2>1 DEF StampInv
  <2> QED
    BY <2>1, <2>2, FewRows
<1> QED
  BY <1>1, <1>2, <1>3 DEF Onwards, Later, HasIn

-----------------------------------------------------------------------------
(* Dashboard: the answer of GetStats.                                        *)

StatsType == [done : 0 .. Selects, period : SUBSET Writers, total : Nat, revenue : Nat,
              success : Nat, failure : Nat, breakdown : [Status -> Nat],
              volume : Nat, psps : Nat, today : Nat]

\* What the figures of an answer are held against: the rows of its range, those
\* of them that have failed or have been captured, and their amounts.
Figures(W, st) == [rows |-> CountIn(W, st, Status), failed |-> CountIn(W, st, {"failed"}),
                   taken |-> CountIn(W, st, Taken), amounts |-> VolumeIn(W, st)]
FiguresType == [rows : Nat, failed : Nat, taken : Nat, amounts : Nat]
AtMost(m, m2) ==
    m.rows <= m2.rows /\ m.failed <= m2.failed /\ m.taken <= m2.taken /\ m.amounts <= m2.amounts

\* They are numbers, and grow with the rows.
LEMMA FiguresGrow ==
    ASSUME NEW st, NEW st2, Few(st), Few(st2), Later(st, st2), NEW W \in SUBSET Writers
    PROVE  /\ Figures(W, st) \in FiguresType /\ Figures(W, st2) \in FiguresType
           /\ AtMost(Figures(W, st), Figures(W, st2))
<1>1. {"failed"} \in SUBSET Status /\ Taken \in SUBSET Status /\ Status \in SUBSET Status
  BY DEF Status, Taken
<1>2. /\ CountIn(W, st, Status) \in Nat /\ CountIn(W, st, {"failed"}) \in Nat
      /\ CountIn(W, st, Taken) \in Nat /\ VolumeIn(W, st) \in Nat
  BY <1>1, CountType, VolumeType
<1>3. /\ CountIn(W, st2, Status) \in Nat /\ CountIn(W, st2, {"failed"}) \in Nat
      /\ CountIn(W, st2, Taken) \in Nat /\ VolumeIn(W, st2) \in Nat
  BY <1>1, CountType, VolumeType
<1> QED
  BY <1>2, <1>3, CountsGrow DEF Figures, FiguresType, AtMost

\* An answer as far as it is filled in: against the rows of its range, and of the
\* day of its last SELECT.
Fits(a, m, day) ==
    /\ a.done >= 1 => a.total <= m.rows /\ a.revenue <= m.amounts
    /\ a.done >= 2 => a.failure <= m.failed /\ a.success <= m.taken
    /\ a.done >= 3 => /\ SumFunction(a.breakdown) \in Nat
                      /\ a.total <= SumFunction(a.breakdown)
                      /\ SumFunction(a.breakdown) <= m.rows
                      /\ a.failure <= a.breakdown["failed"]
                      /\ a.success <= a.breakdown["captured"] + a.breakdown["partially_refunded"]
                                        + a.breakdown["refunded"]
    /\ a.done >= 4 => a.revenue <= a.volume
    /\ a.done >= 5 => SumFunction(a.breakdown) <= a.psps /\ a.psps <= m.rows
    /\ a.done >= 6 /\ a.period \subseteq day => a.psps <= a.today

\* More rows do not disturb an answer.
LEMMA FitsLater ==
    ASSUME NEW a \in StatsType, NEW m \in FiguresType, NEW day, Fits(a, m, day),
           NEW m2 \in FiguresType, AtMost(m, m2)
    PROVE  Fits(a, m2, day)
<1>1. PICK s : s = SumFunction(a.breakdown)
  OBVIOUS
<1>2. PICK n, f, c, v : n = m.rows /\ f = m.failed /\ c = m.taken /\ v = m.amounts
  OBVIOUS
<1>3. PICK n2, f2, c2, v2 : n2 = m2.rows /\ f2 = m2.failed /\ c2 = m2.taken /\ v2 = m2.amounts
  OBVIOUS
<1>4. /\ n \in Nat /\ f \in Nat /\ c \in Nat /\ v \in Nat
      /\ n2 \in Nat /\ f2 \in Nat /\ c2 \in Nat /\ v2 \in Nat
  BY <1>2, <1>3 DEF FiguresType
<1>5. n <= n2 /\ f <= f2 /\ c <= c2 /\ v <= v2
  BY <1>2, <1>3 DEF AtMost
<1>6. /\ a.total \in Nat /\ a.revenue \in Nat /\ a.failure \in Nat /\ a.success \in Nat /\ a.psps \in Nat
  BY DEF StatsType
<1>7. /\ a.done >= 1 => a.total <= n2 /\ a.revenue <= v2
      /\ a.done >= 2 => a.failure <= f2 /\ a.success <= c2
  BY <1>2, <1>4, <1>5, <1>6 DEF Fits
<1>8. /\ a.done >= 3 => s \in Nat /\ s <= n2
      /\ a.done >= 5 => a.psps <= n2
  BY <1>1, <1>2, <1>4, <1>5, <1>6 DEF Fits
<1> QED
  BY <1>1, <1>3, <1>7, <1>8 DEF Fits

\* One SELECT fills in its part, from the rows as they are.
Filled(a, b, st, day) ==
    \/ /\ a.done = 0
       /\ \E W \in Ranges : b = [a EXCEPT !.done = 1, !.period = W, !.total = CountIn(W, st, Status),
                                          !.revenue = VolumeIn(W, st)]
    \/ a.done = 1 /\ b = [a EXCEPT !.done = 2, !.success = CountIn(a.period, st, {"captured"}),
                                   !.failure = CountIn(a.period, st, {"failed"})]
    \/ a.done = 2 /\ b = [a EXCEPT !.done = 3, !.breakdown = BreakdownOf(a.period, st)]
    \/ a.done = 3 /\ b = [a EXCEPT !.done = 4, !.volume = VolumeIn(a.period, st)]
    \/ a.done = 4 /\ b = [a EXCEPT !.done = 5, !.psps = CountIn(a.period, st, Status)]
    \/ a.done = 5 /\ b = [a EXCEPT !.done = 6, !.today = CountIn(day, st, Status)]

\* What one moment's figures have to do with each other.
LEMMA FiguresFit ==
    ASSUME NEW st, Few(st), NEW W \in SUBSET Writers
    PROVE  /\ Figures(W, st) \in FiguresType
           /\ CountIn(W, st, {"captured"}) \in Nat
           /\ CountIn(W, st, {"captured"}) <= CountIn(W, st, Taken)
           /\ BreakdownOf(W, st) \in [Status -> Nat]
           /\ SumFunction(BreakdownOf(W, st)) = CountIn(W, st, Status)
           /\ BreakdownOf(W, st)["failed"] = CountIn(W, st, {"failed"})
           /\ BreakdownOf(W, st)["captured"] + BreakdownOf(W, st)["partially_refunded"]
                + BreakdownOf(W, st)["refunded"] = CountIn(W, st, Taken)
<1>1. Figures(W, st) \in FiguresType
  BY FiguresGrow DEF Later
<1>2. BreakdownOf(W, st) \in [Status -> Nat]
  <2>1. \A x \in Status : {x} \in SUBSET Status
    OBVIOUS
  <2>2. \A x \in Status : CountIn(W, st, {x}) \in Nat
    BY <2>1, CountType
  <2> QED
    BY <2>2 DEF BreakdownOf
<1>3. PICK c, d, e, t : /\ c = CountIn(W, st, {"captured"}) /\ d = CountIn(W, st, {"partially_refunded"})
                        /\ e = CountIn(W, st, {"refunded"}) /\ t = CountIn(W, st, Taken)
  OBVIOUS
<1>4. /\ "captured" \in Status /\ "partially_refunded" \in Status /\ "refunded" \in Status
      /\ "failed" \in Status
  BY DEF Status
<1>5. /\ BreakdownOf(W, st)["captured"] = c /\ BreakdownOf(W, st)["partially_refunded"] = d
      /\ BreakdownOf(W, st)["refunded"] = e
      /\ BreakdownOf(W, st)["failed"] = CountIn(W, st, {"failed"})
  BY <1>3, <1>4 DEF BreakdownOf
<1>6. c \in Nat /\ d \in Nat /\ e \in Nat
  BY <1>2, <1>4, <1>5
<1>7. t = c + d + e
  BY <1>3, CountTaken
<1>8. c <= t
  BY <1>6, <1>7
<1> QED
  BY <1>1, <1>2, <1>3, <1>5, <1>6, <1>7, <1>8, BreakdownSum

\* A day that has every payment of a range has as many rows.
LEMMA DayCount ==
    ASSUME NEW st, Few(st), NEW day \in SUBSET Writers, NEW W \in SUBSET day
    PROVE  /\ CountIn(day, st, Status) \in Nat
           /\ CountIn(W, st, Status) <= CountIn(day, st, Status)
<1>1. IsFiniteSet(HasIn(day, st, Status)) /\ CountIn(day, st, Status) \in Nat
  <2>1. Status \in SUBSET Status
    OBVIOUS
  <2> QED
    BY <2>1, CountType
<1>2. HasIn(W, st, Status) \in SUBSET HasIn(day, st, Status)
  BY DEF HasIn
<1> QED
  BY <1>1, <1>2, FS_Subset DEF CountIn

\* A SELECT fits to those that ran before it: it sees at least the rows that they saw.
LEMMA FilledFits ==
    ASSUME NEW a \in StatsType, NEW b, NEW st, Few(st), NEW day \in SUBSET Writers,
           Filled(a, b, st, day), Fits(a, Figures(a.period, st), day)
    PROVE  b \in StatsType /\ Fits(b, Figures(b.period, st), day)
<1>1. PICK W : W = a.period /\ W \in SUBSET Writers
  BY DEF StatsType
<1>2. PICK n, f, c, v, k, d, s : /\ n = CountIn(W, st, Status) /\ f = CountIn(W, st, {"failed"})
                                 /\ c = CountIn(W, st, Taken) /\ v = VolumeIn(W, st)
                                 /\ k = CountIn(W, st, {"captured"}) /\ d = BreakdownOf(W, st)
                                 /\ s = SumFunction(a.breakdown)
  OBVIOUS
<1>3. PICK m : m = Figures(W, st)
  OBVIOUS
<1>4. /\ m.rows = n /\ m.failed = f /\ m.taken = c /\ m.amounts = v
      /\ n \in Nat /\ f \in Nat /\ c \in Nat /\ v \in Nat /\ k \in Nat /\ k <= c
  BY <1>1, <1>2, <1>3, FiguresFit DEF Figures, FiguresType
<1>5. /\ d \in [Status -> Nat] /\ SumFunction(d) = n /\ d["failed"] = f
      /\ d["captured"] + d["partially_refunded"] + d["refunded"] = c
  BY <1>1, <1>2, FiguresFit
<1>6. Fits(a, m, day)
  BY <1>1, <1>3
<1>7. /\ a.done \in 0 .. 6 /\ a.total \in Nat /\ a.failure \in Nat /\ a.success \in Nat
      /\ a.revenue \in Nat /\ a.volume \in Nat /\ a.psps \in Nat
  BY DEF StatsType, Selects
<1> DEFINE D == 0 .. Selects
<1>8. 1 \in D /\ 2 \in D /\ 3 \in D /\ 4 \in D /\ 5 \in D /\ 6 \in D
  BY DEF Selects
<1>9. ASSUME a.done = 0, NEW R \in Ranges,
             b = [a EXCEPT !.done = 1, !.period = R, !.total = CountIn(R, st, Status),
                           !.revenue = VolumeIn(R, st)]
      PROVE  b \in StatsType /\ Fits(b, Figures(b.period, st), day)
  <2>1. R \in SUBSET Writers
    BY RangesAssumption
  <2>2. PICK i, j : i = CountIn(R, st, Status) /\ j = VolumeIn(R, st)
    OBVIOUS
  <2>3. PICK o : o = Figures(R, st)
    OBVIOUS
  <2>4. o.rows = i /\ o.amounts = j /\ i \in Nat /\ j \in Nat
    BY <2>1, <2>2, <2>3, FiguresFit DEF Figures, FiguresType
  <2>5. b = [a EXCEPT !.done = 1, !.period = R, !.total = i, !.revenue = j]
    BY <1>9, <2>2
  <2>6. b \in StatsType /\ b.done = 1 /\ b.period = R /\ b.total = i /\ b.revenue = j
    BY <1>8, <2>1, <2>4, <2>5 DEF StatsType
  <2>7. Fits(b, o, day)
    BY <2>4, <2>6 DEF Fits
  <2> QED
    BY <2>3, <2>6, <2>7
<1>10. CASE a.done = 1 /\ b = [a EXCEPT !.done = 2, !.success = k, !.failure = f]
  <2>1. /\ b \in StatsType /\ b.done = 2 /\ b.period = W /\ b.total = a.total /\ b.revenue = a.revenue
        /\ b.success = k /\ b.failure = f
    BY <1>1, <1>4, <1>8, <1>10 DEF StatsType
  <2>2. a.total <= n /\ a.revenue <= v
    BY <1>4, <1>6, <1>10 DEF Fits
  <2>3. Fits(b, m, day)
    BY <1>4, <2>1, <2>2 DEF Fits
  <2> QED
    BY <1>3, <2>1, <2>3
<1>11. CASE a.done = 2 /\ b = [a EXCEPT !.done = 3, !.breakdown = d]
  <2>1. /\ b \in StatsType /\ b.done = 3 /\ b.period = W /\ b.total = a.total /\ b.revenue = a.revenue
        /\ b.success = a.success /\ b.failure = a.failure /\ b.breakdown = d
    BY <1>1, <1>5, <1>8, <1>11 DEF StatsType
  <2>2. a.total <= n /\ a.revenue <= v /\ a.failure <= f /\ a.success <= c
    BY <1>4, <1>6, <1>11 DEF Fits
  <2>3. Fits(b, m, day)
    BY <1>4, <1>5, <2>1, <2>2 DEF Fits
  <2> QED
    BY <1>3, <2>1, <2>3
<1>12. CASE a.done = 3 /\ b = [a EXCEPT !.done = 4, !.volume = v]
  <2>1. /\ b \in StatsType /\ b.done = 4 /\ b.period = W /\ b.total = a.total /\ b.revenue = a.revenue
        /\ b.success = a.success /\ b.failure = a.failure /\ b.breakdown = a.breakdown /\ b.volume = v
    BY <1>1, <1>4, <1>8, <1>12 DEF StatsType
  <2>2. Fits(b, m, day)
    BY <1>4, <1>6, <1>7, <1>12, <2>1 DEF Fits
  <2> QED
    BY <1>3, <2>1, <2>2
<1>13. CASE a.done = 4 /\ b = [a EXCEPT !.done = 5, !.psps = n]
  <2>1. /\ b \in StatsType /\ b.done = 5 /\ b.period = W /\ b.total = a.total /\ b.revenue = a.revenue
        /\ b.success = a.success /\ b.failure = a.failure /\ b.breakdown = a.breakdown
        /\ b.volume = a.volume /\ b.psps = n
    BY <1>1, <1>4, <1>8, <1>13 DEF StatsType
  <2>2. Fits(b, m, day)
    BY <1>4, <1>6, <1>7, <1>13, <2>1 DEF Fits
  <2> QED
    BY <1>3, <2>1, <2>2
<1>14. ASSUME NEW t, t = CountIn(day, st, Status), a.done = 5,
              b = [a EXCEPT !.done = 6, !.today = t]
       PROVE  b \in StatsType /\ Fits(b, Figures(b.period, st), day)
  <2>1. t \in Nat /\ (W \subseteq day => n <= t)
    <3>1. CASE W \subseteq day
      BY <1>2, <1>14, <3>1, DayCount
    <3>2. CountIn(day, st, Status) \in Nat
      BY DayCount
    <3> QED
      BY <1>14, <3>1, <3>2
  <2>2. /\ b \in StatsType /\ b.done = 6 /\ b.period = W /\ b.total = a.total /\ b.revenue = a.revenue
        /\ b.success = a.success /\ b.failure = a.failure /\ b.breakdown = a.breakdown
        /\ b.volume = a.volume /\ b.psps = a.psps /\ b.today = t
    BY <1>1, <1>8, <1>14, <2>1 DEF StatsType
  <2>3. a.psps <= n
    BY <1>4, <1>6, <1>14 DEF Fits
  <2>4. W \subseteq day => a.psps <= t
    BY <1>4, <1>7, <2>1, <2>3
  <2>5. Fits(b, m, day)
    BY <1>4, <1>6, <1>7, <1>14, <2>2, <2>4 DEF Fits
  <2> QED
    BY <1>3, <2>2, <2>5
<1>15. \/ /\ a.done = 0
          /\ \E R \in Ranges : b = [a EXCEPT !.done = 1, !.period = R, !.total = CountIn(R, st, Status),
                                             !.revenue = VolumeIn(R, st)]
       \/ a.done = 1 /\ b = [a EXCEPT !.done = 2, !.success = k, !.failure = f]
       \/ a.done = 2 /\ b = [a EXCEPT !.done = 3, !.breakdown = d]
       \/ a.done = 3 /\ b = [a EXCEPT !.done = 4, !.volume = v]
       \/ a.done = 4 /\ b = [a EXCEPT !.done = 5, !.psps = n]
       \/ a.done = 5 /\ b = [a EXCEPT !.done = 6, !.today = CountIn(day, st, Status)]
  BY <1>1, <1>2 DEF Filled
<1> QED
  BY <1>9, <1>10, <1>11, <1>12, <1>13, <1>14, <1>15

\* What GetStats does to the answer of its reader.
LEMMA GetStatsFills ==
    ASSUME stats \in [Readers -> StatsType], NEW r \in Readers, GetStats(r)
    PROVE  \E b : Filled(stats[r], b, status, Today[r]) /\ stats' = [stats EXCEPT ![r] = b]
<1>1. PICK a : a = stats[r] /\ a \in StatsType
  OBVIOUS
<1>2. PICK W : W = a.period
  OBVIOUS
<1>3. PICK n, f, c, v, d, t : /\ n = CountIn(W, status, Status) /\ f = CountIn(W, status, {"failed"})
                              /\ c = CountIn(W, status, {"captured"}) /\ v = VolumeIn(W, status)
                              /\ d = BreakdownOf(W, status) /\ t = CountIn(Today[r], status, Status)
  OBVIOUS
<1>4. /\ With(W, Status) = n /\ With(W, {"failed"}) = f /\ With(W, {"captured"}) = c
      /\ Volume(W) = v /\ With(Today[r], Status) = t /\ [s \in Status |-> With(W, {s})] = d
  BY <1>3, WithIsCount DEF BreakdownOf
<1>5. ASSUME NEW R \in Ranges,
             Query(r, 1, [a EXCEPT !.period = R, !.total = With(R, Status), !.revenue = Volume(R)])
      PROVE  \E b : Filled(stats[r], b, status, Today[r]) /\ stats' = [stats EXCEPT ![r] = b]
  <2>1. PICK i, j : i = CountIn(R, status, Status) /\ j = VolumeIn(R, status)
    OBVIOUS
  <2>2. With(R, Status) = i /\ Volume(R) = j
    BY <2>1, WithIsCount
  <2>3. PICK b : b = [[a EXCEPT !.period = R, !.total = i, !.revenue = j] EXCEPT !.done = 1]
    OBVIOUS
  <2>4. b = [a EXCEPT !.done = 1, !.period = R, !.total = i, !.revenue = j]
    BY <1>1, <2>3 DEF StatsType
  <2>5. Query(r, 1, [a EXCEPT !.period = R, !.total = i, !.revenue = j])
    BY <1>5, <2>2
  <2>6. stats[r].done = 1 - 1 /\ stats' = [stats EXCEPT ![r] = b]
    BY <2>3, <2>5, Zenon DEF Query
  <2>7. a.done = 0
    BY <1>1, <2>6
  <2>8. b = [a EXCEPT !.done = 1, !.period = R, !.total = CountIn(R, status, Status),
                      !.revenue = VolumeIn(R, status)]
    BY <2>1, <2>4
  <2>9. Filled(a, b, status, Today[r])
    BY <2>7, <2>8, Zenon DEF Filled
  <2> QED
    BY <1>1, <2>6, <2>9, Zenon
<1>6. CASE Query(r, 2, [a EXCEPT !.success = With(W, {"captured"}), !.failure = With(W, {"failed"})])
  <2>1. PICK b : b = [[a EXCEPT !.success = c, !.failure = f] EXCEPT !.done = 2]
    OBVIOUS
  <2>2. b = [a EXCEPT !.done = 2, !.success = c, !.failure = f]
    BY <1>1, <2>1 DEF StatsType
  <2>3. Query(r, 2, [a EXCEPT !.success = c, !.failure = f])
    BY <1>4, <1>6
  <2>4. stats[r].done = 2 - 1 /\ stats' = [stats EXCEPT ![r] = b]
    BY <2>1, <2>3, Zenon DEF Query
  <2>5. Filled(a, b, status, Today[r])
    BY <1>1, <1>2, <1>3, <2>2, <2>4 DEF Filled
  <2> QED
    BY <1>1, <2>4, <2>5, Zenon
<1>7. CASE Query(r, 3, [a EXCEPT !.breakdown = [s \in Status |-> With(W, {s})]])
  <2>1. PICK b : b = [[a EXCEPT !.breakdown = d] EXCEPT !.done = 3]
    OBVIOUS
  <2>2. b = [a EXCEPT !.done = 3, !.breakdown = d]
    BY <1>1, <2>1 DEF StatsType
  <2>3. Query(r, 3, [a EXCEPT !.breakdown = d])
    BY <1>4, <1>7
  <2>4. stats[r].done = 3 - 1 /\ stats' = [stats EXCEPT ![r] = b]
    BY <2>1, <2>3, Zenon DEF Query
  <2>5. Filled(a, b, status, Today[r])
    BY <1>1, <1>2, <1>3, <2>2, <2>4 DEF Filled
  <2> QED
    BY <1>1, <2>4, <2>5, Zenon
<1>8. CASE Query(r, 4, [a EXCEPT !.volume = Volume(W)])
  <2>1. PICK b : b = [[a EXCEPT !.volume = v] EXCEPT !.done = 4]
    OBVIOUS
  <2>2. b = [a EXCEPT !.done = 4, !.volume = v]
    BY <1>1, <2>1 DEF StatsType
  <2>3. Query(r, 4, [a EXCEPT !.volume = v])
    BY <1>4, <1>8
  <2>4. stats[r].done = 4 - 1 /\ stats' = [stats EXCEPT ![r] = b]
    BY <2>1, <2>3, Zenon DEF Query
  <2>5. Filled(a, b, status, Today[r])
    BY <1>1, <1>2, <1>3, <2>2, <2>4 DEF Filled
  <2> QED
    BY <1>1, <2>4, <2>5, Zenon
<1>9. CASE Query(r, 5, [a EXCEPT !.psps = With(W, Status)])
  <2>1. PICK b : b = [[a EXCEPT !.psps = n] EXCEPT !.done = 5]
    OBVIOUS
  <2>2. b = [a EXCEPT !.done = 5, !.psps = n]
    BY <1>1, <2>1 DEF StatsType
  <2>3. Query(r, 5, [a EXCEPT !.psps = n])
    BY <1>4, <1>9
  <2>4. stats[r].done = 5 - 1 /\ stats' = [stats EXCEPT ![r] = b]
    BY <2>1, <2>3, Zenon DEF Query
  <2>5. Filled(a, b, status, Today[r])
    BY <1>1, <1>2, <1>3, <2>2, <2>4 DEF Filled
  <2> QED
    BY <1>1, <2>4, <2>5, Zenon
<1>10. CASE Query(r, 6, [a EXCEPT !.today = With(Today[r], Status)])
  <2>1. PICK b : b = [[a EXCEPT !.today = t] EXCEPT !.done = 6]
    OBVIOUS
  <2>2. b = [a EXCEPT !.done = 6, !.today = t]
    BY <1>1, <2>1 DEF StatsType
  <2>3. Query(r, 6, [a EXCEPT !.today = t])
    BY <1>4, <1>10
  <2>4. stats[r].done = 6 - 1 /\ stats' = [stats EXCEPT ![r] = b]
    BY <2>1, <2>3, Zenon DEF Query
  <2>5. Filled(a, b, status, Today[r])
    BY <1>1, <1>2, <1>3, <2>2, <2>4 DEF Filled
  <2> QED
    BY <1>1, <2>4, <2>5, Zenon
<1>11. \/ \E R \in Ranges :
                Query(r, 1, [a EXCEPT !.period = R, !.total = With(R, Status), !.revenue = Volume(R)])
       \/ Query(r, 2, [a EXCEPT !.success = With(W, {"captured"}), !.failure = With(W, {"failed"})])
       \/ Query(r, 3, [a EXCEPT !.breakdown = [s \in Status |-> With(W, {s})]])
       \/ Query(r, 4, [a EXCEPT !.volume = Volume(W)])
       \/ Query(r, 5, [a EXCEPT !.psps = With(W, Status)])
       \/ Query(r, 6, [a EXCEPT !.today = With(Today[r], Status)])
  BY <1>1, <1>2, Zenon DEF GetStats
<1> QED
  BY <1>5, <1>6, <1>7, <1>8, <1>9, <1>10, <1>11, Zenon

\* The invariant of the answers: each fits to the rows as they are.
FitsRows(r, st) == Fits(stats[r], Figures(stats[r].period, st), Today[r])
StatsInv ==
    /\ stats \in [Readers -> StatsType]
    /\ \A r \in Readers : FitsRows(r, status)

\* No SELECT has run at first.
LEMMA StatsInvInit == DashInit => StatsInv
<1> SUFFICES ASSUME DashInit PROVE StatsInv
  OBVIOUS
<1>1. NoStats \in StatsType /\ NoStats.done = 0
  BY DEF NoStats, StatsType, Selects
<1>2. stats = [r \in Readers |-> NoStats]
  BY DEF DashInit
<1>3. \A m, day : Fits(NoStats, m, day)
  BY <1>1 DEF Fits
<1> QED
  BY <1>1, <1>2, <1>3 DEF StatsInv, FitsRows

\* The rows move on under the answers, or an answer is filled in.
LEMMA StatsInvStep ==
    ASSUME StampInv, StampInv', StatsInv, DashStep \/ UNCHANGED dashVars
    PROVE  StatsInv'
<1>1. Onwards
  BY StampInvStep
<1>2. PICK st, st2 : st = status /\ st2 = status'
  OBVIOUS
<1>3. Few(st) /\ Few(st2) /\ Later(st, st2)
  BY <1>1, <1>2, RowsGrow DEF Onwards
<1>4. ASSUME NEW r \in Readers
      PROVE  stats[r] \in StatsType /\ stats[r].period \in SUBSET Writers /\ FitsRows(r, st)
  BY <1>2, <1>4 DEF StatsInv, StatsType
<1>5. CASE UNCHANGED stats
  <2>1. ASSUME NEW r \in Readers
        PROVE  Fits(stats[r], Figures(stats[r].period, st2), Today[r])
    <3>1. PICK a, W, m, m2 : /\ a = stats[r] /\ W = a.period
                             /\ m = Figures(W, st) /\ m2 = Figures(W, st2)
      OBVIOUS
    <3>2. a \in StatsType /\ W \in SUBSET Writers /\ Fits(a, m, Today[r])
      BY <1>4, <3>1 DEF FitsRows
    <3>3. m \in FiguresType /\ m2 \in FiguresType /\ AtMost(m, m2)
      BY <1>3, <3>1, <3>2, FiguresGrow
    <3>4. Fits(a, m2, Today[r])
      BY <3>2, <3>3, FitsLater
    <3> QED
      BY <3>1, <3>4
  <2> QED
    BY <1>2, <1>5, <2>1 DEF StatsInv, FitsRows
<1>6. ASSUME NEW r \in Readers, GetStats(r)
      PROVE  StatsInv'
  <2>1. PICK b : Filled(stats[r], b, status, Today[r]) /\ stats' = [stats EXCEPT ![r] = b]
    BY <1>6, GetStatsFills DEF StatsInv
  <2>2. PICK a, day : a = stats[r] /\ day = Today[r]
    OBVIOUS
  <2>3. a \in StatsType /\ day \in SUBSET Writers /\ Filled(a, b, st, day)
    BY <1>2, <1>4, <2>1, <2>2, TodayAssumption
  <2>4. Fits(a, Figures(a.period, st), day)
    BY <1>4, <2>2 DEF FitsRows
  <2>5. b \in StatsType /\ Fits(b, Figures(b.period, st), day)
    BY <1>3, <2>3, <2>4, FilledFits
  <2>6. st2 = st
    BY <1>2, <1>6 DEF GetStats
  <2>7. stats' \in [Readers -> StatsType]
    BY <2>1, <2>5 DEF StatsInv
  <2>8. ASSUME NEW x \in Readers
        PROVE  Fits(stats'[x], Figures(stats'[x].period, st), Today[x])
    <3>1. CASE x = r
      <4>1. stats'[r] = b
        BY <2>1 DEF StatsInv
      <4> QED
        BY <2>2, <2>5, <3>1, <4>1
    <3>2. CASE x # r
      <4>1. stats'[x] = stats[x]
        BY <2>1, <3>2 DEF StatsInv
      <4> QED
        BY <1>4, <4>1 DEF FitsRows
    <3> QED
      BY <3>1, <3>2
  <2> QED
    BY <1>2, <2>6, <2>7, <2>8 DEF StatsInv, FitsRows
<1>7. UNCHANGED stats \/ \E r \in Readers : GetStats(r)
  BY DEF DashStep, dashVars, Stamp, Insert, Concluded, MovePayment, GetRecentPayments
<1> QED
  BY <1>5, <1>6, <1>7

\* What it says of an answer that is complete.
LEMMA StatsInvSays == StatsInv => StatsAgree
<1> SUFFICES ASSUME StatsInv, NEW r \in Readers, stats[r].done = Selects
             PROVE  /\ stats[r].total <= SumFunction(stats[r].breakdown)
                    /\ SumFunction(stats[r].breakdown) <= stats[r].psps
                    /\ stats[r].revenue <= stats[r].volume
                    /\ stats[r].failure <= stats[r].breakdown["failed"]
                    /\ stats[r].success <=
                           stats[r].breakdown["captured"] + stats[r].breakdown["partially_refunded"]
                             + stats[r].breakdown["refunded"]
                    /\ stats[r].period \subseteq Today[r] => stats[r].psps <= stats[r].today
  BY DEF StatsAgree
<1>1. PICK a, m, day : a = stats[r] /\ day = Today[r] /\ Fits(a, m, day)
  BY DEF StatsInv, FitsRows
<1> QED
  BY <1>1 DEF Fits, Selects

-----------------------------------------------------------------------------
(* Dashboard: the pages of GetRecentPayments.                                *)

\* Fewer rows come before a row than there are.
LEMMA AheadCount ==
    ASSUME StampInv, NEW p \in Rows
    PROVE  /\ IsFiniteSet(Ahead(p)) /\ Cardinality(Ahead(p)) \in Nat
           /\ Cardinality(Ahead(p)) < Cardinality(Rows)
<1>1. PICK R, A : R = Rows /\ A = Ahead(p)
  OBVIOUS
<1>2. IsFiniteSet(R) /\ Cardinality(R) \in Nat
  BY <1>1, RowsCount
<1>3. A \in SUBSET R /\ p \in R
  BY <1>1 DEF Ahead
<1>4. p \notin A
  <2>1. \A i \in DOMAIN stamped : i \in Nat
    BY DEF StampInv
  <2> QED
    BY <1>1, <2>1 DEF Ahead, Newer, StampInv
<1>5. IsFiniteSet(A) /\ Cardinality(A) <= Cardinality(R) /\ Cardinality(A) # Cardinality(R)
  BY <1>2, <1>3, <1>4, FS_Subset
<1>6. Cardinality(A) \in Nat
  BY <1>5, FS_CardinalityType
<1> QED
  BY <1>1, <1>2, <1>5, <1>6

\* What comes before a row comes before each one after it, and it does itself.
LEMMA AheadOfAhead ==
    ASSUME StampInv, NEW p \in Rows, NEW x \in Rows, Newer(p, x)
    PROVE  Cardinality(Ahead(p)) < Cardinality(Ahead(x))
<1>1. PICK A, B : A = Ahead(p) /\ B = Ahead(x)
  OBVIOUS
<1>2. \A i \in DOMAIN stamped : i \in Nat
  BY DEF StampInv
<1>3. A \in SUBSET B
  <2>1. SUFFICES ASSUME NEW q \in Rows, Newer(q, p) PROVE Newer(q, x)
    BY <1>1 DEF Ahead
  <2>2. PICK i, j \in DOMAIN stamped : i > j /\ stamped[i] = q /\ stamped[j] = p
    BY <2>1 DEF Newer
  <2>3. PICK k, l \in DOMAIN stamped : k > l /\ stamped[k] = p /\ stamped[l] = x
    BY DEF Newer
  <2>4. j = k
    BY <2>2, <2>3 DEF StampInv
  <2>5. i > l
    BY <1>2, <2>2, <2>3, <2>4
  <2> QED
    BY <2>2, <2>3, <2>5 DEF Newer
<1>4. p \in B
  BY <1>1 DEF Ahead
<1>5. p \notin A
  BY <1>1, <1>2 DEF Ahead, Newer, StampInv
<1>6. IsFiniteSet(A) /\ IsFiniteSet(B) /\ Cardinality(A) \in Nat /\ Cardinality(B) \in Nat
  BY <1>1, AheadCount
<1>7. Cardinality(A) <= Cardinality(B) /\ Cardinality(A) # Cardinality(B)
  BY <1>3, <1>4, <1>5, <1>6, FS_Subset
<1> QED
  BY <1>1, <1>6, <1>7

\* No two rows have as many rows before them.
LEMMA AheadDiffer ==
    ASSUME StampInv, NEW p \in Rows, NEW x \in Rows, p # x
    PROVE  Cardinality(Ahead(p)) # Cardinality(Ahead(x))
<1>1. PICK i, j \in DOMAIN stamped : stamped[i] = p /\ stamped[j] = x
  BY DEF StampInv, ToSet
<1>2. i \in Nat /\ j \in Nat /\ i # j
  BY <1>1 DEF StampInv
<1>3. Newer(p, x) \/ Newer(x, p)
  BY <1>1, <1>2 DEF Newer
<1>4. Cardinality(Ahead(p)) \in Nat /\ Cardinality(Ahead(x)) \in Nat
  BY AheadCount
<1>5. Cardinality(Ahead(p)) < Cardinality(Ahead(x)) \/ Cardinality(Ahead(x)) < Cardinality(Ahead(p))
  BY <1>3, AheadOfAhead
<1> QED
  BY <1>4, <1>5

\* Rows come to be before a row, and none of them goes away.
LEMMA AheadGrows ==
    ASSUME StampInv, StampInv', Onwards, NEW p \in Rows
    PROVE  /\ Cardinality(Ahead(p)) \in Nat /\ Cardinality(Ahead(p)') \in Nat
           /\ Cardinality(Ahead(p)) <= Cardinality(Ahead(p)')
<1>1. PICK A, A2, st : A = Ahead(p) /\ A2 = Ahead(p)' /\ st = status'
  OBVIOUS
<1>2. IsFiniteSet(A) /\ Cardinality(A) \in Nat
  BY <1>1, AheadCount
<1>3. A \in SUBSET A2
  <2>1. SUFFICES ASSUME NEW q \in Rows, Newer(q, p) PROVE q \in Rows' /\ Newer(q, p)'
    BY <1>1 DEF Ahead
  <2>2. q \in Rows'
    BY RowsGrow
  <2>3. PICK i, j \in DOMAIN stamped : i > j /\ stamped[i] = q /\ stamped[j] = p
    BY <2>1 DEF Newer
  <2>4. DOMAIN stamped \subseteq DOMAIN stamped'
    <3>1. PICK m, n \in Nat : /\ m = Len(stamped) /\ DOMAIN stamped = 1 .. m
                              /\ n = Len(stamped') /\ DOMAIN stamped' = 1 .. n
      BY DEF StampInv
    <3>2. m <= n
      BY <3>1 DEF Onwards
    <3> QED
      BY <3>1, <3>2
  <2>5. stamped'[i] = q /\ stamped'[j] = p
    BY <2>3 DEF Onwards
  <2> QED
    BY <2>2, <2>3, <2>4, <2>5 DEF Newer
<1>4. IsFiniteSet(A2) /\ Cardinality(A2) \in Nat
  <2>1. A2 \in SUBSET HasIn(Writers, st, Status)
    BY <1>1, NoStatusIsNone DEF Ahead, Rows, HasIn, StampInv
  <2>2. IsFiniteSet(HasIn(Writers, st, Status))
    BY <1>1, RowsGrow DEF Few
  <2> QED
    BY <2>1, <2>2, FS_Subset, FS_CardinalityType
<1> QED
  BY <1>1, <1>2, <1>3, <1>4, FS_Subset

\* The invariant of the pages: a payment that a client has still to see has at
\* least as many rows before it as it has read.
PagesInv ==
    /\ pages \in [Readers -> Seq(Writers)]
    /\ \A r \in Readers :
        /\ known[r] \subseteq Rows
        /\ \A p \in known[r] \ ToSet(pages[r]) : Cardinality(Ahead(p)) >= Len(pages[r])
    /\ known \in [Readers -> SUBSET Writers]

\* No page has been read at first.
LEMMA PagesInvInit == DashInit => PagesInv
BY DEF DashInit, PagesInv

\* A client reads a page.
LEMMA NextPage ==
    ASSUME StampInv, PagesInv, NEW r \in Readers, GetRecentPayments(r)
    PROVE  PagesInv'
<1>1. PICK q, n : q = pages[r] /\ n = Len(q) /\ q \in Seq(Writers) /\ n \in Nat
  BY DEF PagesInv
<1>2. PICK p \in Rows : Cardinality(Ahead(p)) = n /\ pages' = [pages EXCEPT ![r] = Append(q, p)]
  BY <1>1 DEF GetRecentPayments
<1>3. known' = (IF n = 0 THEN [known EXCEPT ![r] = Rows] ELSE known) /\ UNCHANGED <<stamped, status>>
  BY <1>1 DEF GetRecentPayments
<1>4. UNCHANGED Rows /\ \A x : Ahead(x)' = Ahead(x)
  BY <1>3 DEF Rows, Ahead, Newer
<1>5. PICK q2 : q2 = Append(q, p)
  OBVIOUS
<1>6. q2 \in Seq(Writers) /\ Len(q2) = n + 1 /\ p \in ToSet(q2) /\ ToSet(q) \subseteq ToSet(q2)
  <2>1. p \in Writers
    BY DEF Rows
  <2>2. /\ q2 \in Seq(Writers) /\ Len(q2) = n + 1 /\ q2[n + 1] = p
        /\ DOMAIN q = 1 .. n /\ DOMAIN q2 = 1 .. n + 1 /\ \A i \in 1 .. n : q2[i] = q[i]
    BY <1>1, <1>5, <2>1
  <2> QED
    BY <1>1, <2>2 DEF ToSet
<1>7. pages' \in [Readers -> Seq(Writers)] /\ known' \in [Readers -> SUBSET Writers]
  BY <1>2, <1>3, <1>5, <1>6 DEF PagesInv, Rows
<1>8. ASSUME NEW x \in Readers
      PROVE  /\ known'[x] \subseteq Rows
             /\ \A y \in known'[x] \ ToSet(pages'[x]) : Cardinality(Ahead(y)) >= Len(pages'[x])
  <2>1. CASE x # r
    <3>1. known'[x] = known[x] /\ pages'[x] = pages[x]
      BY <1>2, <1>3, <2>1 DEF PagesInv
    <3> QED
      BY <3>1 DEF PagesInv
  <2>2. CASE x = r
    <3>1. pages'[x] = q2 /\ (n = 0 => known'[x] = Rows) /\ (n # 0 => known'[x] = known[r])
      BY <1>2, <1>3, <1>5, <2>2 DEF PagesInv
    <3>2. known'[x] \subseteq Rows
      BY <3>1 DEF PagesInv
    <3>3. ASSUME NEW y \in known'[x] \ ToSet(q2)
          PROVE  Cardinality(Ahead(y)) >= Len(q2)
      <4>1. y \in Rows /\ y # p
        BY <1>6, <3>2, <3>3
      <4>2. PICK a : a = Cardinality(Ahead(y)) /\ a \in Nat
        BY <4>1, AheadCount
      <4>3. a # n
        BY <1>2, <4>1, <4>2, AheadDiffer
      <4>4. a >= n
        <5>1. CASE n = 0
          BY <4>2, <5>1
        <5>2. CASE n # 0
          <6>1. y \in known[r] \ ToSet(q)
            BY <1>6, <3>1, <3>3, <5>2
          <6> QED
            BY <1>1, <4>2, <6>1 DEF PagesInv
        <5> QED
          BY <5>1, <5>2
      <4> QED
        BY <1>1, <1>6, <4>2, <4>3, <4>4
    <3> QED
      BY <3>1, <3>2, <3>3
  <2> QED
    BY <2>1, <2>2
<1> QED
  BY <1>4, <1>7, <1>8 DEF PagesInv

\* Writers only put rows before a payment that is still to be seen, and a page brings it nearer.
LEMMA PagesInvStep ==
    ASSUME StampInv, StampInv', PagesInv, DashStep \/ UNCHANGED dashVars
    PROVE  PagesInv'
<1>1. CASE UNCHANGED <<pages, known>>
  <2>1. Onwards
    BY StampInvStep
  <2>2. Rows \subseteq Rows'
    BY <2>1, RowsGrow
  <2>3. ASSUME NEW r \in Readers, NEW p \in known[r] \ ToSet(pages[r])
        PROVE  Cardinality(Ahead(p)') >= Len(pages[r])
    <3>1. p \in Rows /\ Cardinality(Ahead(p)) >= Len(pages[r])
      BY DEF PagesInv
    <3>2. PICK n : n = Len(pages[r]) /\ n \in Nat
      BY DEF PagesInv
    <3>3. PICK a, b : a = Cardinality(Ahead(p)) /\ b = Cardinality(Ahead(p)')
      OBVIOUS
    <3>4. a \in Nat /\ b \in Nat /\ a <= b
      BY <2>1, <3>1, <3>3, AheadGrows
    <3> QED
      BY <3>1, <3>2, <3>3, <3>4
  <2> QED
    BY <1>1, <2>2, <2>3 DEF PagesInv
<1>2. ASSUME NEW r \in Readers, GetRecentPayments(r)
      PROVE  PagesInv'
  BY <1>2, NextPage
<1>3. UNCHANGED <<pages, known>> \/ \E r \in Readers : GetRecentPayments(r)
  BY DEF DashStep, dashVars, Stamp, Insert, Concluded, MovePayment, GetStats
<1> QED
  BY <1>1, <1>2, <1>3

\* What it says of a client that has come to the end.
LEMMA PagesInvSays ==
    ASSUME StampInv, PagesInv
    PROVE  PagesComplete
<1> SUFFICES ASSUME NEW r \in Readers, Len(pages[r]) >= Cardinality(Rows),
                    NEW p \in known[r], p \notin ToSet(pages[r])
             PROVE  FALSE
  BY DEF PagesComplete
<1>1. PICK n, a, c : n = Len(pages[r]) /\ a = Cardinality(Ahead(p)) /\ c = Cardinality(Rows)
  OBVIOUS
<1>2. p \in Rows /\ a >= n /\ n \in Nat
  BY <1>1 DEF PagesInv
<1>3. a \in Nat /\ c \in Nat /\ a < c
  BY <1>1, <1>2, AheadCount, RowsCount
<1> QED
  BY <1>1, <1>2, <1>3

-----------------------------------------------------------------------------
(* Server: the end of the process.                                           *)

\* Where a worker is: with a connection, between two, or at neither.
LEMMA WorkerLabels ==
    /\ Unconnected = {"inserted", "processed"}
    /\ Connected = {"inserting", "processing", "updating"}
    /\ \A x \in Unconnected : NextLabel[x] \in Connected
    /\ \A x \in Connected : AfterRelease[x] \in Unconnected \cup {"idle"}
<1>1. Unconnected = {"inserted", "processed"}
  BY DEF Unconnected, NextLabel
<1>2. Connected = {"inserting", "processing", "updating"}
  BY DEF Connected, AfterRelease
<1>3. NextLabel["inserted"] = "processing" /\ NextLabel["processed"] = "updating"
  BY DEF NextLabel
<1>4. /\ AfterRelease["inserting"] = "inserted" /\ AfterRelease["processing"] = "processed"
      /\ AfterRelease["updating"] = "idle"
  BY DEF AfterRelease
<1> QED
  BY <1>1, <1>2, <1>3, <1>4

Labels == Unconnected \cup Connected \cup {"idle"}

\* Types of what main, the workers and the publishers keep.
ProcessTypeOK ==
    /\ phase \in Phases
    /\ exit \in {"running", "graceful", "error"}
    /\ worker \in [Workers -> Labels]
    /\ event \in [Writers -> Events]

\* A payment has an outcome at the PSP, which an event is published about.
Decided(p) == status[p] \notin {NoStatus, "created"}

\* No outcome is without what became of its event, and an event that is due has
\* its request still at work.
EventInv ==
    /\ \A p \in Writers : Decided(p) => event[p] # "none"
    /\ \A p \in Writers : event[p] = "due" => http[p] = "serving"

\* Past the wait for requests nobody is inside, past the flush the publishers
\* have nothing, past the closing of the pool no worker has a connection.
EndInv ==
    /\ exit # "running" => phase = "exited"
    /\ phase \in {"flushing", "closing"} \/ exit = "graceful" => At(Inside) = {}
    /\ phase = "closing" \/ exit = "graceful" => \A p \in Writers : event[p] # "buffered"
    /\ exit = "graceful" => \A w \in Workers : worker[w] \notin Connected

\* It holds when the process starts.
LEMMA EndInvInit == ServerInit => ProcessTypeOK /\ EventInv /\ EndInv
BY DEF ServerInit, DashInit, ProcessTypeOK, EventInv, EndInv, Decided, Phases, Labels, Events

\* What it says of a process that ended gracefully.
LEMMA EndInvSays == ProcessTypeOK /\ EventInv /\ EndInv => GracefulLosesNothing
<1> SUFFICES ASSUME ProcessTypeOK, EventInv, EndInv, exit = "graceful"
             PROVE  GracefulLosesNothing
  BY DEF GracefulLosesNothing
<1>1. At(Inside) = {} /\ \A w \in Workers : worker[w] \notin Connected
  BY DEF EndInv
<1>2. ASSUME NEW p \in Writers, Decided(p)
      PROVE  event[p] \in {"settled", "unsure"}
  <2>1. event[p] \in Events /\ event[p] # "none" /\ event[p] # "buffered"
    BY <1>2 DEF ProcessTypeOK, EventInv, EndInv
  <2>2. event[p] # "due"
    BY <1>1, RequestsAreWriters DEF EventInv, At, Inside
  <2> QED
    BY <2>1, <2>2 DEF Events
<1> QED
  BY <1>1, <1>2 DEF GracefulLosesNothing, Decided

\* A step of the process keeps its types.
LEMMA ProcessTypeStep ==
    ASSUME ProcessTypeOK, [ServerNext]_serverVars
    PROVE  ProcessTypeOK'
<1>1. CASE UNCHANGED serverVars
  BY <1>1 DEF serverVars, processVars, ProcessTypeOK
<1>2. CASE Main \/ StartFails \/ Kill
  BY <1>2 DEF Main, Subscribe, Serve, Signal, Drained, ShutdownTimesOut, Flushed, PoolClosed, StartFails,
              Kill, Phase, Exit, ProcessTypeOK, Phases
<1>3. ASSUME NEW p \in Writers,
             Request(p) \/ Create(p) \/ Conclude(p) \/ HandOver(p) \/ Answer(p) \/ Send(p)
      PROVE  ProcessTypeOK'
  <2>1. UNCHANGED event \/ \E x \in Events : event' = [event EXCEPT ![p] = x]
    BY <1>3 DEF Request, Create, Conclude, HandOver, Answer, Send, processVars, Event, Events
  <2>2. UNCHANGED <<phase, exit, worker>>
    BY <1>3 DEF Request, Create, Conclude, HandOver, Answer, Send, processVars
  <2> QED
    BY <2>1, <2>2 DEF ProcessTypeOK
<1>4. ASSUME NEW w \in Workers, Pull(w) \/ Acquire(w) \/ Release(w)
      PROVE  ProcessTypeOK'
  <2>1. \E x \in Labels : Step(w, x)
    BY <1>4, WorkerLabels DEF Pull, Acquire, Release, Labels
  <2>2. UNCHANGED <<phase, exit, event>>
    BY <1>4 DEF Pull, Acquire, Release
  <2> QED
    BY <2>1, <2>2 DEF Step, ProcessTypeOK
<1>5. ASSUME NEW r \in Readers, Read(r)
      PROVE  ProcessTypeOK'
  BY <1>5 DEF Read, processVars, ProcessTypeOK
<1> QED
  BY <1>1, <1>2, <1>3, <1>4, <1>5 DEF ServerNext

\* Steps after which the payments with an outcome are those of before.
LEMMA SameDecided ==
    ASSUME StampInv, NEW p \in Writers, Stamp(p) \/ Insert(p) \/ MovePayment(p)
    PROVE  \A x \in Writers : Decided(x)' => Decided(x)
<1>1. CASE Stamp(p)
  BY <1>1 DEF Stamp, Decided
<1>2. CASE Insert(p)
  BY <1>2 DEF Insert, Decided, StampInv
<1>3. CASE MovePayment(p)
  <2>1. Decided(p)
    BY <1>3 DEF MovePayment, Decided, Rows
  <2> QED
    BY <1>3, <2>1 DEF MovePayment, Decided, StampInv
<1> QED
  BY <1>1, <1>2, <1>3

\* A request that has an event to hand over stays at work until it has.
LEMMA EventInvStep ==
    ASSUME StampInv, ProcessTypeOK, EventInv, [ServerNext]_serverVars,
           http \in [Requests -> HttpStages]
    PROVE  EventInv'
<1>1. CASE UNCHANGED <<http, status, event>>
  BY <1>1 DEF EventInv, Decided
<1>2. ASSUME NEW p \in Writers, Request(p) \/ Answer(p)
      PROVE  EventInv'
  <2>1. UNCHANGED <<status, event>>
    BY <1>2 DEF Request, Answer, dashVars, processVars
  <2>2. event[p] # "due" \/ http'[p] = "serving"
    BY <1>2, RequestsAreWriters
       DEF Request, Answer, Enter, Count, Observe, Leave, Panic, Return, Go, EventInv
  <2>3. \A x \in Writers : x # p => http'[x] = http[x]
    BY <1>2, RequestsAreWriters
       DEF Request, Answer, Enter, Count, Observe, Leave, Panic, Return, Go
  <2> QED
    BY <2>1, <2>2, <2>3 DEF EventInv, Decided
<1>3. ASSUME NEW p \in Writers, Conclude(p)
      PROVE  EventInv'
  <2>1. UNCHANGED http /\ http[p] = "serving"
    BY <1>3 DEF Conclude, Handling, metricVars
  <2>2. \A x \in Writers : Decided(x)' => Decided(x) \/ x = p
    BY <1>3 DEF Conclude, Decided, StampInv
  <2>3. \E e \in {"due", "unsure"} : event' = [event EXCEPT ![p] = e]
    BY <1>3 DEF Conclude, Event
  <2> QED
    BY <2>1, <2>2, <2>3 DEF EventInv, ProcessTypeOK
<1>4. ASSUME NEW p \in Writers, HandOver(p) \/ Send(p)
      PROVE  EventInv'
  <2>1. UNCHANGED <<http, status>>
    BY <1>4 DEF HandOver, Send, metricVars, dashVars
  <2>2. \E e \in {"buffered", "settled"} : event' = [event EXCEPT ![p] = e]
    BY <1>4 DEF HandOver, Send, Event
  <2> QED
    BY <2>1, <2>2 DEF EventInv, ProcessTypeOK, Decided
<1>5. ASSUME UNCHANGED <<http, event>>, \A x \in Writers : Decided(x)' => Decided(x)
      PROVE  EventInv'
  BY <1>5 DEF EventInv
<1>6. ASSUME NEW p \in Writers, Create(p)
      PROVE  EventInv'
  <2>1. UNCHANGED <<http, event>> /\ \A x \in Writers : Decided(x)' => Decided(x)
    BY <1>6, SameDecided DEF Create, metricVars, processVars
  <2> QED
    BY <1>5, <2>1
<1>7. ASSUME NEW w \in Workers, Release(w)
      PROVE  EventInv'
  <2>1. UNCHANGED <<http, event>>
    BY <1>7 DEF Release, metricVars
  <2>2. \A x \in Writers : Decided(x)' => Decided(x)
    <3>1. CASE UNCHANGED status
      BY <3>1 DEF Decided
    <3>2. ASSUME NEW p \in Writers, MovePayment(p)
          PROVE  \A x \in Writers : Decided(x)' => Decided(x)
      BY <3>2, SameDecided
    <3> QED
      BY <1>7, <3>1, <3>2 DEF Release, dashVars
  <2> QED
    BY <1>5, <2>1, <2>2
<1>8. CASE Main \/ StartFails \/ Kill
  <2>1. UNCHANGED <<http, status, event>>
    BY <1>8 DEF Main, Subscribe, Serve, Signal, Drained, ShutdownTimesOut, Flushed, PoolClosed,
                StartFails, Kill, metricVars, dashVars
  <2> QED
    BY <1>1, <2>1
<1>9. ASSUME NEW w \in Workers, Pull(w) \/ Acquire(w)
      PROVE  EventInv'
  BY <1>1, <1>9 DEF Pull, Acquire, metricVars, dashVars
<1>10. ASSUME NEW r \in Readers, Read(r)
       PROVE  EventInv'
  BY <1>1, <1>10 DEF Read, GetStats, GetRecentPayments, metricVars, processVars
<1>11. CASE UNCHANGED serverVars
  BY <1>1, <1>11 DEF serverVars, metricVars, dashVars, processVars
<1> QED
  BY <1>2, <1>3, <1>4, <1>6, <1>7, <1>8, <1>9, <1>10, <1>11 DEF ServerNext

\* Each step preserves it: main passes a wait only when it is over, and nothing comes in behind it.
LEMMA EndInvStep ==
    ASSUME EndInv, [ServerNext]_serverVars, ProcessTypeOK
    PROVE  EndInv'
<1>1. CASE UNCHANGED <<phase, exit, worker, event, http>>
  BY <1>1 DEF EndInv, At
<1>2. CASE Main \/ StartFails \/ Kill
  <2>1. UNCHANGED At(Inside) /\ UNCHANGED <<worker, event>>
    BY <1>2 DEF Main, Subscribe, Serve, Signal, Drained, ShutdownTimesOut, Flushed, PoolClosed,
                StartFails, Kill, metricVars, At
  <2>2. CASE Subscribe \/ Serve \/ Signal \/ ShutdownTimesOut \/ StartFails \/ Kill
    BY <2>1, <2>2 DEF Subscribe, Serve, Signal, ShutdownTimesOut, StartFails, Kill, Phase, Exit, EndInv
  <2>3. CASE Drained
    BY <2>1, <2>3 DEF Drained, Phase, EndInv
  <2>4. CASE Flushed
    BY <2>1, <2>4 DEF Flushed, Phase, EndInv
  <2>5. CASE PoolClosed
    BY <2>1, <2>5 DEF PoolClosed, Exit, EndInv
  <2> QED
    BY <1>2, <2>2, <2>3, <2>4, <2>5 DEF Main
<1>3. ASSUME NEW p \in Writers, Request(p)
      PROVE  EndInv'
  <2>1. UNCHANGED <<phase, exit, worker, event>> /\ phase # "exited"
    BY <1>3 DEF Request, processVars, Alive
  <2>2. phase \in {"flushing", "closing"} => At(Inside)' = {}
    <3>1. CASE Enter(p)
      BY <1>3, <3>1 DEF Request, Alive, Enter, Count, Panic, Observe, Leave, Go
    <3>2. CASE Count(p) \/ Panic(p) \/ Observe(p) \/ Leave(p)
      <4>1. p \in At(Inside)
        BY <3>2, RequestsAreWriters DEF Count, Panic, Observe, Leave, Go, At, Inside
      <4> QED
        BY <4>1 DEF EndInv
    <3> QED
      BY <1>3, <3>1, <3>2 DEF Request
  <2> QED
    BY <2>1, <2>2 DEF EndInv
<1>4. ASSUME NEW p \in Writers, Conclude(p) \/ HandOver(p) \/ Answer(p)
      PROVE  EndInv'
  <2>1. p \in At(Inside) /\ phase # "exited"
    BY <1>4, RequestsAreWriters DEF Conclude, HandOver, Answer, Handling, Alive, At, Inside
  <2>2. UNCHANGED <<phase, exit, worker>>
    BY <1>4 DEF Conclude, HandOver, Answer, processVars
  <2> QED
    BY <2>1, <2>2 DEF EndInv
<1>5. ASSUME NEW p \in Writers, Send(p)
      PROVE  EndInv'
  <2>1. UNCHANGED <<phase, exit, worker, http>> /\ event' = [event EXCEPT ![p] = "settled"]
    BY <1>5 DEF Send, Event, metricVars
  <2>2. \A x \in Writers : event[x] # "buffered" => event'[x] # "buffered"
    BY <2>1 DEF ProcessTypeOK
  <2> QED
    BY <2>1, <2>2 DEF EndInv, At
<1>6. ASSUME NEW p \in Writers, Create(p)
      PROVE  EndInv'
  BY <1>1, <1>6 DEF Create, metricVars, processVars
<1>7. ASSUME NEW w \in Workers, Pull(w) \/ Acquire(w) \/ Release(w)
      PROVE  EndInv'
  <2>1. UNCHANGED <<phase, exit, event, http>> /\ phase # "exited"
    BY <1>7 DEF Pull, Acquire, Release, Alive, metricVars, Phases
  <2> QED
    BY <2>1 DEF EndInv, At
<1>8. ASSUME NEW r \in Readers, Read(r)
      PROVE  EndInv'
  BY <1>1, <1>8 DEF Read, metricVars, processVars
<1>9. CASE UNCHANGED serverVars
  BY <1>1, <1>9 DEF serverVars, metricVars, processVars
<1> QED
  BY <1>2, <1>3, <1>4, <1>5, <1>6, <1>7, <1>8, <1>9 DEF ServerNext

-----------------------------------------------------------------------------
(* Server: theorems.                                                         *)

\* The inductive invariant of the process.
ServerInv ==
    /\ MetricsInv
    /\ StampInv /\ StatsInv /\ PagesInv
    /\ ProcessTypeOK /\ EventInv /\ EndInv

\* The parts of the invariant hold at first.
LEMMA ServerInvInit == ServerInit => ServerInv
BY MetricsInvInit, StampInvInit, StatsInvInit, PagesInvInit, EndInvInit DEF ServerInit, ServerInv

\* Each part is preserved with the help of those before it.
LEMMA ServerInvStep == ServerInv /\ [ServerNext]_serverVars => ServerInv'
<1> SUFFICES ASSUME ServerInv, [ServerNext]_serverVars PROVE ServerInv'
  OBVIOUS
<1>1. MetricsInv'
  BY StepOfMetrics, MetricsInvStep DEF ServerInv
<1>2. DashStep \/ UNCHANGED dashVars
  BY StepOfDashboard
<1>3. StampInv'
  BY <1>2, StampInvStep DEF ServerInv
<1>4. StatsInv' /\ PagesInv'
  BY <1>2, <1>3, StatsInvStep, PagesInvStep DEF ServerInv
<1>5. ProcessTypeOK' /\ EventInv' /\ EndInv'
  <2>1. http \in [Requests -> HttpStages]
    BY DEF ServerInv, MetricsInv
  <2> QED
    BY <2>1, ProcessTypeStep, EventInvStep, EndInvStep DEF ServerInv
<1> QED
  BY <1>1, <1>3, <1>4, <1>5 DEF ServerInv

\* So they hold throughout.
LEMMA ServerInvAlways == ServerSpec => []ServerInv
BY ServerInvInit, ServerInvStep, PTL DEF ServerSpec

\* In every reachable state of the process, its metrics, the rows and the answers of its readers, main,
\* the workers and the publishers have their types.
THEOREM ServerTypes == ServerSpec => []ServerTypeOK
<1>1. ServerInv => ServerTypeOK
  <2>1. ServerInv => DashTypeOK
    BY DEF ServerInv, StampInv, StatsInv, PagesInv, DashTypeOK, StatsType
  <2> QED
    BY <2>1, MetricsInvSays DEF ServerInv, ProcessTypeOK, Labels, ServerTypeOK
<1> QED
  BY <1>1, ServerInvAlways, PTL

\* However many requests pass through the middleware HTTPMetrics side by side, end or panic, and into
\* however many buckets their latencies fall: the gauge counts those inside, the counter and the
\* histogram differ by those under way or panicked, and the buckets are nested.
THEOREM MetricsCorrect == ServerSpec => []MetricsAgree
<1>1. ServerInv => MetricsAgree
  BY MetricsInvSays DEF ServerInv
<1> QED
  BY <1>1, ServerInvAlways, PTL

\* However many payments of whatever amounts are created and move between the SELECTs of GetStats, and
\* whatever range a reader asks for: the figures that the SELECTs of the range yield differ one way
\* only, and the day of the last one has all of them when the range is within it.
THEOREM StatsCorrect == ServerSpec => []StatsAgree
<1>1. ServerInv => StatsAgree
  BY StatsInvSays DEF ServerInv
<1> QED
  BY <1>1, ServerInvAlways, PTL

\* A client that turns the pages of GetRecentPayments to the end misses no payment that was there when
\* it began, however many are created and move meanwhile.
THEOREM PagesCorrect == ServerSpec => []PagesComplete
<1>1. ServerInv => PagesComplete
  BY PagesInvSays DEF ServerInv
<1> QED
  BY <1>1, ServerInvAlways, PTL

\* When main has ended gracefully, every request has been answered and no webhook was cut off inside a
\* transaction, for any number of requests and workers.  The event about every outcome has been brought
\* to an end, whether it was still to be handed over or buffered when the signal came, but for outcomes
\* whose commit took effect and returned an error.
THEOREM GracefulExit == ServerSpec => []GracefulLosesNothing
<1>1. ServerInv => GracefulLosesNothing
  BY EndInvSays DEF ServerInv
<1> QED
  BY <1>1, ServerInvAlways, PTL

=============================================================================
