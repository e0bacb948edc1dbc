------------------------------- MODULE Metrics -------------------------------
(***************************************************************************)
(* pkg/metrics: what the middleware HTTPMetrics counts of each request, in *)
(* three metrics that are updated one after the other and apart from each  *)
(* other.                                                                  *)
(***************************************************************************)
EXTENDS Naturals, FiniteSets

CONSTANTS
    Requests,   \* the HTTP requests, each made once
    Buckets     \* number of finite latency buckets

ASSUME BucketsAssumption == Buckets \in Nat

VARIABLES
    http,       \* http[r]: where the middleware is with request r
    active,     \* gauge active_connections
    total,      \* counter http_requests_total
    hist        \* histogram http_request_duration_seconds

metricVars == <<http, active, total, hist>>

\* A request that has left ends as "left" or, after a panic, as "aborted".
Inside == {"entered", "serving", "served", "panicked", "observed"}
HttpStages == Inside \cup {"out", "left", "aborted"}

\* The last bucket is +Inf.
BucketIds == 1 .. Buckets + 1

MetricsInit ==
    /\ http = [r \in Requests |-> "out"]
    /\ active = 0
    /\ total = 0
    /\ hist = [counts |-> [i \in BucketIds |-> 0], count |-> 0]

Go(r, from, to) == http[r] = from /\ http' = [http EXCEPT ![r] = to]

-----------------------------------------------------------------------------

Enter(r) ==
    /\ Go(r, "out", "entered")
    /\ active' = active + 1
    /\ UNCHANGED <<total, hist>>

Count(r) ==
    /\ Go(r, "entered", "serving")
    /\ total' = total + 1
    /\ UNCHANGED <<active, hist>>

\* next.ServeHTTP returns, or it panics past the rest of the middleware.
Return(r) == Go(r, "serving", "served") /\ UNCHANGED <<active, total, hist>>

Panic(r) == Go(r, "serving", "panicked") /\ UNCHANGED <<active, total, hist>>

\* A latency that falls into bucket b is counted in it and in every larger one.
Observed(h, b) ==
    [counts |-> [i \in BucketIds |-> IF b <= i THEN h.counts[i] + 1 ELSE h.counts[i]],
     count |-> h.count + 1]

Observe(r) ==
    /\ Go(r, "served", "observed")
    /\ \E b \in BucketIds : hist' = Observed(hist, b)
    /\ UNCHANGED <<active, total>>

\* Mutant: the gauge goes down at the end of the middleware, which a panic does not reach.
Leave_NotDeferred(r) ==
    /\ \/ Go(r, "observed", "left") /\ active' = active - 1
       \/ Go(r, "panicked", "aborted") /\ UNCHANGED active
    /\ UNCHANGED <<total, hist>>

\* Mutant: the gauge goes down at the end of the middleware as well.
Leave_Twice(r) ==
    /\ \/ Go(r, "observed", "left") /\ active' = active - 2
       \/ Go(r, "panicked", "aborted") /\ active' = active - 1
    /\ UNCHANGED <<total, hist>>

\* The deferred Dec runs in either case; Recoverer then ends the panic.
Leave(r) ==
    /\ Go(r, "observed", "left") \/ Go(r, "panicked", "aborted")
    /\ active' = active - 1
    /\ UNCHANGED <<total, hist>>

-----------------------------------------------------------------------------
(* Properties *)

MetricsTypeOK ==
    /\ http \in [Requests -> HttpStages]
    /\ active \in Nat /\ total \in Nat
    /\ hist \in [counts : [BucketIds -> Nat], count : Nat]

At(stages) == {r \in Requests : http[r] \in stages}

\* At every moment, whatever requests are doing and however they end, the
\* gauge is the number of requests inside, and the counter and the histogram
\* differ by those under way and those that panicked; the buckets are nested.
MetricsAgree ==
    /\ active = Cardinality(At(Inside))
    /\ total = hist.count + Cardinality(At({"serving", "served", "panicked", "aborted"}))
    /\ hist.counts[Buckets + 1] = hist.count
    /\ \A i \in 1 .. Buckets : hist.counts[i] <= hist.counts[i + 1]

=============================================================================
