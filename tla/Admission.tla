------------------------------ MODULE Admission ------------------------------
(***************************************************************************)
(* What stands before every request of one client address: the token       *)
(* bucket of RateLimiter and the failed keys of authFailureTracker.  Each  *)
(* method holds the mutex of its map and is one step; between isBlocked    *)
(* and recordFailure of a request, others run.  The entries of different   *)
(* addresses do not meet.                                                  *)
(***************************************************************************)
EXTENDS Integers, FiniteSetsExt

CONSTANTS
    Requests,    \* requests of the address that are in the server at a time
    Rate,        \* tokens per interval
    Interval,    \* RateLimiter.interval
    Burst,       \* capacity of the bucket
    Stale,       \* age of lastFill at which cleanup deletes a bucket
    MaxFails,    \* authFailureTracker.maxFails
    Window,      \* authFailureTracker.window
    Horizon,     \* bound on the time
    None         \* no entry in the map

ASSUME LimiterAssumption == {Rate, Interval, Burst} \subseteq Nat \ {0}
ASSUME TrackerAssumption == MaxFails \in Nat \ {0} /\ {Window, Horizon} \subseteq Nat

\* A bucket that is deleted would be full: main.go has a burst of 200, 100 tokens a second and 10 minutes.
ASSUME StaleAssumption == Stale \in Nat /\ Burst <= Rate * (Stale \div Interval)

ASSUME RequestsAssumption == IsFiniteSet(Requests) /\ Requests # {}

ASSUME NoneAssumption ==
    /\ None \notin [tokens : 0..Burst, lastFill : 0..Horizon]
    /\ None \notin [count : Nat \ {0}, firstAt : 0..Horizon]

VARIABLES
    now,         \* the time
    bucket,      \* RateLimiter.visitors[ip]
    failure,     \* authFailureTracker.failures[ip]
    req,         \* req[r]: program counter and what key the request bears
    admitted,    \* admitted[t]: requests let through by the limiter at time t
    guessed      \* guessed[t]: wrong keys at time t, since the last right one

vars == <<now, bucket, failure, req, admitted, guessed>>

Times == 0..Horizon

\* "public" is a route without APIKeyAuth, "missing" no bearer token.
Keys == {"public", "missing", "wrong", "right"}

Idle == [pc |-> "idle", key |-> "missing"]

Init ==
    /\ now = 0
    /\ bucket = None
    /\ failure = None
    /\ req = [r \in Requests |-> Idle]
    /\ admitted = [t \in Times |-> 0]
    /\ guessed = [t \in Times |-> 0]

At(r, label) == req[r].pc = label

Return(r) == req' = [req EXCEPT ![r] = Idle]

-----------------------------------------------------------------------------
(* RateLimiter *)

Refill == ((now - bucket.lastFill) \div Interval) * Rate

\* Mutant: the bucket grows without end.
Refilled_Uncapped ==
    IF Refill > 0 THEN [tokens |-> bucket.tokens + Refill, lastFill |-> now] ELSE bucket

\* Mutant: lastFill is the time of the last request.
Refilled_Touched ==
    IF Refill > 0
    THEN [tokens |-> Min({bucket.tokens + Refill, Burst}), lastFill |-> now]
    ELSE [bucket EXCEPT !.lastFill = now]

\* The fraction of an interval that has passed is lost.
Refilled ==
    IF Refill > 0
    THEN [tokens |-> Min({bucket.tokens + Refill, Burst}), lastFill |-> now]
    ELSE bucket

Allowed == bucket = None \/ Refilled.tokens > 0

\* Mutant: the first request costs nothing.
AfterAllow_FreeFirst ==
    IF bucket = None THEN [tokens |-> Burst, lastFill |-> now]
    ELSE IF Allowed THEN [Refilled EXCEPT !.tokens = @ - 1]
    ELSE Refilled

AfterAllow ==
    IF bucket = None THEN [tokens |-> Burst - 1, lastFill |-> now]
    ELSE IF Allowed THEN [Refilled EXCEPT !.tokens = @ - 1]
    ELSE Refilled

\* allow: true lets the request on to APIKeyAuth or to a public route, false is a 429.
Allow(r) ==
    /\ At(r, "idle")
    /\ bucket' = AfterAllow
    /\ IF Allowed
       THEN /\ admitted' = [admitted EXCEPT ![now] = @ + 1]
            /\ \E k \in Keys :
                req' = [req EXCEPT ![r] = IF k = "public" THEN Idle ELSE [pc |-> "check", key |-> k]]
       ELSE UNCHANGED <<admitted, req>>
    /\ UNCHANGED <<now, failure, guessed>>

\* RateLimiter.cleanup
DropBucket ==
    /\ bucket # None
    /\ now - bucket.lastFill > Stale
    /\ bucket' = None
    /\ UNCHANGED <<now, failure, req, admitted, guessed>>

-----------------------------------------------------------------------------
(* authFailureTracker *)

Expired == failure # None /\ now - failure.firstAt > Window

\* Mutant: one failure too many is let through.
Blocked_Late == failure # None /\ ~Expired /\ failure.count > MaxFails

\* Mutant: a lockout has no end.
Blocked_ForGood == failure # None /\ failure.count >= MaxFails

Blocked == failure # None /\ ~Expired /\ failure.count >= MaxFails

\* isBlocked, and the check that there is a token.
Check(r) ==
    /\ At(r, "check")
    /\ failure' = IF Expired THEN None ELSE failure
    /\ IF Blocked \/ req[r].key = "missing"
       THEN Return(r)
       ELSE req' = [req EXCEPT ![r].pc = "verify"]
    /\ UNCHANGED <<now, bucket, admitted, guessed>>

\* recordFailure
Fail(r) ==
    /\ At(r, "verify") /\ req[r].key = "wrong"
    /\ failure' = IF failure = None \/ Expired
                  THEN [count |-> 1, firstAt |-> now]
                  ELSE [failure EXCEPT !.count = @ + 1]
    /\ guessed' = [guessed EXCEPT ![now] = @ + 1]
    /\ Return(r)
    /\ UNCHANGED <<now, bucket, admitted>>

\* resetFailures
Succeed(r) ==
    /\ At(r, "verify") /\ req[r].key = "right"
    /\ failure' = None
    /\ guessed' = [t \in Times |-> 0]
    /\ Return(r)
    /\ UNCHANGED <<now, bucket, admitted>>

\* authFailureTracker.cleanup
DropFailure ==
    /\ Expired
    /\ failure' = None
    /\ UNCHANGED <<now, bucket, req, admitted, guessed>>

-----------------------------------------------------------------------------

Tick ==
    /\ now < Horizon
    /\ now' = now + 1
    /\ UNCHANGED <<bucket, failure, req, admitted, guessed>>

Next ==
    \/ \E r \in Requests : Allow(r) \/ Check(r) \/ Fail(r) \/ Succeed(r)
    \/ DropBucket \/ DropFailure \/ Tick

Spec == Init /\ [][Next]_vars

-----------------------------------------------------------------------------

\* Every part of the state has its type.
TypeOK ==
    /\ now \in Times
    /\ bucket \in [tokens : 0..Burst, lastFill : 0..now] \cup {None}
    /\ failure \in [count : Nat \ {0}, firstAt : 0..now] \cup {None}
    /\ req \in [Requests -> [pc : {"idle", "check", "verify"}, key : Keys]]
    /\ admitted \in [Times -> Nat]
    /\ guessed \in [Times -> Nat]

\* The sum of a history from time a to time b.
During(history, a, b) == MapThenSumSet(LAMBDA t : history[t], Times \cap (a..b))

\* In no span of time does the limiter let more requests through than a full bucket and a refill
\* for each interval that has begun, although cleanup forgets buckets.
AdmissionBound ==
    \A a \in Times : \A b \in a..Horizon :
        During(admitted, a, b) <= Burst + Rate * ((b - a) \div Interval + 1) - 1

\* The limiter refuses an address that it has let through within the last interval.
RefusedAfterRequest ==
    ~Allowed => \E t \in Times : now - Interval < t /\ t <= now /\ admitted[t] > 0

\* The tracker blocks an address with MaxFails wrong keys in the last window.
LockedAfterFailures == Blocked => During(guessed, now - Window, now) >= MaxFails

\* Nobody is refused or locked out without a recent cause: refused requests prolong neither.
RefusedForAReason == RefusedAfterRequest /\ LockedAfterFailures

\* Requests that passed isBlocked together may all be wrong, and a window may end between two
\* of them; more wrong keys than that are not tried in the length of a window.
GuessBound ==
    \A a \in Times :
        During(guessed, a, a + Window) <= 2 * (MaxFails - 1 + Cardinality(Requests)) - 1
=============================================================================
