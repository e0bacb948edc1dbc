--------------------------- MODULE CircuitBreaker ---------------------------
(***************************************************************************)
(* pkg/circuitbreaker: what the methods of one breaker do to its state.    *)
(* Each method holds the mutex throughout, so each is one operator from a  *)
(* breaker to a breaker.  Of the clock only this matters: whether          *)
(* OpenTimeout has passed since the breaker opened (field elapsed).        *)
(*                                                                         *)
(* consecutiveFails is only compared with FailureThreshold, and grows      *)
(* without bound while calls fail; here it stays at FailureThreshold.      *)
(***************************************************************************)
EXTENDS Integers

CONSTANTS
    FailureThreshold,   \* consecutive failures before opening
    SuccessThreshold    \* consecutive successes in half-open before closing

ASSUME ThresholdAssumption ==
    FailureThreshold \in Nat \ {0} /\ SuccessThreshold \in Nat \ {0}

States == {"closed", "open", "half_open"}

Breaker == [state : States, fails : 0 .. FailureThreshold, ok : 0 .. SuccessThreshold,
            elapsed : BOOLEAN]

New == [state |-> "closed", fails |-> 0, ok |-> 0, elapsed |-> FALSE]

\* The result of Allow, and the breaker it leaves behind when it is true.
Allows(b) == b.state # "open" \/ b.elapsed

AfterAllow(b) ==
    IF b.state = "open" THEN [b EXCEPT !.state = "half_open", !.ok = 0] ELSE b

\* Mutants: the failures are not forgotten; the threshold is off by one; a
\* half-open breaker counts but does not close.
RecordSuccess_KeepFails(b) ==
    IF b.state # "half_open" THEN b
    ELSE [b EXCEPT !.ok = @ + 1,
                   !.state = IF b.ok + 1 >= SuccessThreshold THEN "closed" ELSE "half_open"]
RecordSuccess_OffByOne(b) ==
    LET c == [b EXCEPT !.fails = 0]
    IN  IF b.state # "half_open" THEN c
        ELSE [c EXCEPT !.ok = @ + 1,
                       !.state = IF b.ok + 1 > SuccessThreshold THEN "closed" ELSE "half_open"]
RecordSuccess_StaysHalfOpen(b) ==
    LET c == [b EXCEPT !.fails = 0]
    IN  IF b.state # "half_open" THEN c
        ELSE [c EXCEPT !.ok = IF @ < SuccessThreshold THEN @ + 1 ELSE @]

RecordSuccess(b) ==
    LET c == [b EXCEPT !.fails = 0]
    IN  IF b.state # "half_open" THEN c
        ELSE [c EXCEPT !.ok = @ + 1,
                       !.state = IF b.ok + 1 >= SuccessThreshold THEN "closed" ELSE "half_open"]

Opened(b) == [b EXCEPT !.state = "open", !.elapsed = FALSE]

RecordFailure(b) ==
    LET c == [b EXCEPT !.fails = IF @ < FailureThreshold THEN @ + 1 ELSE @, !.ok = 0]
    IN  IF b.state = "half_open" \/ (b.state = "closed" /\ c.fails >= FailureThreshold)
        THEN Opened(c) ELSE c

=============================================================================
