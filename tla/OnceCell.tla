------------------------------ MODULE OnceCell ------------------------------
(***************************************************************************)
(* What an idempotency key promises: a cell that runs one request at a     *)
(* time, none once a request succeeded, and hands the response of that     *)
(* request to the others.  A run that failed frees the cell; one whose     *)
(* outcome was not recorded blocks it until it is forgotten.               *)
(***************************************************************************)
CONSTANTS Requests, Keys

VARIABLES
    cell,       \* cell[k]: [kind |-> "free"/"blocked"] or [kind, by] while running or done
    answer      \* answer[r]: what request r was told

vars == <<cell, answer>>

Free == [kind |-> "free"]
Blocked == [kind |-> "blocked"]
Running(r) == [kind |-> "running", by |-> r]
Done(r) == [kind |-> "done", by |-> r]

Pending == [kind |-> "pending"]
Own(ok) == [kind |-> IF ok THEN "own_success" ELSE "own_failure"]
Replay(q) == [kind |-> "replay", by |-> q]
Conflict == [kind |-> "conflict"]
Error == [kind |-> "error"]

Init ==
    /\ cell = [k \in Keys |-> Free]
    /\ answer = [r \in Requests |-> Pending]

Put(k, c) == cell' = [cell EXCEPT ![k] = c]

Tell(r, a) ==
    /\ answer[r] = Pending
    /\ answer' = [answer EXCEPT ![r] = a]

Begin(r, k) == cell[k] = Free /\ Put(k, Running(r)) /\ UNCHANGED answer

\* The claim is stored and the request does not know.
BeginUnknown(k) == cell[k] = Free /\ Put(k, Blocked) /\ UNCHANGED answer

Finish(r, k) ==
    /\ cell[k] = Running(r)
    /\ \/ Tell(r, Own(TRUE)) /\ Put(k, Done(r))
       \/ Tell(r, Own(FALSE)) /\ Put(k, Free)

\* The outcome is not recorded: an error, or the process stops.
Drop(r, k) ==
    /\ cell[k] = Running(r)
    /\ Put(k, Blocked)
    /\ \E a \in {Own(TRUE), Own(FALSE), Error} : Tell(r, a)

\* A request is turned away or served from the cell, which stays as it is.
Serve(r, k) ==
    /\ \/ cell[k].kind = "done" /\ Tell(r, Replay(cell[k].by))
       \/ cell[k].kind \in {"running", "blocked"} /\ Tell(r, Conflict)
    /\ UNCHANGED cell

Refuse(r) == Tell(r, Error) /\ UNCHANGED cell

RefuseUnknown(r, k) == cell[k] = Free /\ Put(k, Blocked) /\ Tell(r, Error)

Forget(k) == cell[k].kind \in {"done", "blocked"} /\ Put(k, Free) /\ UNCHANGED answer

\* A request without a key is not the cell's business.
Bypass(r) ==
    /\ \E ok \in BOOLEAN : Tell(r, Own(ok))
    /\ UNCHANGED cell

Next ==
    \/ \E r \in Requests : Refuse(r) \/ Bypass(r)
    \/ \E k \in Keys : BeginUnknown(k) \/ Forget(k)
    \/ \E r \in Requests, k \in Keys :
        Begin(r, k) \/ Finish(r, k) \/ Drop(r, k) \/ Serve(r, k) \/ RefuseUnknown(r, k)

Spec == Init /\ [][Next]_vars
=============================================================================
