--------------------------- MODULE PaymentService ---------------------------
(***************************************************************************)
(* service/payment.go: the API requests that create, capture, refund and   *)
(* cancel payments, each running in its own goroutine against PostgreSQL   *)
(* and a payment provider (PSP).                                           *)
(*                                                                         *)
(* A request runs through the labels of its handler; a label is a point at *)
(* which other requests can run, i.e. the boundary of a transaction, of a  *)
(* lock or of a PSP call.  The PSP is external: a call is carried out and  *)
(* answered, carried out with its answer lost, or refused.  Abort is every *)
(* way a handler ends early at a label: a database error, the context of   *)
(* the request cancelled by a timeout or a disconnect, a crash of the      *)
(* process.  Its open transaction rolls back and its lock is released, but *)
(* what the PSP did stays done.                                            *)
(***************************************************************************)
EXTENDS PaymentStore, Adapters, FiniteSets

CONSTANTS
    Requests,       \* the API requests, each served once
    NoPayment,      \* the payment of a request that has not started
    MaxAttempts,    \* retry.DefaultConfig().MaxAttempts
    MaxFaults       \* bound: lost answers and aborts in one behaviour

ASSUME AttemptsAssumption == MaxAttempts \in Nat \ {0}
ASSUME FaultsAssumption == MaxFaults \in Nat
ASSUME OwnerAssumption == NoOwner \notin Requests

VARIABLES
    req,        \* where each request is, and its local variables
    psp,        \* what the provider has carried out for each payment
    published,  \* payment events handed to Pub/Sub
    faults      \* lost answers and aborts so far

serviceVars == <<req, psp, published, faults>>
paymentVars == <<rows, trail, rowLock, req, psp, published, faults>>

LockedLabels == {"psp_capture", "commit_capture", "psp_refund", "commit_refund"}
ActiveLabels == LockedLabels \cup {"psp_create", "finish_create", "psp_cancel", "finish_cancel"}

Idle == [pc |-> "idle", payment |-> NoPayment, amount |-> 0, total |-> 0,
         attempt |-> 0, ok |-> FALSE, seen |-> NoStatus]

ServiceInit ==
    /\ req = [r \in Requests |-> Idle]
    /\ psp = [p \in Payments |->
                [auths |-> {}, captures |-> 0, refunded |-> 0, cancels |-> 0]]
    /\ published = {}
    /\ faults = 0

PaymentInit == StoreInit /\ ServiceInit

-----------------------------------------------------------------------------
(* Steps that the handlers share. *)

\* The handler returns; its local variables are gone.
End(r) == req' = [req EXCEPT ![r] = [Idle EXCEPT !.pc = "done"]]

Release(p) == rowLock' = [rowLock EXCEPT ![p] = NoOwner]

\* Only a lost answer uses up a fault.
Answered(a) ==
    /\ a = "lost" => faults < MaxFaults
    /\ faults' = IF a = "lost" THEN faults + 1 ELSE faults

\* Fire and forget, after the commit: the event is handed over, or the
\* process stops first (or Pub/Sub is disabled).
Publish(p, from, to, by) ==
    \/ published' = published \cup {[payment |-> p, from |-> from, to |-> to, by |-> by]}
    \/ UNCHANGED published

\* A transaction of its own whose UPDATE asks for the status it expects: the
\* UPDATE waits for the row lock and changes no row if the status moved on.
\* newPspId is NullPspId where the code passes "".
updatePaymentState(p, from, to, newPspId, by) ==
    /\ Free(p)
    /\ IF ValidateTransition(from, to) /\ rows[p].status = from
       THEN /\ WriteRow(p, [rows[p] EXCEPT !.status = to,
                             !.pspId = IF newPspId = NullPspId THEN @ ELSE newPspId], from, by)
            /\ Publish(p, from, to, by)
       ELSE UNCHANGED <<rows, trail, published>>

-----------------------------------------------------------------------------
(* CreatePayment *)

\* The payment is routed, and its row and first audit record are committed.
CreateInsert(r, p) ==
    /\ req[r].pc = "idle"
    /\ ~Exists(p)
    /\ WriteRow(p, [NoRow EXCEPT !.status = "created"], NoStatus, "system")
    /\ req' = [req EXCEPT ![r] = [Idle EXCEPT !.pc = "psp_create", !.payment = p]]
    /\ UNCHANGED <<rowLock, psp, published, faults>>

\* retry.Do: return on the first success or after the last attempt.  The
\* adapters mark no error as non-retryable.
retryDo(a, k) == IF a = "ok" \/ k = MaxAttempts THEN "finish_create" ELSE "psp_create"

\* One attempt.  No idempotency key reaches the PSP, so each
\* attempt that is carried out is an authorization of its own.
PspCreate(r) ==
    LET p == req[r].payment
        k == req[r].attempt + 1
    IN  /\ req[r].pc = "psp_create"
        /\ \E a \in Answers :
            /\ Answered(a)
            /\ psp' = IF CarriedOut(a)
                      THEN [psp EXCEPT ![p].auths = @ \cup {k}]
                      ELSE psp
            /\ req' = [req EXCEPT ![r].attempt = k, ![r].ok = (a = "ok"),
                         ![r].pc = retryDo(a, k)]
        /\ UNCHANGED <<storeVars, published>>

\* The outcome of the attempts becomes the status; a payment that failed
\* keeps a NULL psp_payment_id.
CreateFinish(r) ==
    /\ req[r].pc = "finish_create"
    /\ updatePaymentState(req[r].payment, "created",
                          IF req[r].ok THEN "authorized" ELSE "failed",
                          IF req[r].ok THEN req[r].attempt ELSE NullPspId, "system")
    /\ End(r)
    /\ UNCHANGED <<rowLock, psp, faults>>

-----------------------------------------------------------------------------
(* CapturePayment: the row stays locked from the status check to the commit. *)

Capturable(p) == Loads(p) /\ rows[p].status = "authorized"

\* Mutant: a plain SELECT, which neither waits for the lock nor takes it alone.
CaptureLock_NoWait(r, p) ==
    /\ req[r].pc = "idle"
    /\ Capturable(p)
    /\ rowLock' = [rowLock EXCEPT ![p] = r]
    /\ req' = [req EXCEPT ![r] = [Idle EXCEPT !.pc = "psp_capture", !.payment = p]]
    /\ UNCHANGED <<rows, trail, psp, published, faults>>

CaptureLock(r, p) ==
    /\ req[r].pc = "idle"
    /\ Free(p)
    /\ Capturable(p)
    /\ rowLock' = [rowLock EXCEPT ![p] = r]
    /\ req' = [req EXCEPT ![r] = [Idle EXCEPT !.pc = "psp_capture", !.payment = p]]
    /\ UNCHANGED <<rows, trail, psp, published, faults>>

\* Mutant: the event is published before the commit.
CapturePsp_PublishEarly(r) ==
    LET p == req[r].payment
    IN  /\ req[r].pc = "psp_capture"
        /\ psp' = [psp EXCEPT ![p].captures = @ + 1]
        /\ req' = [req EXCEPT ![r].pc = "commit_capture"]
        /\ published' = published \cup
              {[payment |-> p, from |-> "authorized", to |-> "captured", by |-> "api"]}
        /\ UNCHANGED <<storeVars, faults>>

\* Mutant: an error of the PSP leaves the transaction open.
CapturePsp_NoRollback(r) ==
    LET p == req[r].payment
    IN  /\ req[r].pc = "psp_capture"
        /\ \E a \in Answers :
            /\ Answered(a)
            /\ psp' = IF CarriedOut(a) THEN [psp EXCEPT ![p].captures = @ + 1] ELSE psp
            /\ IF a = "ok" THEN req' = [req EXCEPT ![r].pc = "commit_capture"] ELSE End(r)
        /\ UNCHANGED <<storeVars, published>>

CapturePsp(r) ==
    LET p == req[r].payment
    IN  /\ req[r].pc = "psp_capture"
        /\ \E a \in Answers :
            /\ Answered(a)
            /\ psp' = IF CarriedOut(a) THEN [psp EXCEPT ![p].captures = @ + 1] ELSE psp
            /\ IF a = "ok"
               THEN req' = [req EXCEPT ![r].pc = "commit_capture"] /\ UNCHANGED rowLock
               ELSE End(r) /\ Release(p)
        /\ UNCHANGED <<rows, trail, published>>

CaptureCommit(r) ==
    LET p == req[r].payment
    IN  /\ req[r].pc = "commit_capture"
        /\ WriteRow(p, [rows[p] EXCEPT !.status = "captured"], "authorized", "api")
        /\ Release(p)
        /\ Publish(p, "authorized", "captured", "api")
        /\ End(r)
        /\ UNCHANGED <<psp, faults>>

-----------------------------------------------------------------------------
(* RefundPayment: as for a capture, with the amount checked under the lock. *)

Refundable(p, n) ==
    /\ Loads(p)
    /\ rows[p].status \in {"captured", "partially_refunded"}
    /\ n <= Amount[p] - rows[p].totalRefunded

\* Mutant: a plain SELECT, which neither waits for the lock nor takes it alone.
RefundLock_NoWait(r, p, n) ==
    /\ req[r].pc = "idle"
    /\ Refundable(p, n)
    /\ rowLock' = [rowLock EXCEPT ![p] = r]
    /\ req' = [req EXCEPT ![r] = [Idle EXCEPT !.pc = "psp_refund", !.payment = p,
                                    !.amount = n, !.seen = rows[p].status,
                                    !.total = rows[p].totalRefunded]]
    /\ UNCHANGED <<rows, trail, psp, published, faults>>

RefundLock(r, p, n) ==
    /\ req[r].pc = "idle"
    /\ Free(p)
    /\ Refundable(p, n)
    /\ rowLock' = [rowLock EXCEPT ![p] = r]
    /\ req' = [req EXCEPT ![r] = [Idle EXCEPT !.pc = "psp_refund", !.payment = p,
                                    !.amount = n, !.seen = rows[p].status,
                                    !.total = rows[p].totalRefunded]]
    /\ UNCHANGED <<rows, trail, psp, published, faults>>

RefundPsp(r) ==
    LET p == req[r].payment
    IN  /\ req[r].pc = "psp_refund"
        /\ \E a \in Answers :
            /\ Answered(a)
            /\ psp' = IF CarriedOut(a)
                      THEN [psp EXCEPT ![p].refunded = @ + req[r].amount]
                      ELSE psp
            /\ IF a = "ok"
               THEN req' = [req EXCEPT ![r].pc = "commit_refund"] /\ UNCHANGED rowLock
               ELSE End(r) /\ Release(p)
        /\ UNCHANGED <<rows, trail, published>>

RefundStatus(p, newTotal) == IF newTotal >= Amount[p] THEN "refunded" ELSE "partially_refunded"

RefundCommit(r) ==
    LET p == req[r].payment
        newTotal == req[r].total + req[r].amount
        newStatus == RefundStatus(p, newTotal)
    IN  /\ req[r].pc = "commit_refund"
        /\ WriteRow(p, [rows[p] EXCEPT !.status = newStatus, !.totalRefunded = newTotal],
                    req[r].seen, "api")
        /\ Release(p)
        /\ Publish(p, req[r].seen, newStatus, "api")
        /\ End(r)
        /\ UNCHANGED <<psp, faults>>

-----------------------------------------------------------------------------
(* CancelPayment: a plain read, the PSP call, then the optimistic update. *)

CancelRead(r, p) ==
    /\ req[r].pc = "idle"
    /\ Loads(p)
    /\ rows[p].status = "authorized"
    /\ req' = [req EXCEPT ![r] = [Idle EXCEPT !.pc = "psp_cancel", !.payment = p,
                                    !.attempt = rows[p].pspId, !.seen = rows[p].status]]
    /\ UNCHANGED <<storeVars, psp, published, faults>>

CancelPsp(r) ==
    LET p == req[r].payment
    IN  /\ req[r].pc = "psp_cancel"
        /\ \E a \in CancelAnswers :
            /\ Answered(a)
            /\ psp' = IF CarriedOut(a) THEN [psp EXCEPT ![p].cancels = @ + 1] ELSE psp
            /\ IF Succeeds(a) THEN req' = [req EXCEPT ![r].pc = "finish_cancel"] ELSE End(r)
        /\ UNCHANGED <<storeVars, published>>

CancelFinish(r) ==
    /\ req[r].pc = "finish_cancel"
    /\ updatePaymentState(req[r].payment, req[r].seen, "cancelled", req[r].attempt, "api")
    /\ End(r)
    /\ UNCHANGED <<rowLock, psp, faults>>

-----------------------------------------------------------------------------
(* A request that a check turns away returns an error and changes nothing. *)

Reject(r, p) ==
    /\ req[r].pc = "idle"
    /\ \/ ~Capturable(p)           \* CapturePayment and CancelPayment
       \/ \E n \in 1 .. Amount[p] : Free(p) /\ ~Refundable(p, n)
    /\ End(r)
    /\ UNCHANGED <<storeVars, psp, published, faults>>

Abort(r) ==
    /\ req[r].pc \in ActiveLabels
    /\ faults < MaxFaults
    /\ faults' = faults + 1
    /\ rowLock' = [p \in Payments |-> IF rowLock[p] = r THEN NoOwner ELSE rowLock[p]]
    /\ End(r)
    /\ UNCHANGED <<rows, trail, psp, published>>

-----------------------------------------------------------------------------

\* The handler has validated the input and checked who owns the payment; a
\* request that fails there returns without a change, as one of Reject does.
Arrive(r) ==
    \E p \in Payments :
        \/ CreateInsert(r, p)
        \/ CaptureLock(r, p)
        \/ \E n \in 1 .. Amount[p] : RefundLock(r, p, n)
        \/ CancelRead(r, p)
        \/ Reject(r, p)

Proceed(r) ==
    \/ PspCreate(r) \/ CreateFinish(r)
    \/ CapturePsp(r) \/ CaptureCommit(r)
    \/ RefundPsp(r) \/ RefundCommit(r)
    \/ CancelPsp(r) \/ CancelFinish(r)

\* Every request is answered: nothing more happens.
PaymentQuiescent == (\A r \in Requests : req[r].pc = "done") /\ UNCHANGED paymentVars

PaymentNext ==
    \/ \E r \in Requests : Arrive(r) \/ Proceed(r) \/ Abort(r)
    \/ PaymentQuiescent

PaymentSpec == PaymentInit /\ [][PaymentNext]_paymentVars

-----------------------------------------------------------------------------
(* Properties *)

\* The rows, requests, PSP effects and counters have their types.
PaymentTypeOK ==
    /\ StoreTypeOK
    /\ rowLock \in [Payments -> Requests \cup {NoOwner}]
    /\ req \in [Requests -> [pc : ActiveLabels \cup {"idle", "done"},
                             payment : Payments \cup {NoPayment}, amount : Nat, total : Nat,
                             attempt : Nat, ok : BOOLEAN, seen : Status \cup {NoStatus}]]
    /\ psp \in [Payments -> [auths : SUBSET Nat, captures : Nat, refunded : Nat, cancels : Nat]]
    /\ published \subseteq [payment : Payments, from : Status, to : Status, by : Triggers]
    /\ faults \in 0 .. MaxFaults

\* total_refunded is the cumulative refund, as the migration that adds the
\* column says: a payment is refunded exactly when the whole amount is, and
\* partially_refunded exactly when some of it is, whoever moved the refunds.
RefundStatusAgrees ==
    \A p \in Payments :
        /\ rows[p].status = "refunded" <=> rows[p].totalRefunded = Amount[p]
        /\ rows[p].status = "partially_refunded" <=> rows[p].totalRefunded \in 1 .. Amount[p] - 1

\* As long as no answer was lost and no handler aborted, the provider and the
\* rows tell one story: an unlocked row has the refunds that the provider made,
\* whatever refunds ran side by side, and a payment shown as cancelled was not
\* captured, since CancelPayment gives way to a capture that was in flight.
PspAgreesWithRows ==
    faults = 0 => \A p \in Payments :
        /\ Free(p) => psp[p].refunded = rows[p].totalRefunded
        /\ rows[p].status = "cancelled" => psp[p].captures = 0

\* How often something was done beyond the first time.
Repeats(n) == IF n = 0 THEN 0 ELSE n - 1

\* Each lost answer or abort costs at most one effect too many at the provider:
\* a second capture of the payment, by the client that asks again, or a second
\* authorization, by retry.Do.  Concurrent requests alone repeat neither.
EffectsPerFault ==
    \A p \in Payments : Repeats(psp[p].captures) + Repeats(Cardinality(psp[p].auths)) <= faults

\* No event tells consumers of a step that is not committed in the trail.
PublishedCommitted ==
    \A ev \in published :
        \E i \in DOMAIN trail[ev.payment] :
            trail[ev.payment][i] = [from |-> ev.from, to |-> ev.to, by |-> ev.by]

=============================================================================
