----------------------------- MODULE Settlement -----------------------------
(***************************************************************************)
(* The payment service and the webhook service at work on one database.    *)
(* They share the payment rows, the audit trail and the row locks; the PSP *)
(* joins them, since it reports on the authorizations it has accepted.     *)
(***************************************************************************)
EXTENDS PaymentService, WebhookService

vars == <<rows, trail, rowLock, req, psp, published, faults, wh, inbox, book, posted>>

Init == PaymentInit /\ WebhookInit

\* The PSP sends events about the authorizations it has accepted.
Sent(e) == e.pspId \in psp[e.payment].auths

RequestStep(r) ==
    /\ Arrive(r) \/ Proceed(r) \/ Abort(r)
    /\ UNCHANGED webhookVars

\* Faults of either service use up the one bound.
DeliveryStep(d) ==
    \/ /\ \/ \E e \in Events : Sent(e) /\ Receive(d, e)
          \/ WebhookProceed(d)
       /\ UNCHANGED serviceVars
    \/ /\ WebhookFault(d)
       /\ faults < MaxFaults
       /\ faults' = faults + 1
       /\ UNCHANGED <<req, psp, published>>

\* Every request is answered and no delivery is left that could arrive.
Quiescent ==
    /\ \A r \in Requests : req[r].pc = "done"
    /\ \A d \in Deliveries : \/ wh[d].pc = "done"
                             \/ wh[d].pc = "idle" /\ ~\E e \in Events : Sent(e)
    /\ UNCHANGED vars

Next ==
    \/ \E r \in Requests : RequestStep(r)
    \/ \E d \in Deliveries : DeliveryStep(d)
    \/ Quiescent

Spec == Init /\ [][Next]_vars

\* A goroutine keeps running until its handler returns: statements on a row
\* are queued by PostgreSQL, every holder of a lock releases it when it ends,
\* and a PSP call ends with the time limit of its HTTP client at the latest.
FairSpec ==
    /\ Spec
    /\ \A r \in Requests : WF_vars(Proceed(r) /\ UNCHANGED webhookVars)
    /\ \A d \in Deliveries : WF_vars(WebhookProceed(d) /\ UNCHANGED serviceVars)

-----------------------------------------------------------------------------
(* Properties *)

\* Both services' state has its type.
TypeOK == PaymentTypeOK /\ WebhookTypeOK

\* While CreatePayment is at the PSP nothing else can touch its row: no PSP id
\* is stored, so no webhook finds it, no request loads it, and the optimistic
\* update at the end finds the status it expects.
CreateUncontested ==
    \A r \in Requests :
        req[r].pc \in {"psp_create", "finish_create"} =>
            rows[req[r].payment].status = "created" /\ Free(req[r].payment)

\* Every request and every delivery that is under way is answered: nobody
\* waits forever for a row lock that CapturePayment or RefundPayment holds
\* over a PSP call, whatever that call or the database does.
AllAnswered ==
    /\ \A r \in Requests : req[r].pc \in ActiveLabels ~> req[r].pc = "done"
    /\ \A d \in Deliveries : wh[d].pc \in WebhookActive ~> wh[d].pc = "done"

\* Refunds only grow, up to the amount, and a PSP id once stored stays, in
\* every step of either service.
RowsMonotone == [][\A p \in Payments : RowStep(p)]_vars

Life == INSTANCE PaymentLife WITH
    payment <- [p \in Payments |-> [status |-> rows[p].status, refunded |-> rows[p].totalRefunded]],
    ledger <- posted,
    Reported <- {e.amount : e \in Events}

\* The transactions, locks, PSP calls and deliveries of both services come down to lives of payments
\* in which every status change, with its refund total and its ledger transaction, is one legal step.
ImplementsPaymentLife == Life!Spec

=============================================================================
