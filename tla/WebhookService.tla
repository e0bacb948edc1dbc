--------------------------- MODULE WebhookService ---------------------------
(***************************************************************************)
(* service/webhook.go: the ingestion of PSP webhooks.  A delivery is one   *)
(* call of ingestWebhookInternal, made by the HTTP handler, the Pub/Sub    *)
(* subscriber or a DLQ retry; the PSP and Pub/Sub may deliver one event    *)
(* any number of times, concurrently and in any order.                     *)
(*                                                                         *)
(* An event stands for a payload; its idempotency key is a hash of it, so  *)
(* the event itself serves as the key.  Each of the three SELECTs and      *)
(* INSERTs before the dispatch, the transaction of the dispatch and the    *)
(* final UPDATE is a step.  The dispatch transaction locks the payment and *)
(* then the accounts and calls no one, so it is one step that waits for    *)
(* the row lock.                                                           *)
(***************************************************************************)
EXTENDS PaymentStore, LedgerBook

CONSTANTS
    Deliveries,     \* calls of ingestWebhookInternal, each made once
    Events,         \* [id, type, payment, pspId, amount]
    NoEvent,        \* the event of a delivery that has not arrived
    Unmatched       \* internalPaymentID = "": no payment with that PSP id

EventTypes == {"capture", "failure", "refund", "other"}

ASSUME EventAssumption ==
    \A e \in Events : /\ e.type \in EventTypes
                      /\ e.payment \in Payments
                      /\ e.pspId \in Nat \ {NullPspId}
                      /\ e.amount \in Nat
ASSUME UnmatchedAssumption == Unmatched \notin Payments

VARIABLES
    wh,         \* where each delivery is, and its local variables
    inbox,      \* table webhook_events: status by idempotency key
    book,       \* ledger_accounts and ledger_entries
    posted      \* table ledger_transactions, in commit order

webhookVars == <<wh, inbox, book, posted>>

WebhookActive == {"dup_check", "lookup", "insert", "process", "finalize"}

NotArrived == [pc |-> "idle", event |-> NoEvent, payment |-> Unmatched,
               claimed |-> FALSE, res |-> "none"]

WebhookInit ==
    /\ wh = [d \in Deliveries |-> NotArrived]
    /\ inbox = [e \in Events |-> "absent"]
    /\ book = EmptyBook
    /\ posted = <<>>

-----------------------------------------------------------------------------

Return(d, result) ==
    wh' = [wh EXCEPT ![d].pc = "done", ![d].res = result, ![d].payment = Unmatched]

\* The delivery arrives.  A bad signature or a stale timestamp turns it away.
Receive(d, e) ==
    /\ wh[d].pc = "idle"
    /\ \/ wh' = [wh EXCEPT ![d].pc = "dup_check", ![d].event = e]
       \/ Return(d, "error")
    /\ UNCHANGED <<storeVars, inbox, book, posted>>

\* Any row with this key, whatever its status, counts as already processed.
CheckDuplicate(d) ==
    /\ wh[d].pc = "dup_check"
    /\ IF inbox[wh[d].event] = "absent"
       THEN wh' = [wh EXCEPT ![d].pc = "lookup"]
       ELSE Return(d, "nil")
    /\ UNCHANGED <<storeVars, inbox, book, posted>>

\* The payment whose psp_payment_id the payload names, if there is one yet.
LookUp(d) ==
    LET e == wh[d].event
    IN  /\ wh[d].pc = "lookup"
        /\ wh' = [wh EXCEPT ![d].pc = "insert",
                    ![d].payment = IF rows[e.payment].pspId = e.pspId
                                   THEN e.payment ELSE Unmatched]
        /\ UNCHANGED <<storeVars, inbox, book, posted>>

\* Only ErrNoRows is told apart: on any other error the ID stays "" as well.
LookUpFails(d) ==
    /\ wh[d].pc = "lookup"
    /\ wh' = [wh EXCEPT ![d].pc = "insert", ![d].payment = Unmatched]
    /\ UNCHANGED <<storeVars, inbox, book, posted>>

\* The UNIQUE constraint on idempotency_key lets one delivery through.
InsertEvent(d) ==
    LET e == wh[d].event
    IN  /\ wh[d].pc = "insert"
        /\ IF inbox[e] = "absent"
           THEN /\ inbox' = [inbox EXCEPT ![e] = "processing"]
                /\ wh' = [wh EXCEPT ![d].pc = "process", ![d].claimed = TRUE]
           ELSE Return(d, "error") /\ UNCHANGED inbox
        /\ UNCHANGED <<storeVars, book, posted>>

-----------------------------------------------------------------------------
(* The dispatch.  Each handler ends with its result in res. *)

Processed(d, result) == wh' = [wh EXCEPT ![d].pc = "finalize", ![d].res = result]

\* A handler that returns without a commit has written nothing.
NoWrites == UNCHANGED <<rows, trail, book, posted>>

Post(p, type, amount, debited, credited) ==
    /\ posted' = Append(posted, [payment |-> p, type |-> type, amount |-> amount])
    /\ book' = PostEntry(PostEntry(book, debited, amount, 0), credited, 0, amount)

\* Mutant: the payment is read without FOR UPDATE.
processCaptureWebhook_NoLock(d, p) ==
    /\ p # Unmatched
    /\ rows[p].status # "captured" /\ ValidateTransition(rows[p].status, "captured")
    /\ WriteRow(p, [rows[p] EXCEPT !.status = "captured"], rows[p].status, "webhook")
    /\ Post(p, "payment_capture", Amount[p], "PSP_SETTLEMENT", "MERCHANT_PAY")
    /\ Processed(d, "nil")

\* Mutant: a payment that is captured already is booked all the same.
processCaptureWebhook_BookAgain(d, p) ==
    /\ p # Unmatched
    /\ Free(p)
    /\ rows[p].status = "captured" \/ ValidateTransition(rows[p].status, "captured")
    /\ WriteRow(p, [rows[p] EXCEPT !.status = "captured"], rows[p].status, "webhook")
    /\ Post(p, "payment_capture", Amount[p], "PSP_SETTLEMENT", "MERCHANT_PAY")
    /\ Processed(d, "nil")

processCaptureWebhook(d, p) ==
    \/ /\ p = Unmatched
       /\ Processed(d, "error")
       /\ NoWrites
    \/ /\ p # Unmatched
       /\ Free(p)
       /\ IF rows[p].status = "captured"
          THEN Processed(d, "nil") /\ NoWrites
          ELSE IF ValidateTransition(rows[p].status, "captured")
          THEN /\ WriteRow(p, [rows[p] EXCEPT !.status = "captured"], rows[p].status, "webhook")
               /\ Post(p, "payment_capture", Amount[p], "PSP_SETTLEMENT", "MERCHANT_PAY")
               /\ Processed(d, "nil")
          ELSE Processed(d, "error") /\ NoWrites

processFailureWebhook(d, p) ==
    \/ /\ p = Unmatched
       /\ Processed(d, "nil")
       /\ NoWrites
    \/ /\ p # Unmatched
       /\ Free(p)
       /\ IF IsTerminal(rows[p].status)
          THEN Processed(d, "nil") /\ NoWrites
          ELSE IF ValidateTransition(rows[p].status, "failed")
          THEN /\ WriteRow(p, [rows[p] EXCEPT !.status = "failed"], rows[p].status, "webhook")
               /\ Processed(d, "nil")
               /\ UNCHANGED <<book, posted>>
          ELSE Processed(d, "error") /\ NoWrites

\* Mutant: the books are written whether or not the transition is allowed.
processRefundWebhook_BookFirst(d, p, amount) ==
    /\ p # Unmatched
    /\ amount > 0
    /\ Free(p)
    /\ LET newStatus == IF amount < Amount[p] THEN "partially_refunded" ELSE "refunded"
       IN  IF ValidateTransition(rows[p].status, newStatus)
           THEN WriteRow(p, [rows[p] EXCEPT !.status = newStatus], rows[p].status, "webhook")
           ELSE UNCHANGED <<rows, trail>>
    /\ Post(p, "refund", amount, "MERCHANT_PAY", "REFUND_EXP")
    /\ Processed(d, "nil")

\* The new status compares this refund alone with the amount of the payment;
\* total_refunded is neither read nor written.
processRefundWebhook(d, p, amount) ==
    \/ /\ p = Unmatched
       /\ Processed(d, "nil")
       /\ NoWrites
    \/ /\ p # Unmatched
       /\ amount <= 0
       /\ Processed(d, "error")
       /\ NoWrites
    \/ /\ p # Unmatched
       /\ amount > 0
       /\ Free(p)
       /\ LET newStatus == IF amount < Amount[p] THEN "partially_refunded" ELSE "refunded"
          IN  IF ValidateTransition(rows[p].status, newStatus)
              THEN /\ WriteRow(p, [rows[p] EXCEPT !.status = newStatus], rows[p].status, "webhook")
                   /\ Post(p, "refund", amount, "MERCHANT_PAY", "REFUND_EXP")
                   /\ Processed(d, "nil")
              ELSE Processed(d, "error") /\ NoWrites

Dispatch(d) ==
    LET e == wh[d].event
        p == wh[d].payment
    IN  /\ wh[d].pc = "process"
        /\ \/ e.type = "capture" /\ processCaptureWebhook(d, p)
           \/ e.type = "failure" /\ processFailureWebhook(d, p)
           \/ e.type = "refund" /\ processRefundWebhook(d, p, e.amount)
           \/ e.type = "other" /\ Processed(d, "nil") /\ NoWrites
        /\ UNCHANGED <<rowLock, inbox>>

\* The dispatch transaction fails in the database and rolls back.
DispatchFails(d) ==
    /\ wh[d].pc = "process"
    /\ Processed(d, "error")
    /\ NoWrites
    /\ UNCHANGED <<rowLock, inbox>>

\* Mutant: a status that the CHECK constraint does not list.
Finalize_Unlisted(d) ==
    /\ wh[d].pc = "finalize"
    /\ inbox' = [inbox EXCEPT ![wh[d].event] = IF wh[d].res = "error" THEN "retrying" ELSE "processed"]
    /\ Return(d, wh[d].res)
    /\ UNCHANGED <<storeVars, book, posted>>

\* An error of this UPDATE is only logged: the row then stays in processing.
Finalize(d) ==
    /\ wh[d].pc = "finalize"
    /\ \/ inbox' = [inbox EXCEPT ![wh[d].event] =
                      IF wh[d].res = "error" THEN "failed" ELSE "processed"]
       \/ UNCHANGED inbox
    /\ Return(d, wh[d].res)
    /\ UNCHANGED <<storeVars, book, posted>>

\* The process stops, or the context of the call is cancelled, at a label.
WebhookCrash(d) ==
    /\ wh[d].pc \in WebhookActive
    /\ Return(d, "error")
    /\ UNCHANGED <<storeVars, inbox, book, posted>>

WebhookProceed(d) ==
    \/ CheckDuplicate(d) \/ LookUp(d) \/ InsertEvent(d) \/ Dispatch(d) \/ Finalize(d)

\* What the environment can do to a delivery at any of its labels.
WebhookFault(d) == LookUpFails(d) \/ DispatchFails(d) \/ WebhookCrash(d)

-----------------------------------------------------------------------------
(* Properties *)

\* The deliveries, the events table and the books have their types.
WebhookTypeOK ==
    /\ wh \in [Deliveries -> [pc : WebhookActive \cup {"idle", "done"}, event : Events \cup {NoEvent},
                              payment : Payments \cup {Unmatched}, claimed : BOOLEAN,
                              res : {"none", "nil", "error"}]]
    /\ inbox \in [Events -> {"absent", "processing", "processed", "failed"}]
    /\ book \in [balance : [Accounts -> Int],
                 entries : [Accounts -> Seq([debit : Nat, credit : Nat, running : Int])]]
    /\ posted \in Seq([payment : Payments, type : {"payment_capture", "refund"}, amount : Nat])

\* However often an event is delivered, and however the deliveries interleave
\* between the duplicate check and the insert, one delivery processes it.
EventClaimedOnce ==
    \A c, d \in Deliveries :
        wh[c].claimed /\ wh[d].claimed /\ wh[c].event = wh[d].event => c = d

\* The trial balance of the accounts the webhooks post to: what the PSP owes
\* plus refund expense is what the merchants are owed.
TrialBalance ==
    book.balance["PSP_SETTLEMENT"] + book.balance["REFUND_EXP"] = book.balance["MERCHANT_PAY"]

\* At most one payment_capture transaction is ever booked for a payment,
\* however many capture events, redeliveries and API captures there are.
CaptureBookedOnce ==
    \A i, j \in DOMAIN posted :
        /\ posted[i].type = "payment_capture" /\ posted[j].type = "payment_capture"
        /\ posted[i].payment = posted[j].payment
        => i = j

-----------------------------------------------------------------------------
(* What the repository says and the code does not do. *)

\* A delivery that ends with nil as a duplicate repeats an event that was
\* processed: it does not hide one whose processing failed.
DuplicateWasProcessed ==
    \A d \in Deliveries :
        wh[d].pc = "done" /\ wh[d].res = "nil" /\ ~wh[d].claimed => inbox[wh[d].event] # "failed"

=============================================================================
