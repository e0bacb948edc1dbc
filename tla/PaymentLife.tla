----------------------------- MODULE PaymentLife -----------------------------
(***************************************************************************)
(* What the two services promise together: the life of a payment as one    *)
(* atomic step per change of its status.  Whatever they do concurrently,   *)
(* nobody ever sees a refund that takes the status back, a total that      *)
(* shrinks or exceeds the amount, or a ledger transaction without the step *)
(* of the payment that it stands for.                                      *)
(***************************************************************************)
EXTENDS PaymentStatus, Naturals, Sequences

CONSTANTS
    Payments,
    Amount,     \* Amount[p]: the amount of p
    Reported    \* the amounts of the refunds that the PSP may report

VARIABLES
    payment,    \* payment[p]: its status and what was refunded of it
    ledger      \* the ledger transactions, in order

vars == <<payment, ledger>>

Init ==
    /\ payment = [p \in Payments |-> [status |-> NoStatus, refunded |-> 0]]
    /\ ledger = <<>>

Goes(p, s, total) ==
    /\ payment[p].status \in Status
    /\ ValidateTransition(payment[p].status, s)
    /\ payment' = [payment EXCEPT ![p] = [status |-> s, refunded |-> total]]

AfterRefund(p, n) == IF n >= Amount[p] THEN "refunded" ELSE "partially_refunded"

Create(p) ==
    /\ payment[p].status = NoStatus
    /\ payment' = [payment EXCEPT ![p].status = "created"]
    /\ UNCHANGED ledger

\* An answer of the PSP, or a failure it reports.
Move(p, s) ==
    /\ s \notin {"partially_refunded", "refunded"}
    /\ Goes(p, s, payment[p].refunded)
    /\ UNCHANGED ledger

\* A refund that was asked for counts towards the total, which never exceeds the amount.
Refund(p, n) ==
    LET total == payment[p].refunded + n
    IN  /\ total <= Amount[p]
        /\ Goes(p, AfterRefund(p, total), total)
        /\ UNCHANGED ledger

\* A capture or a refund that the PSP reports is booked in the same step.
ReportCapture(p) ==
    /\ Goes(p, "captured", payment[p].refunded)
    /\ ledger' = Append(ledger, [payment |-> p, type |-> "payment_capture", amount |-> Amount[p]])

ReportRefund(p, n) ==
    /\ n > 0
    /\ Goes(p, AfterRefund(p, n), payment[p].refunded)
    /\ ledger' = Append(ledger, [payment |-> p, type |-> "refund", amount |-> n])

Next ==
    \E p \in Payments :
        \/ Create(p)
        \/ \E s \in Status : Move(p, s)
        \/ \E n \in 1 .. Amount[p] : Refund(p, n)
        \/ ReportCapture(p)
        \/ \E n \in Reported : ReportRefund(p, n)

Spec == Init /\ [][Next]_vars

=============================================================================
