---------------------------- MODULE PaymentStore ----------------------------
(***************************************************************************)
(* The rows of PostgreSQL that the payment service and the webhook service *)
(* share: payments, payment_state_transitions, and the row lock that       *)
(* SELECT ... FOR UPDATE takes on a payment until its transaction ends.    *)
(*                                                                         *)
(* A row keeps the three columns the control flow depends on.  pspId is    *)
(* the number of the PSP attempt that was accepted; NullPspId is NULL.     *)
(***************************************************************************)
EXTENDS PaymentStatus, Integers, Sequences

CONSTANTS
    Payments,   \* the payments clients may create
    Amount,     \* Amount[p]: the amount of p, in minor units
    NoOwner     \* the value of the lock of a row that no one holds

ASSUME AmountAssumption == Amount \in [Payments -> Nat \ {0}]

VARIABLES
    rows,       \* table payments
    trail,      \* table payment_state_transitions, per payment, commit order
    rowLock     \* holder of the FOR UPDATE lock on each payment

storeVars == <<rows, trail, rowLock>>

NullPspId == 0

NoRow == [status |-> NoStatus, pspId |-> NullPspId, totalRefunded |-> 0]

Triggers == {"system", "api", "webhook"}

StoreInit ==
    /\ rows = [p \in Payments |-> NoRow]
    /\ trail = [p \in Payments |-> <<>>]
    /\ rowLock = [p \in Payments |-> NoOwner]

Exists(p) == rows[p].status # NoStatus

\* A row loads into models.Payment only when psp_payment_id is not NULL: the
\* scan of a NULL into a Go string is an error, which the callers return.
Loads(p) == Exists(p) /\ rows[p].pspId # NullPspId

\* A statement that locks or updates the row of p waits until this holds.
Free(p) == rowLock[p] = NoOwner

\* One transaction: the row gets its new columns and the step is recorded.
WriteRow(p, row, from, by) ==
    /\ rows' = [rows EXCEPT ![p] = row]
    /\ trail' = [trail EXCEPT ![p] =
                    Append(@, [from |-> from, to |-> row.status, by |-> by])]

-----------------------------------------------------------------------------
(* Properties of the shared rows, whoever writes them. *)

StoreTypeOK ==
    /\ rows \in [Payments -> [status : Status \cup {NoStatus}, pspId : Nat, totalRefunded : Nat]]
    /\ trail \in [Payments -> Seq([from : Status \cup {NoStatus}, to : Status, by : Triggers])]

\* The audit trail of a payment starts with its creation, each record takes
\* up where the one before it ended, by a transition the table allows, and
\* the last one ends in the status of the row: no writer, API or webhook,
\* slips in a step of its own between another's read and write.
SoundTrail(t, status) ==
    /\ t = <<>> <=> status = NoStatus
    /\ t # <<>> => /\ t[1].from = NoStatus /\ t[1].to = "created"
                   /\ t[Len(t)].to = status
    /\ \A i \in 2 .. Len(t) : /\ t[i].from = t[i - 1].to
                              /\ ValidateTransition(t[i].from, t[i].to)

TrailSound == \A p \in Payments : SoundTrail(trail[p], rows[p].status)

\* No step takes back a refund, exceeds the amount, or replaces a PSP id.
RowStep(p) ==
    /\ rows[p].totalRefunded <= rows'[p].totalRefunded
    /\ rows'[p].totalRefunded <= Amount[p]
    /\ rows[p].pspId # NullPspId => rows'[p].pspId = rows[p].pspId

=============================================================================
