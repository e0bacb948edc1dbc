--------------------------- MODULE Reconciliation ---------------------------
(***************************************************************************)
(* RunBatchReconciliation against payments that keep moving: a batch reads *)
(* the rows of a day in one SELECT, then asks the PSP about one payment at *)
(* a time, and writes what does not agree.                                 *)
(***************************************************************************)
EXTENDS PaymentStatus, Adapters, Naturals, FiniteSets

CONSTANTS
    Payments,     \* payments of the day that have a PSP id
    Batches,      \* calls of RunBatchReconciliation
    Amount,       \* Amount[p]: the amount in the row
    PspAmount,    \* PspAmount[p]: the amount the PSP knows
    Unknown,      \* payments the PSP does not know
    MaxFaults     \* bound on errors, cancelled contexts and crashes

ASSUME AmountAssumption ==
    /\ Amount \in [Payments -> Nat \ {0}]
    /\ PspAmount \in [Payments -> Nat]
    /\ Unknown \subseteq Payments
ASSUME FaultsAssumption == MaxFaults \in Nat
ASSUME PaymentsAssumption == IsFiniteSet(Payments)

VARIABLES
    row,        \* row[p]: payments.status
    world,      \* world[p]: what has happened to the payment at the PSP; created until it is confirmed
    batch,      \* batch[b]: program counter, rows read, payments to check, counters
    record,     \* record[b]: reconciliation_records.status
    report,     \* report[b]: rows of reconciliation_discrepancies
    apart,      \* apart[b]: payments whose row was not up to date at the SELECT
    moved,      \* moved[b]: payments that moved at the PSP since the SELECT
    faults      \* faults so far

payVars == <<row, world>>
runVars == <<batch, record, report>>
history == <<apart, moved>>
vars == <<row, world, batch, record, report, apart, moved, faults>>

Discrepancies == {"missing_in_psp", "amount_mismatch", "status_mismatch"}

NotRead == [p \in {} |-> NoStatus]

Idle == [pc |-> "idle", read |-> NotRead, todo |-> {}, matched |-> {}, discrepancies |-> 0,
         unwritten |-> {}, cancelled |-> FALSE]

Init ==
    /\ row = [p \in Payments |-> "authorized"]
    /\ world \in [Payments -> {CreatedAs, "authorized"}]
    /\ \A p \in Unknown : world[p] = "authorized"
    /\ batch = [b \in Batches |-> Idle]
    /\ record = [b \in Batches |-> "none"]
    /\ report = [b \in Batches |-> {}]
    /\ apart = [b \in Batches |-> {}]
    /\ moved = [b \in Batches |-> {}]
    /\ faults = 0

-----------------------------------------------------------------------------

normalizePSPStatus(raw) ==
    CASE Psp = "stripe" /\ raw = "requires_capture" -> "authorized"
      [] Psp = "stripe" /\ raw = "succeeded" -> "captured"
      [] Psp = "stripe" /\ raw = "canceled" -> "cancelled"
      [] OTHER -> raw

Fault == faults < MaxFaults /\ faults' = faults + 1

\* A customer confirms a payment or fails to; then the state machine says how it goes on.
Moves == [validTransitions EXCEPT !["created"] = {"authorized", "failed"}]

\* A handler or the customer moves the payment at the PSP; the row follows, or the update is lost.
PspMoves(p) ==
    /\ p \notin Unknown
    /\ row[p] = world[p] \/ world[p] = "created"
    /\ \E s \in Moves[world[p]] \ {world[p]} : world' = [world EXCEPT ![p] = s]
    /\ moved' = [b \in Batches |-> moved[b] \cup {p}]
    /\ UNCHANGED <<row, runVars, apart, faults>>

RowFollows(p) ==
    /\ row[p] # world[p] /\ world[p] # "created"
    /\ row' = [row EXCEPT ![p] = world[p]]
    /\ UNCHANGED <<world, runVars, history, faults>>

-----------------------------------------------------------------------------

\* The INSERT of the record; an unknown PSP or an error leaves nothing behind.
Open(b) ==
    /\ batch[b].pc = "idle"
    /\ \/ /\ batch' = [batch EXCEPT ![b].pc = "select"]
          /\ record' = [record EXCEPT ![b] = "in_progress"]
       \/ /\ batch' = [batch EXCEPT ![b].pc = "done"]
          /\ UNCHANGED record
    /\ UNCHANGED <<payVars, report, history, faults>>

Select(b) ==
    /\ batch[b].pc = "select" /\ ~batch[b].cancelled
    /\ batch' = [batch EXCEPT ![b].pc = "check", ![b].read = row, ![b].todo = Payments]
    /\ apart' = [apart EXCEPT ![b] = {p \in Payments : row[p] # world[p]}]
    /\ moved' = [moved EXCEPT ![b] = {}]
    /\ UNCHANGED <<payVars, record, report, faults>>

\* markFailed, whose own error is only logged.
SelectFails(b) ==
    /\ batch[b].pc = "select"
    /\ IF batch[b].cancelled
       THEN UNCHANGED <<record, faults>>
       ELSE /\ Fault
            /\ record' = [record EXCEPT ![b] = "failed"]
    /\ batch' = [batch EXCEPT ![b].pc = "done"]
    /\ UNCHANGED <<payVars, report, history>>

\* Mutant: A discrepancy is written with the status for its type.
Report_Untyped(b, p, kind, written) ==
    /\ batch' = [batch EXCEPT ![b].todo = @ \ {p}, ![b].discrepancies = @ + 1,
                              ![b].unwritten = IF written THEN @ ELSE @ \cup {p}]
    /\ report' = IF written
                 THEN [report EXCEPT ![b] = @ \cup {[payment |-> p, type |-> batch[b].read[p]]}]
                 ELSE report

\* insertDiscrepancy, whose error is only logged; the counter goes up all the same.
Report(b, p, kind, written) ==
    /\ batch' = [batch EXCEPT ![b].todo = @ \ {p}, ![b].discrepancies = @ + 1,
                              ![b].unwritten = IF written THEN @ ELSE @ \cup {p}]
    /\ report' = IF written
                 THEN [report EXCEPT ![b] = @ \cup {[payment |-> p, type |-> kind]}]
                 ELSE report

Match(b, p) ==
    /\ batch' = [batch EXCEPT ![b].todo = @ \ {p}, ![b].matched = @ \cup {p}]
    /\ UNCHANGED report

\* Mutant: The status is compared as the PSP calls it.
Compare_Raw(b, p, written) ==
    IF p \in Unknown
    THEN Report(b, p, "missing_in_psp", written)
    ELSE IF ReportedAmount(PspAmount[p]) \notin {0, Amount[p]}
    THEN Report(b, p, "amount_mismatch", written)
    ELSE IF GetPaymentStatus(world[p]) # batch[b].read[p]
    THEN Report(b, p, "status_mismatch", written)
    ELSE Match(b, p)

\* Mutant: The PSP's status is compared with the row as it is by now, not as it was read.
Compare_Reread(b, p, written) ==
    IF p \in Unknown
    THEN Report(b, p, "missing_in_psp", written)
    ELSE IF ReportedAmount(PspAmount[p]) \notin {0, Amount[p]}
    THEN Report(b, p, "amount_mismatch", written)
    ELSE IF normalizePSPStatus(GetPaymentStatus(world[p])) # row[p]
    THEN Report(b, p, "status_mismatch", written)
    ELSE Match(b, p)

\* GetPaymentStatus, the comparisons, and the INSERT of what does not agree.
Compare(b, p, written) ==
    IF p \in Unknown
    THEN Report(b, p, "missing_in_psp", written)
    ELSE IF ReportedAmount(PspAmount[p]) \notin {0, Amount[p]}
    THEN Report(b, p, "amount_mismatch", written)
    ELSE IF normalizePSPStatus(GetPaymentStatus(world[p])) # batch[b].read[p]
    THEN Report(b, p, "status_mismatch", written)
    ELSE Match(b, p)

Check(b, p) ==
    /\ batch[b].pc = "check" /\ p \in batch[b].todo
    /\ Compare(b, p, ~batch[b].cancelled)
    /\ UNCHANGED <<payVars, record, history, faults>>

\* The INSERT fails.
CheckUnwritten(b, p) ==
    /\ batch[b].pc = "check" /\ p \in batch[b].todo
    /\ Fault
    /\ Compare(b, p, FALSE)
    /\ UNCHANGED <<payVars, record, history>>

\* GetPaymentStatus returns another error than that the PSP has no such payment.
CheckFails(b, p) ==
    /\ batch[b].pc = "check" /\ p \in batch[b].todo
    /\ Fault
    /\ Report(b, p, "missing_in_psp", ~batch[b].cancelled)
    /\ UNCHANGED <<payVars, record, history>>

Finalize(b) ==
    /\ batch[b].pc = "check" /\ batch[b].todo = {}
    /\ batch' = [batch EXCEPT ![b].pc = "done"]
    /\ record' = IF batch[b].cancelled THEN record ELSE [record EXCEPT ![b] = "completed"]
    /\ UNCHANGED <<payVars, report, history, faults>>

\* The UPDATE fails, or the process stops: nobody marks the record.
Stop(b) ==
    /\ batch[b].pc \in {"select", "check"}
    /\ Fault
    /\ batch' = [batch EXCEPT ![b].pc = "done"]
    /\ UNCHANGED <<payVars, record, report, history>>

\* The 30 seconds of the request are over, or the client is gone: the database refuses every further
\* statement, while the adapters ignore their context.
Cancel(b) ==
    /\ batch[b].pc \in {"select", "check"} /\ ~batch[b].cancelled
    /\ Fault
    /\ batch' = [batch EXCEPT ![b].cancelled = TRUE]
    /\ UNCHANGED <<payVars, record, report, history>>

BatchStep(b) ==
    \/ Open(b) \/ Select(b) \/ SelectFails(b) \/ Finalize(b) \/ Stop(b) \/ Cancel(b)
    \/ \E p \in Payments : Check(b, p) \/ CheckUnwritten(b, p) \/ CheckFails(b, p)

Next ==
    \/ \E p \in Payments : PspMoves(p) \/ RowFollows(p)
    \/ \E b \in Batches : BatchStep(b)

Spec == Init /\ [][Next]_vars

-----------------------------------------------------------------------------

\* Every part of the state has its type.
TypeOK ==
    /\ row \in [Payments -> Status]
    /\ world \in [Payments -> Status]
    /\ \A b \in Batches :
        /\ batch[b].pc \in {"idle", "select", "check", "done"}
        /\ batch[b].read \in {NotRead} \cup [Payments -> Status]
        /\ batch[b].todo \subseteq Payments /\ batch[b].matched \subseteq Payments
        /\ batch[b].discrepancies \in 0..Cardinality(Payments)
        /\ batch[b].unwritten \subseteq Payments /\ batch[b].cancelled \in BOOLEAN
        /\ record[b] \in {"none", "in_progress", "completed", "failed"}
        /\ report[b] \subseteq [payment : Payments, type : Discrepancies]
        /\ apart[b] \subseteq Payments /\ moved[b] \subseteq Payments
    /\ faults \in 0..MaxFaults

Reported(b) == {d.payment : d \in report[b]}

\* A status at the PSP that the code does not map back to the payment's own.
Unmapped(s) == normalizePSPStatus(GetPaymentStatus(s)) # s

\* A batch does not accuse a payment that stands still and agrees, in a status that is mapped.
AccusedForAReason ==
    \A b \in Batches, p \in Payments :
        [payment |-> p, type |-> "status_mismatch"] \in report[b] =>
            p \in apart[b] \cup moved[b] \/ Unmapped(batch[b].read[p])

\* A capture that the PSP has carried out and the row did not know at the SELECT is found, unless
\* its INSERT fails.
LostCaptureFound ==
    \A b \in Batches, p \in Payments :
        /\ record[b] = "completed"
        /\ p \in apart[b] \ moved[b]
        /\ batch[b].read[p] = "authorized" /\ world[p] = "captured"
        => p \in Reported(b) \cup batch[b].unwritten

=============================================================================
