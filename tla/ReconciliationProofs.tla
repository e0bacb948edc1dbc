------------------------ MODULE ReconciliationProofs ------------------------
(***************************************************************************)
(* Proofs about Reconciliation for any number of payments, batches and     *)
(* faults, and for each of the adapters.                                   *)
(*                                                                         *)
(* The inductive invariant IInv says what the local state of a batch means *)
(* for the payments (Good): its snapshot shows what was true at the PSP,   *)
(* of a payment that was up to date and has not moved since; a payment it  *)
(* matched and that has not moved since still matches; and every payment   *)
(* of the snapshot is still to check, matched, reported or unwritten.      *)
(***************************************************************************)
EXTENDS Reconciliation, FiniteSetTheorems, TLAPS

Snapshots == [Payments -> Status]

BatchRecord ==
    [pc : {"idle", "select", "check", "done"}, read : {NotRead} \cup Snapshots,
     todo : SUBSET Payments, matched : SUBSET Payments, discrepancies : Nat,
     unwritten : SUBSET Payments, cancelled : BOOLEAN]

RecordStatus == {"none", "in_progress", "completed", "failed"}

Found == [payment : Payments, type : Discrepancies]

Types ==
    /\ row \in Snapshots /\ world \in Snapshots
    /\ batch \in [Batches -> BatchRecord]
    /\ record \in [Batches -> RecordStatus]
    /\ report \in [Batches -> SUBSET Found]
    /\ apart \in [Batches -> SUBSET Payments]
    /\ moved \in [Batches -> SUBSET Payments]
    /\ faults \in 0 .. MaxFaults

\* A batch that has not read the rows has found nothing.
Fresh(k, rec, rep) ==
    /\ k.todo = {} /\ k.matched = {} /\ k.unwritten = {} /\ k.discrepancies = 0
    /\ rep = {} /\ rec # "completed"

\* The payments a batch is done with.
Handled(k, rep) == k.matched \cup k.unwritten \cup {d.payment : d \in rep}

\* What batch k, its record and its report mean while the payments at the PSP are as in w.
Good(w, k, rec, rep, ap, mv) ==
    /\ k.pc \in {"idle", "select"} => Fresh(k, rec, rep)
    /\ k.pc = "check" =>
         k.read \in Snapshots /\ rec # "completed" /\ Payments = k.todo \cup Handled(k, rep)
    /\ rec = "completed" => Payments = Handled(k, rep)
    /\ \A p \in Payments :
        /\ k.read \in Snapshots /\ p \notin ap \cup mv => w[p] = k.read[p]
        /\ p \in k.matched \ mv => normalizePSPStatus(GetPaymentStatus(w[p])) = k.read[p]
        /\ [payment |-> p, type |-> "status_mismatch"] \in rep =>
             p \in ap \cup mv \/ Unmapped(k.read[p])
    /\ k.discrepancies + Cardinality(k.todo) <= Cardinality(Payments)

BatchInv == \A b \in Batches : Good(world, batch[b], record[b], report[b], apart[b], moved[b])

IInv == Types /\ BatchInv

-----------------------------------------------------------------------------
(* Lemmas.                                                                  *)

\* The cardinalities behind the counter of discrepancies.
LEMMA TodoCount ==
    ASSUME NEW S, S \subseteq Payments
    PROVE  /\ Cardinality(S) \in Nat /\ Cardinality(S) <= Cardinality(Payments)
           /\ \A p \in S : Cardinality(S \ {p}) = Cardinality(S) - 1
<1>1. IsFiniteSet(S)
  BY PaymentsAssumption, FS_Subset
<1>2. Cardinality(S) \in Nat
  BY <1>1, FS_CardinalityType
<1>3. Cardinality(S) <= Cardinality(Payments)
  BY PaymentsAssumption, FS_Subset
<1>4. \A p \in S : Cardinality(S \ {p}) = Cardinality(S) - 1
  BY <1>1, FS_RemoveElement
<1> QED
  BY <1>2, <1>3, <1>4

\* The statuses and moves of the PSP stay in the state machine.
LEMMA MovesInStatus ==
    ASSUME NEW s \in Status
    PROVE  Moves[s] \subseteq Status
BY DEF Moves, validTransitions, Status

\* No adapter reports a captured payment in a way that reads as authorized.
LEMMA CapturedIsSeen == normalizePSPStatus(GetPaymentStatus("captured")) # "authorized"
BY PspAssumption DEF normalizePSPStatus, GetPaymentStatus, MockStatus, StripeStatus, RazorpayStatus

\* The invariant implies the properties.
LEMMA IInvTypeOK == IInv => TypeOK
<1> SUFFICES ASSUME IInv PROVE TypeOK
  OBVIOUS
<1>1. ASSUME NEW b \in Batches
      PROVE  /\ batch[b] \in BatchRecord /\ batch[b].discrepancies \in 0..Cardinality(Payments)
             /\ record[b] \in RecordStatus /\ report[b] \subseteq Found
             /\ apart[b] \subseteq Payments /\ moved[b] \subseteq Payments
  <2>1. batch[b] \in BatchRecord
    BY DEF IInv, Types
  <2>2. batch[b].todo \subseteq Payments /\ batch[b].discrepancies \in Nat
    BY <2>1 DEF BatchRecord
  <2>3. batch[b].discrepancies + Cardinality(batch[b].todo) <= Cardinality(Payments)
    BY DEF IInv, BatchInv, Good
  <2>4. Cardinality(batch[b].todo) \in Nat /\ Cardinality(Payments) \in Nat
    BY <2>2, TodoCount
  <2>5. batch[b].discrepancies \in 0..Cardinality(Payments)
    BY <2>2, <2>3, <2>4
  <2> QED
    BY <2>1, <2>5 DEF IInv, Types
<1>2. /\ row \in [Payments -> Status] /\ world \in [Payments -> Status]
      /\ faults \in 0..MaxFaults
  BY DEF IInv, Types, Snapshots
<1> QED
  BY <1>1, <1>2 DEF TypeOK, BatchRecord, RecordStatus, Found, Snapshots

LEMMA IInvAccused == IInv => AccusedForAReason
BY DEF IInv, BatchInv, Good, AccusedForAReason

LEMMA IInvFound == IInv => LostCaptureFound
<1> SUFFICES ASSUME IInv, NEW b \in Batches, NEW p \in Payments,
                    record[b] = "completed", p \in apart[b] \ moved[b],
                    batch[b].read[p] = "authorized", world[p] = "captured",
                    p \notin Reported(b) \cup batch[b].unwritten
             PROVE  FALSE
  BY DEF LostCaptureFound
<1>1. Good(world, batch[b], record[b], report[b], apart[b], moved[b])
  BY DEF IInv, BatchInv
<1>2. p \in batch[b].matched
  BY <1>1 DEF Good, Handled, Reported
<1>3. normalizePSPStatus(GetPaymentStatus("captured")) = "authorized"
  BY <1>1, <1>2 DEF Good
<1> QED
  BY <1>3, CapturedIsSeen

-----------------------------------------------------------------------------
(* Steps.                                                                   *)

\* Batch b becomes v, and its record, report and history go with it.
BatchBecomes(b, v, rec, rep, ap, mv) ==
    /\ v \in BatchRecord /\ rec \in RecordStatus /\ rep \subseteq Found
    /\ ap \subseteq Payments /\ mv \subseteq Payments
    /\ batch' = [batch EXCEPT ![b] = v]
    /\ record' = [record EXCEPT ![b] = rec]
    /\ report' = [report EXCEPT ![b] = rep]
    /\ apart' = [apart EXCEPT ![b] = ap]
    /\ moved' = [moved EXCEPT ![b] = mv]
    /\ Good(world, v, rec, rep, ap, mv)
    /\ UNCHANGED payVars
    /\ faults' \in 0 .. MaxFaults

LEMMA BatchKeeps ==
    ASSUME IInv, NEW b \in Batches, NEW v, NEW rec, NEW rep, NEW ap, NEW mv,
           BatchBecomes(b, v, rec, rep, ap, mv)
    PROVE  IInv'
<1>1. Types'
  BY DEF IInv, Types, BatchBecomes, payVars
<1>2. ASSUME NEW q \in Batches
      PROVE  Good(world', batch'[q], record'[q], report'[q], apart'[q], moved'[q])
  <2>0. world' = world
    BY DEF BatchBecomes, payVars
  <2>1. CASE q = b
    <3>1. /\ batch'[q] = v /\ record'[q] = rec /\ report'[q] = rep
          /\ apart'[q] = ap /\ moved'[q] = mv
      BY <2>1 DEF IInv, Types, BatchBecomes
    <3> QED
      BY <2>0, <3>1 DEF BatchBecomes
  <2>2. CASE q # b
    <3>1. /\ batch'[q] = batch[q] /\ record'[q] = record[q] /\ report'[q] = report[q]
          /\ apart'[q] = apart[q] /\ moved'[q] = moved[q]
      BY <2>2 DEF IInv, Types, BatchBecomes
    <3> QED
      BY <2>0, <3>1 DEF IInv, BatchInv
  <2> QED
    BY <2>1, <2>2
<1> QED
  BY <1>1, <1>2 DEF IInv, BatchInv

LEMMA FaultCounts ==
    ASSUME IInv, Fault \/ UNCHANGED faults
    PROVE  faults' \in 0 .. MaxFaults
BY FaultsAssumption DEF IInv, Types, Fault

LEMMA BatchFacts ==
    ASSUME IInv, NEW b \in Batches
    PROVE  /\ batch[b] \in BatchRecord /\ record[b] \in RecordStatus /\ report[b] \subseteq Found
           /\ apart[b] \subseteq Payments /\ moved[b] \subseteq Payments
           /\ Good(world, batch[b], record[b], report[b], apart[b], moved[b])
           /\ row \in Snapshots /\ world \in Snapshots
BY DEF IInv, Types, BatchInv

LEMMA InitInv == Init => IInv
<1> SUFFICES ASSUME Init PROVE IInv
  OBVIOUS
<1>1. Idle \in BatchRecord
  BY DEF Idle, BatchRecord
<1>2. row \in Snapshots /\ world \in Snapshots
  BY DEF Init, Snapshots, CreatedAs, Status
<1>3. Types
  <2>1. batch \in [Batches -> BatchRecord]
    BY <1>1 DEF Init
  <2>2. faults \in 0 .. MaxFaults
    BY FaultsAssumption DEF Init
  <2>3. /\ record \in [Batches -> RecordStatus] /\ report \in [Batches -> SUBSET Found]
        /\ apart \in [Batches -> SUBSET Payments] /\ moved \in [Batches -> SUBSET Payments]
    BY DEF Init, RecordStatus
  <2> QED
    BY <1>2, <2>1, <2>2, <2>3 DEF Types
<1>4. Cardinality({}) = 0 /\ Cardinality(Payments) \in Nat /\ Cardinality(Payments) >= 0
  BY TodoCount, FS_EmptySet
<1>5. NotRead \in Snapshots => Payments = {}
  BY DEF NotRead, Snapshots
<1>6. ASSUME NEW b \in Batches
      PROVE  Good(world, batch[b], record[b], report[b], apart[b], moved[b])
  <2>1. batch[b] = Idle /\ record[b] = "none" /\ report[b] = {}
    BY DEF Init
  <2> QED
    BY <2>1, <1>4, <1>5 DEF Idle, Good, Fresh
<1> QED
  BY <1>3, <1>6 DEF IInv, BatchInv

\* A move at the PSP is entered as such for every batch.
LEMMA PspMovesInv ==
    ASSUME IInv, NEW p \in Payments, PspMoves(p)
    PROVE  IInv'
<1>1. PICK s \in Moves[world[p]] : world' = [world EXCEPT ![p] = s]
  BY DEF PspMoves
<1>2. /\ moved' = [b \in Batches |-> moved[b] \cup {p}]
      /\ row' = row /\ batch' = batch /\ record' = record /\ report' = report
      /\ apart' = apart /\ faults' = faults
  BY DEF PspMoves, runVars
<1>3. world \in Snapshots /\ s \in Status
  BY <1>1, MovesInStatus DEF IInv, Types, Snapshots
<1>4. world' \in Snapshots /\ \A q \in Payments \ {p} : world'[q] = world[q]
  BY <1>1, <1>3 DEF Snapshots
<1>5. moved' \in [Batches -> SUBSET Payments] /\ \A b \in Batches : moved'[b] = moved[b] \cup {p}
  BY <1>2 DEF IInv, Types
<1>6. Types'
  BY <1>2, <1>4, <1>5 DEF IInv, Types
<1>7. ASSUME NEW b \in Batches
      PROVE  Good(world', batch[b], record[b], report[b], apart[b], moved'[b])
  BY <1>4, <1>5, BatchFacts DEF Good
<1> QED
  BY <1>2, <1>6, <1>7 DEF IInv, BatchInv

LEMMA RowFollowsInv ==
    ASSUME IInv, NEW p \in Payments, RowFollows(p)
    PROVE  IInv'
<1>1. row' = [row EXCEPT ![p] = world[p]]
  BY DEF RowFollows
<1>2. /\ world' = world /\ batch' = batch /\ record' = record /\ report' = report
      /\ apart' = apart /\ moved' = moved /\ faults' = faults
  BY DEF RowFollows, runVars, history
<1>3. row' \in Snapshots
  BY <1>1 DEF IInv, Types, Snapshots
<1> QED
  BY <1>2, <1>3 DEF IInv, Types, BatchInv

\* A batch goes on to its next place and leaves its findings alone.
LEMMA GoesOn ==
    ASSUME IInv, NEW b \in Batches, NEW to \in {"select", "done"}, NEW rec \in RecordStatus,
           batch' = [batch EXCEPT ![b].pc = to], record' = [record EXCEPT ![b] = rec],
           UNCHANGED <<payVars, report, history>>, Fault \/ UNCHANGED faults,
           to = "select" => batch[b].pc = "idle" /\ rec # "completed",
           rec = "completed" => rec = record[b] \/ (batch[b].pc = "check" /\ batch[b].todo = {})
    PROVE  IInv'
<1> DEFINE k == batch[b]
<1> DEFINE v == [k EXCEPT !.pc = to]
<1>1. /\ k \in BatchRecord
      /\ Good(world, k, record[b], report[b], apart[b], moved[b])
  BY BatchFacts
<1>2. /\ v \in BatchRecord /\ v.pc = to /\ v.read = k.read /\ v.todo = k.todo
      /\ v.matched = k.matched /\ v.discrepancies = k.discrepancies /\ v.unwritten = k.unwritten
  BY <1>1 DEF BatchRecord
<1>3. /\ batch' = [batch EXCEPT ![b] = v]
      /\ report' = [report EXCEPT ![b] = report[b]]
      /\ apart' = [apart EXCEPT ![b] = apart[b]]
      /\ moved' = [moved EXCEPT ![b] = moved[b]]
      /\ UNCHANGED payVars
  BY DEF IInv, Types, history
<1>4. faults' \in 0 .. MaxFaults
  BY FaultCounts
<1> HIDE DEF v
<1>5. Handled(v, report[b]) = Handled(k, report[b])
  BY <1>2 DEF Handled
<1>6. Good(world, v, rec, report[b], apart[b], moved[b])
  <2>1. v.pc \in {"idle", "select"} => Fresh(v, rec, report[b])
    BY <1>1, <1>2 DEF Good, Fresh
  <2>2. rec = "completed" => Payments = Handled(v, report[b])
    BY <1>1, <1>5 DEF Good
  <2>3. ASSUME NEW p \in Payments
        PROVE  /\ v.read \in Snapshots /\ p \notin apart[b] \cup moved[b] => world[p] = v.read[p]
               /\ p \in v.matched \ moved[b] =>
                    normalizePSPStatus(GetPaymentStatus(world[p])) = v.read[p]
               /\ [payment |-> p, type |-> "status_mismatch"] \in report[b] =>
                    p \in apart[b] \cup moved[b] \/ Unmapped(v.read[p])
    BY <1>1, <1>2 DEF Good
  <2>4. v.discrepancies + Cardinality(v.todo) <= Cardinality(Payments)
    BY <1>1, <1>2 DEF Good
  <2> QED
    BY <1>2, <2>1, <2>2, <2>3, <2>4 DEF Good
<1>7. BatchBecomes(b, v, rec, report[b], apart[b], moved[b])
  BY <1>2, <1>3, <1>4, <1>6, BatchFacts DEF BatchBecomes
<1> QED
  BY <1>7, BatchKeeps

LEMMA OpenInv ==
    ASSUME IInv, NEW b \in Batches, Open(b)
    PROVE  IInv'
<1>1. record = [record EXCEPT ![b] = record[b]] /\ record[b] \in RecordStatus
  BY BatchFacts DEF IInv, Types
<1>2. CASE batch' = [batch EXCEPT ![b].pc = "select"] /\ record' = [record EXCEPT ![b] = "in_progress"]
  BY <1>2, GoesOn DEF Open, RecordStatus
<1>3. CASE batch' = [batch EXCEPT ![b].pc = "done"] /\ UNCHANGED record
  BY <1>1, <1>3, GoesOn DEF Open
<1> QED
  BY <1>2, <1>3 DEF Open

\* The SELECT takes the snapshot, and notes what it shows late.
LEMMA SelectInv ==
    ASSUME IInv, NEW b \in Batches, Select(b)
    PROVE  IInv'
<1> DEFINE k == batch[b]
<1> DEFINE v == [k EXCEPT !.pc = "check", !.read = row, !.todo = Payments]
<1> DEFINE ap == {p \in Payments : row[p] # world[p]}
<1>1. /\ k \in BatchRecord /\ k.pc = "select" /\ row \in Snapshots
      /\ Good(world, k, record[b], report[b], apart[b], moved[b])
  BY BatchFacts DEF Select
<1>2. Fresh(k, record[b], report[b])
  BY <1>1 DEF Good
<1>3. /\ v \in BatchRecord /\ v.pc = "check" /\ v.read = row /\ v.todo = Payments
      /\ v.matched = {} /\ v.discrepancies = 0 /\ v.unwritten = {}
  BY <1>1, <1>2 DEF BatchRecord, Fresh
<1>4. /\ batch' = [batch EXCEPT ![b] = v]
      /\ record' = [record EXCEPT ![b] = record[b]]
      /\ report' = [report EXCEPT ![b] = report[b]]
      /\ apart' = [apart EXCEPT ![b] = ap]
      /\ moved' = [moved EXCEPT ![b] = {}]
      /\ UNCHANGED payVars
  BY DEF IInv, Types, Select
<1>5. faults' \in 0 .. MaxFaults
  BY FaultCounts DEF Select
<1>6. ap \subseteq Payments /\ \A p \in Payments : p \notin ap => world[p] = row[p]
  OBVIOUS
<1>7. Cardinality(Payments) \in Nat
  BY TodoCount
<1> HIDE DEF v, ap
<1>8. Good(world, v, record[b], report[b], ap, {})
  <2>1. Payments = v.todo \cup Handled(v, report[b])
    BY <1>2, <1>3 DEF Fresh, Handled
  <2>2. record[b] # "completed" /\ report[b] = {}
    BY <1>2 DEF Fresh
  <2> QED
    BY <1>1, <1>3, <1>6, <1>7, <2>1, <2>2 DEF Good
<1>9. BatchBecomes(b, v, record[b], report[b], ap, {})
  BY <1>3, <1>4, <1>5, <1>6, <1>8, BatchFacts DEF BatchBecomes
<1> QED
  BY <1>9, BatchKeeps

LEMMA SelectFailsInv ==
    ASSUME IInv, NEW b \in Batches, SelectFails(b)
    PROVE  IInv'
<1>1. record = [record EXCEPT ![b] = record[b]] /\ record[b] \in RecordStatus
  BY BatchFacts DEF IInv, Types
<1>2. CASE batch[b].cancelled
  BY <1>1, <1>2, GoesOn DEF SelectFails
<1>3. CASE ~batch[b].cancelled
  BY <1>3, GoesOn DEF SelectFails, RecordStatus
<1> QED
  BY <1>2, <1>3

LEMMA FinalizeInv ==
    ASSUME IInv, NEW b \in Batches, Finalize(b)
    PROVE  IInv'
<1>1. record = [record EXCEPT ![b] = record[b]] /\ record[b] \in RecordStatus
  BY BatchFacts DEF IInv, Types
<1>2. CASE batch[b].cancelled
  BY <1>1, <1>2, GoesOn DEF Finalize
<1>3. CASE ~batch[b].cancelled
  BY <1>3, GoesOn DEF Finalize, RecordStatus
<1> QED
  BY <1>2, <1>3

LEMMA StopInv ==
    ASSUME IInv, NEW b \in Batches, Stop(b)
    PROVE  IInv'
<1>1. record = [record EXCEPT ![b] = record[b]] /\ record[b] \in RecordStatus
  BY BatchFacts DEF IInv, Types
<1> QED
  BY <1>1, GoesOn DEF Stop

LEMMA CancelInv ==
    ASSUME IInv, NEW b \in Batches, Cancel(b)
    PROVE  IInv'
<1> DEFINE k == batch[b]
<1> DEFINE v == [k EXCEPT !.cancelled = TRUE]
<1>1. k \in BatchRecord /\ Good(world, k, record[b], report[b], apart[b], moved[b])
  BY BatchFacts
<1>2. /\ v \in BatchRecord /\ v.pc = k.pc /\ v.read = k.read /\ v.todo = k.todo
      /\ v.matched = k.matched /\ v.discrepancies = k.discrepancies /\ v.unwritten = k.unwritten
  BY <1>1 DEF BatchRecord
<1>3. /\ batch' = [batch EXCEPT ![b] = v]
      /\ record' = [record EXCEPT ![b] = record[b]]
      /\ report' = [report EXCEPT ![b] = report[b]]
      /\ apart' = [apart EXCEPT ![b] = apart[b]]
      /\ moved' = [moved EXCEPT ![b] = moved[b]]
      /\ UNCHANGED payVars
  BY DEF IInv, Types, Cancel, history
<1>4. faults' \in 0 .. MaxFaults
  BY FaultCounts DEF Cancel
<1> HIDE DEF v
<1>5. Good(world, v, record[b], report[b], apart[b], moved[b])
  BY <1>1, <1>2 DEF Good, Fresh, Handled
<1>6. BatchBecomes(b, v, record[b], report[b], apart[b], moved[b])
  BY <1>2, <1>3, <1>4, <1>5, BatchFacts DEF BatchBecomes
<1> QED
  BY <1>6, BatchKeeps

-----------------------------------------------------------------------------
(* The checks.                                                              *)

\* Batch b is done with payment p, and has written what rep says of it.
Ticks(b, p, rep, v) ==
    /\ v \in BatchRecord
    /\ v.pc = "check" /\ v.read = batch[b].read /\ v.todo = batch[b].todo \ {p}
    /\ batch' = [batch EXCEPT ![b] = v] /\ report' = [report EXCEPT ![b] = rep]
    /\ UNCHANGED <<payVars, record, history>>
    /\ Fault \/ UNCHANGED faults

\* A payment that is found at fault needs its reason, one that is matched must match.
LEMMA TickKeeps ==
    ASSUME IInv, NEW b \in Batches, NEW p \in batch[b].todo, NEW rep, NEW v, Ticks(b, p, rep, v),
           batch[b].pc = "check", rep \subseteq Found, report[b] \subseteq rep,
           \A d \in rep \ report[b] : d.payment = p /\
               (d.type = "status_mismatch" =>
                    normalizePSPStatus(GetPaymentStatus(world[p])) # batch[b].read[p]),
           batch[b].unwritten \subseteq v.unwritten, batch[b].matched \subseteq v.matched,
           \A q \in v.matched \ batch[b].matched :
               q = p /\ normalizePSPStatus(GetPaymentStatus(world[p])) = batch[b].read[p],
           p \in Handled(v, rep),
           v.discrepancies \in {batch[b].discrepancies, batch[b].discrepancies + 1}
    PROVE  IInv'
<1> DEFINE k == batch[b]
<1>1. /\ k \in BatchRecord /\ k.pc = "check" /\ k.todo \subseteq Payments /\ k.discrepancies \in Nat
      /\ Good(world, k, record[b], report[b], apart[b], moved[b])
  BY BatchFacts DEF BatchRecord
<1>2. /\ record' = [record EXCEPT ![b] = record[b]]
      /\ apart' = [apart EXCEPT ![b] = apart[b]]
      /\ moved' = [moved EXCEPT ![b] = moved[b]]
      /\ UNCHANGED payVars /\ faults' \in 0 .. MaxFaults
  BY FaultCounts DEF IInv, Types, Ticks, history
<1>3. Handled(k, report[b]) \subseteq Handled(v, rep)
  BY DEF Handled
<1>4. k.read \in Snapshots /\ record[b] # "completed" /\ Payments = k.todo \cup Handled(k, report[b])
  BY <1>1 DEF Good
<1>5. Payments = v.todo \cup Handled(v, rep)
  <2>1. v.matched \subseteq Payments /\ v.unwritten \subseteq Payments
    BY DEF Ticks, BatchRecord
  <2>2. \A d \in rep : d.payment \in Payments
    BY DEF Found
  <2>3. Handled(v, rep) \subseteq Payments
    BY <2>1, <2>2 DEF Handled
  <2> QED
    BY <1>1, <1>3, <1>4, <2>3 DEF Ticks
<1>6. v.discrepancies + Cardinality(v.todo) <= Cardinality(Payments)
  <2>1. /\ Cardinality(k.todo) \in Nat /\ Cardinality(Payments) \in Nat
        /\ Cardinality(k.todo \ {p}) = Cardinality(k.todo) - 1
    BY <1>1, TodoCount
  <2>2. k.discrepancies + Cardinality(k.todo) <= Cardinality(Payments)
    BY <1>1 DEF Good
  <2> QED
    BY <1>1, <2>1, <2>2 DEF Ticks
<1>7. ASSUME NEW q \in Payments
      PROVE  /\ q \notin apart[b] \cup moved[b] => world[q] = k.read[q]
             /\ q \in v.matched \ moved[b] =>
                  normalizePSPStatus(GetPaymentStatus(world[q])) = k.read[q]
             /\ [payment |-> q, type |-> "status_mismatch"] \in rep =>
                  q \in apart[b] \cup moved[b] \/ Unmapped(k.read[q])
  <2>1. /\ q \notin apart[b] \cup moved[b] => world[q] = k.read[q]
        /\ q \in k.matched \ moved[b] =>
             normalizePSPStatus(GetPaymentStatus(world[q])) = k.read[q]
        /\ [payment |-> q, type |-> "status_mismatch"] \in report[b] =>
             q \in apart[b] \cup moved[b] \/ Unmapped(k.read[q])
    BY <1>1, <1>4 DEF Good
  <2>2. q \in v.matched \ moved[b] =>
          normalizePSPStatus(GetPaymentStatus(world[q])) = k.read[q]
    BY <2>1
  <2>3. ASSUME [payment |-> q, type |-> "status_mismatch"] \in rep \ report[b],
               q \notin apart[b] \cup moved[b]
        PROVE  Unmapped(k.read[q])
    <3>1. q = p /\ normalizePSPStatus(GetPaymentStatus(world[p])) # k.read[p]
      BY <2>3
    <3> QED
      BY <2>1, <2>3, <3>1 DEF Unmapped
  <2> QED
    BY <2>1, <2>2, <2>3
<1>8. Good(world, v, record[b], rep, apart[b], moved[b])
  BY <1>4, <1>5, <1>6, <1>7 DEF Good, Ticks
<1>9. BatchBecomes(b, v, record[b], rep, apart[b], moved[b])
  BY <1>2, <1>8, BatchFacts DEF BatchBecomes, Ticks
<1> QED
  BY <1>9, BatchKeeps

LEMMA ReportInv ==
    ASSUME IInv, NEW b \in Batches, NEW p \in batch[b].todo, NEW kind \in Discrepancies,
           NEW written \in BOOLEAN, batch[b].pc = "check", Report(b, p, kind, written),
           kind = "status_mismatch" =>
               normalizePSPStatus(GetPaymentStatus(world[p])) # batch[b].read[p],
           UNCHANGED <<payVars, record, history>>, Fault \/ UNCHANGED faults
    PROVE  IInv'
<1> DEFINE k == batch[b]
<1> DEFINE d == [payment |-> p, type |-> kind]
<1>1. /\ k \in BatchRecord /\ p \in Payments /\ k.discrepancies \in Nat /\ report[b] \subseteq Found
      /\ k.unwritten \subseteq Payments
  BY BatchFacts DEF BatchRecord
<1>2. PICK u : u = IF written THEN k.unwritten ELSE k.unwritten \cup {p}
  OBVIOUS
<1>3. PICK v : v = [k EXCEPT !.todo = k.todo \ {p}, !.discrepancies = k.discrepancies + 1,
                             !.unwritten = u]
  OBVIOUS
<1>4. PICK rep : rep = IF written THEN report[b] \cup {d} ELSE report[b]
  OBVIOUS
<1>5. u \subseteq Payments /\ k.unwritten \subseteq u /\ (~written => p \in u)
  BY <1>1, <1>2
<1>6. v \in BatchRecord
  <2>1. k.discrepancies + 1 \in Nat /\ k.todo \ {p} \in SUBSET Payments /\ u \in SUBSET Payments
    BY <1>1, <1>5 DEF BatchRecord
  <2> HIDE DEF k
  <2> QED
    BY <1>1, <1>3, <2>1 DEF BatchRecord
<1>7. /\ v.pc = k.pc /\ v.read = k.read /\ v.todo = k.todo \ {p} /\ v.matched = k.matched
      /\ v.discrepancies = k.discrepancies + 1 /\ v.unwritten = u
  BY <1>1, <1>3 DEF BatchRecord
<1>8. batch' = [batch EXCEPT ![b] = v]
  BY <1>2, <1>3 DEF Report, IInv, Types
<1>9. report' = [report EXCEPT ![b] = rep]
  BY <1>4 DEF Report, IInv, Types
<1>10. d \in Found /\ d.payment = p /\ d.type = kind
  BY <1>1 DEF Found
<1> HIDE DEF d
<1>11. rep \subseteq Found /\ report[b] \subseteq rep /\ rep \subseteq report[b] \cup {d} /\ (written => d \in rep)
  BY <1>1, <1>4, <1>10
<1>12. p \in Handled(v, rep)
  BY <1>5, <1>7, <1>10, <1>11 DEF Handled
<1>13. Ticks(b, p, rep, v)
  BY <1>6, <1>7, <1>8, <1>9 DEF Ticks
<1> QED
  BY <1>5, <1>7, <1>10, <1>11, <1>12, <1>13, TickKeeps

LEMMA MatchInv ==
    ASSUME IInv, NEW b \in Batches, NEW p \in batch[b].todo, batch[b].pc = "check", Match(b, p),
           normalizePSPStatus(GetPaymentStatus(world[p])) = batch[b].read[p],
           UNCHANGED <<payVars, record, history>>, Fault \/ UNCHANGED faults
    PROVE  IInv'
<1> DEFINE k == batch[b]
<1>1. k \in BatchRecord /\ p \in Payments /\ report[b] \subseteq Found
  BY BatchFacts DEF BatchRecord
<1>2. PICK v : v = [k EXCEPT !.todo = k.todo \ {p}, !.matched = k.matched \cup {p}]
  OBVIOUS
<1>3. v \in BatchRecord
  BY <1>1, <1>2 DEF BatchRecord
<1>4. /\ v.pc = k.pc /\ v.read = k.read /\ v.todo = k.todo \ {p} /\ v.matched = k.matched \cup {p}
      /\ v.discrepancies = k.discrepancies /\ v.unwritten = k.unwritten
  BY <1>1, <1>2 DEF BatchRecord
<1>5. batch' = [batch EXCEPT ![b] = v] /\ report' = [report EXCEPT ![b] = report[b]]
  BY <1>2 DEF Match, IInv, Types
<1>6. p \in Handled(v, report[b])
  BY <1>4 DEF Handled
<1>7. Ticks(b, p, report[b], v)
  BY <1>3, <1>4, <1>5 DEF Ticks
<1> QED
  BY <1>1, <1>4, <1>6, <1>7, TickKeeps

LEMMA CompareInv ==
    ASSUME IInv, NEW b \in Batches, NEW p \in batch[b].todo, NEW written \in BOOLEAN,
           batch[b].pc = "check", Compare(b, p, written),
           UNCHANGED <<payVars, record, history>>, Fault \/ UNCHANGED faults
    PROVE  IInv'
<1>1. \/ Report(b, p, "missing_in_psp", written)
      \/ Report(b, p, "amount_mismatch", written)
      \/ /\ normalizePSPStatus(GetPaymentStatus(world[p])) # batch[b].read[p]
         /\ Report(b, p, "status_mismatch", written)
      \/ /\ normalizePSPStatus(GetPaymentStatus(world[p])) = batch[b].read[p]
         /\ Match(b, p)
  BY DEF Compare
<1>2. {"missing_in_psp", "amount_mismatch", "status_mismatch"} \subseteq Discrepancies
  BY DEF Discrepancies
<1>3. CASE Report(b, p, "missing_in_psp", written)
  BY <1>2, <1>3, ReportInv
<1>4. CASE Report(b, p, "amount_mismatch", written)
  BY <1>2, <1>4, ReportInv
<1>5. CASE /\ normalizePSPStatus(GetPaymentStatus(world[p])) # batch[b].read[p]
           /\ Report(b, p, "status_mismatch", written)
  BY <1>2, <1>5, ReportInv
<1>6. CASE /\ normalizePSPStatus(GetPaymentStatus(world[p])) = batch[b].read[p]
           /\ Match(b, p)
  BY <1>6, MatchInv
<1> QED
  BY <1>1, <1>3, <1>4, <1>5, <1>6

LEMMA CheckInv ==
    ASSUME IInv, NEW b \in Batches, NEW p \in Payments,
           Check(b, p) \/ CheckUnwritten(b, p) \/ CheckFails(b, p)
    PROVE  IInv'
<1>1. (~batch[b].cancelled) \in BOOLEAN /\ "missing_in_psp" \in Discrepancies
  BY DEF Discrepancies
<1>2. CASE Check(b, p)
  BY <1>1, <1>2, CompareInv DEF Check
<1>3. CASE CheckUnwritten(b, p)
  BY <1>3, CompareInv DEF CheckUnwritten
<1>4. CASE CheckFails(b, p)
  BY <1>1, <1>4, ReportInv DEF CheckFails
<1> QED
  BY <1>2, <1>3, <1>4

-----------------------------------------------------------------------------
(* The theorems.                                                            *)

LEMMA NextInv == IInv /\ [Next]_vars => IInv'
<1> SUFFICES ASSUME IInv, [Next]_vars PROVE IInv'
  OBVIOUS
<1>1. CASE \E p \in Payments : PspMoves(p) \/ RowFollows(p)
  BY <1>1, PspMovesInv, RowFollowsInv
<1>2. CASE \E b \in Batches : BatchStep(b)
  <2>1. PICK b \in Batches : BatchStep(b)
    BY <1>2
  <2>2. CASE Open(b) \/ Select(b) \/ SelectFails(b) \/ Finalize(b) \/ Stop(b) \/ Cancel(b)
    BY <2>2, OpenInv, SelectInv, SelectFailsInv, FinalizeInv, StopInv, CancelInv
  <2>3. CASE \E p \in Payments : Check(b, p) \/ CheckUnwritten(b, p) \/ CheckFails(b, p)
    BY <2>3, CheckInv
  <2> QED
    BY <2>1, <2>2, <2>3 DEF BatchStep
<1>3. CASE UNCHANGED vars
  BY <1>3 DEF vars, payVars, runVars, history, IInv, Types, BatchInv
<1> QED
  BY <1>1, <1>2, <1>3 DEF Next

LEMMA Invariant == Spec => []IInv
BY InitInv, NextInv, PTL DEF Spec

\* Rows, snapshots, findings and counters keep their types; the counter of
\* discrepancies never passes the number of payments of the day.
THEOREM ReconciliationTypes == Spec => []TypeOK
BY Invariant, IInvTypeOK, PTL

\* However the payments move under a running batch, it accuses of a status
\* mismatch no payment that agreed at the SELECT, stood still and is in a
\* status that the code maps back.
THEOREM AccusationsSound == Spec => []AccusedForAReason
BY Invariant, IInvAccused, PTL

\* A completed batch has found every capture that the row had missed, unless
\* the INSERT of the discrepancy failed.
THEOREM LostCapturesFound == Spec => []LostCaptureFound
BY Invariant, IInvFound, PTL

=============================================================================
