-------------------------- MODULE SettlementProofs --------------------------
(***************************************************************************)
(* Proofs about Settlement for any number of payments, requests,           *)
(* deliveries, events and faults.                                          *)
(*                                                                         *)
(* The inductive invariant IInv says what a request relies on between its  *)
(* labels (Relies): a capture or refund holds the lock of its row and      *)
(* the row is as it read it; a creation has its row to itself.  A step of  *)
(* one actor is shown to write rows only by legal writes of rows it may    *)
(* write (StoreStep); that is all the other actors need to keep theirs.    *)
(*                                                                         *)
(* The module has four parts: what the one way of writing a payment        *)
(* preserves, the inductive invariant and what follows from it, the        *)
(* refinement of PaymentLife, and the effects at the PSP and on Pub/Sub.   *)
(***************************************************************************)
EXTENDS Settlement, SequenceTheorems, FiniteSetTheorems, TLAPS

-----------------------------------------------------------------------------
(***************************************************************************)
(* What the one way of writing a payment preserves, whoever uses it: a     *)
(* write that takes up the status of the row and goes where the transition *)
(* table allows keeps the types and the audit trail sound.                 *)
(***************************************************************************)

Row == [status : Status \cup {NoStatus}, pspId : Nat, totalRefunded : Nat]
Record == [from : Status \cup {NoStatus}, to : Status, by : Triggers]

\* A payment is created first and then follows the table.
LegalStep(from, to) ==
    IF from = NoStatus THEN to = "created" ELSE ValidateTransition(from, to)

LegalWrite(p, row, from, by) ==
    /\ p \in Payments
    /\ row \in Row
    /\ by \in Triggers
    /\ from = rows[p].status
    /\ row.status \in Status
    /\ LegalStep(from, row.status)
    /\ WriteRow(p, row, from, by)

NoWrite == UNCHANGED <<rows, trail>>

\* A legal write keeps rows and records in their types.
LEMMA LegalWriteType ==
    ASSUME StoreTypeOK, NEW p, NEW row, NEW from, NEW by, LegalWrite(p, row, from, by)
    PROVE  StoreTypeOK'
<1>1. from \in Status \cup {NoStatus}
  BY DEF StoreTypeOK, LegalWrite
<1>2. rows' \in [Payments -> Row]
  BY DEF StoreTypeOK, LegalWrite, WriteRow, Row
<1>3. [from |-> from, to |-> row.status, by |-> by] \in Record
  BY <1>1 DEF LegalWrite, Record
<1>4. trail[p] \in Seq(Record)
  BY DEF StoreTypeOK, LegalWrite, Record
<1>5. Append(trail[p], [from |-> from, to |-> row.status, by |-> by]) \in Seq(Record)
  BY <1>3, <1>4
<1>6. trail' \in [Payments -> Seq(Record)]
  BY <1>5 DEF StoreTypeOK, LegalWrite, WriteRow, Record
<1> QED
  BY <1>2, <1>6 DEF StoreTypeOK, Row, Record

\* A record that takes up the status and follows the table extends a trail.
LEMMA AppendSound ==
    ASSUME NEW t \in Seq(Record), NEW rec \in Record, SoundTrail(t, rec.from),
           LegalStep(rec.from, rec.to)
    PROVE  SoundTrail(Append(t, rec), rec.to)
<1> DEFINE u == Append(t, rec)
<1>1. /\ u # <<>>
      /\ Len(t) \in Nat
      /\ Len(u) = Len(t) + 1
      /\ u[Len(t) + 1] = rec
      /\ \A i \in 1 .. Len(t) : u[i] = t[i]
      /\ t # <<>> => Len(t) >= 1
  <2>1. u \in Seq(Record) \ {<<>>} /\ Len(u) = Len(t) + 1 /\ u[Len(t) + 1] = rec
    BY AppendProperties
  <2>2. Len(t) \in Nat /\ \A i \in 1 .. Len(t) : u[i] = t[i]
    BY AppendProperties
  <2>3. t # <<>> => Len(t) >= 1
    BY <2>2, EmptySeq
  <2> QED
    BY <2>1, <2>2, <2>3
<1>2. rec.to # NoStatus
  BY DEF Record, Status, NoStatus
<1> HIDE DEF u
<1>3. u[1].from = NoStatus /\ u[1].to = "created"
  <2>1. CASE t = <<>>
    BY <1>1, <2>1 DEF SoundTrail, LegalStep
  <2>2. CASE t # <<>>
    BY <1>1, <2>2 DEF SoundTrail
  <2> QED
    BY <2>1, <2>2
<1>4. ASSUME NEW i \in 2 .. Len(u)
      PROVE  u[i].from = u[i - 1].to /\ ValidateTransition(u[i].from, u[i].to)
  <2>1. CASE i \in 2 .. Len(t)
    BY <1>1, <2>1 DEF SoundTrail
  <2>2. CASE i = Len(t) + 1
    <3>1. t # <<>> /\ i - 1 = Len(t) /\ i - 1 >= 1
      BY <1>1, <2>2
    <3>2. rec.from # NoStatus /\ u[i - 1].to = rec.from
      BY <1>1, <3>1 DEF SoundTrail
    <3> QED
      BY <1>1, <2>2, <3>2 DEF LegalStep
  <2> QED
    BY <1>1, <2>1, <2>2
<1> QED
  BY <1>1, <1>2, <1>3, <1>4 DEF SoundTrail, u

\* A legal write appends a record that continues the trail of its payment.
LEMMA LegalWriteTrail ==
    ASSUME StoreTypeOK, TrailSound,
           NEW p, NEW row, NEW from, NEW by, LegalWrite(p, row, from, by)
    PROVE  TrailSound'
<1> DEFINE rec == [from |-> from, to |-> row.status, by |-> by]
<1>1. p \in Payments /\ trail[p] \in Seq(Record) /\ rec \in Record
  BY DEF StoreTypeOK, LegalWrite, Record
<1>2. /\ trail' = [trail EXCEPT ![p] = Append(trail[p], rec)]
      /\ rows' = [rows EXCEPT ![p] = row]
  BY DEF LegalWrite, WriteRow
<1>3. SoundTrail(trail[p], rec.from) /\ LegalStep(rec.from, rec.to) /\ rec.to = row.status
  BY <1>1 DEF TrailSound, LegalWrite
<1>4. SoundTrail(Append(trail[p], rec), row.status)
  BY <1>1, <1>3, AppendSound
<1> HIDE DEF rec
<1>5. ASSUME NEW q \in Payments
      PROVE  SoundTrail(trail'[q], rows'[q].status)
  BY <1>1, <1>2, <1>4 DEF StoreTypeOK, TrailSound
<1> QED
  BY <1>5 DEF TrailSound

\* A step that writes no payment leaves both as they are.
LEMMA NoWriteKeeps ==
    ASSUME StoreTypeOK, TrailSound, NoWrite
    PROVE  StoreTypeOK' /\ TrailSound'
BY DEF StoreTypeOK, TrailSound, NoWrite

-----------------------------------------------------------------------------
(* The invariant.                                                           *)

CreateLabels == {"psp_create", "finish_create"}
CaptureLabels == {"psp_capture", "commit_capture"}
RefundLabels == {"psp_refund", "commit_refund"}
CancelLabels == {"psp_cancel", "finish_cancel"}

\* What request r relies on when its program counter and local variables are k.
Relies(r, k) ==
    LET p == k.payment
    IN  /\ k.pc \in ActiveLabels => p \in Payments
        /\ k.pc \in LockedLabels => rowLock[p] = r
        /\ k.pc \in CreateLabels => rows[p] = [NoRow EXCEPT !.status = "created"]
        /\ k.pc \in CaptureLabels => rows[p].status = "authorized"
        /\ k.pc \in RefundLabels =>
            /\ rows[p].status = k.seen
            /\ k.seen \in {"captured", "partially_refunded"}
            /\ rows[p].totalRefunded = k.total
            /\ k.amount > 0 /\ k.total + k.amount <= Amount[p]
        /\ k.pc \in CancelLabels =>
            /\ k.seen = "authorized"
            /\ rows[p].pspId = k.attempt
            /\ rows[p].pspId # NullPspId

\* No payment is created by two requests.
OneCreator ==
    \A q, r \in Requests :
        req[q].pc \in CreateLabels /\ req[r].pc \in CreateLabels
        /\ req[q].payment = req[r].payment => q = r

\* Whoever holds a row lock is at a label that holds it.
LockInv ==
    \A p \in Payments : rowLock[p] # NoOwner =>
        /\ req[rowLock[p]].pc \in LockedLabels
        /\ req[rowLock[p]].payment = p

\* A PSP id is stored, and a refund counted, only once the payment has left
\* created.
RowInv ==
    \A p \in Payments :
        /\ rows[p].status \in {NoStatus, "created"} =>
            rows[p].pspId = NullPspId /\ rows[p].totalRefunded = 0
        /\ rows[p].totalRefunded <= Amount[p]

\* A delivery has matched a payment by a PSP id.
MatchInv ==
    \A d \in Deliveries : wh[d].payment # Unmatched => rows[wh[d].payment].pspId # NullPspId

\* A delivery that claimed its event has left a row in the events table.
ClaimInv ==
    \A d \in Deliveries :
        /\ wh[d].pc \in WebhookActive => wh[d].event \in Events
        /\ wh[d].pc \in {"idle", "dup_check", "lookup", "insert"} => ~wh[d].claimed
        /\ wh[d].pc \in {"process", "finalize"} => wh[d].claimed
        /\ wh[d].claimed => wh[d].event \in Events /\ inbox[wh[d].event] # "absent"

CapturedOrLater == {"captured", "partially_refunded", "refunded"}

\* A capture in the books is that of a payment that was captured.
BookedInv ==
    \A i \in DOMAIN posted :
        posted[i].type = "payment_capture" => rows[posted[i].payment].status \in CapturedOrLater

ServiceInv == (\A r \in Requests : Relies(r, req[r])) /\ OneCreator /\ LockInv /\ RowInv

WebhookInv == MatchInv /\ ClaimInv /\ BookedInv /\ EventClaimedOnce /\ CaptureBookedOnce /\ TrialBalance

IInv == TypeOK /\ TrailSound /\ ServiceInv /\ WebhookInv

-----------------------------------------------------------------------------
(* What a step of one actor leaves the others. *)

\* Actor a writes at most one row, legally, one that nobody else has locked
\* or is creating; and it leaves the locks of others alone.
StoreStep(a) ==
    /\ \/ NoWrite
       \/ \E p, row, from, by :
            /\ LegalWrite(p, row, from, by)
            /\ rowLock[p] \in {NoOwner, a}
            /\ \A q \in Requests \ {a} :
                 req[q].pc \in CreateLabels => req[q].payment # p
            /\ rows[p].totalRefunded <= row.totalRefunded
            /\ row.totalRefunded <= Amount[p]
            /\ rows[p].pspId # NullPspId => row.pspId = rows[p].pspId
            /\ row.status = "created" => row.pspId = NullPspId /\ row.totalRefunded = 0
    /\ \A p \in Payments : rowLock[p] \notin {NoOwner, a} => rowLock'[p] = rowLock[p]

RequestRecord ==
    [pc : ActiveLabels \cup {"idle", "done"}, payment : Payments \cup {NoPayment}, amount : Nat,
     total : Nat, attempt : Nat, ok : BOOLEAN, seen : Status \cup {NoStatus}]

\* The part of TypeOK about what the payment service does to the outside.
EffectTypes ==
    /\ psp \in [Payments -> [auths : SUBSET Nat, captures : Nat, refunded : Nat, cancels : Nat]]
    /\ published \subseteq [payment : Payments, from : Status, to : Status, by : Triggers]
    /\ faults \in 0 .. MaxFaults

\* Request r becomes k: it keeps to StoreStep, what it relies on there holds,
\* and it holds only the locks that its label accounts for.
RequestStepOK(r, k) ==
    /\ k \in RequestRecord
    /\ req' = [req EXCEPT ![r] = k]
    /\ StoreStep(r)
    /\ EffectTypes'
    /\ rowLock' \in [Payments -> Requests \cup {NoOwner}]
    /\ \A p \in Payments : rowLock'[p] \in {rowLock[p], r, NoOwner}
    /\ \A p \in Payments : rowLock'[p] = r => k.pc \in LockedLabels /\ k.payment = p
    /\ Relies(r, k)'
    /\ k.pc \in CreateLabels =>
        \/ req[r].pc \in CreateLabels /\ k.payment = req[r].payment
        \/ k.payment \in Payments /\ rows[k.payment].status = NoStatus

\* A row that is written keeps to RowStep; the others do not change.
LEMMA StoreStepRows ==
    ASSUME StoreTypeOK, RowInv, NEW a, StoreStep(a)
    PROVE  /\ \A p \in Payments : RowStep(p)
           /\ \A p \in Payments :
                \/ rows'[p] = rows[p]
                \/ /\ rowLock[p] \in {NoOwner, a}
                   /\ \A q \in Requests \ {a} : req[q].pc \in CreateLabels => req[q].payment # p
                   /\ LegalStep(rows[p].status, rows'[p].status)
                   /\ rows'[p].status \in Status
           /\ RowInv'
<1>1. CASE NoWrite
  BY <1>1 DEF NoWrite, RowStep, RowInv, StoreTypeOK
<1>2. CASE ~NoWrite
  <2>1. PICK p, row, from, by :
            /\ LegalWrite(p, row, from, by)
            /\ rowLock[p] \in {NoOwner, a}
            /\ \A q \in Requests \ {a} :
                 req[q].pc \in CreateLabels => req[q].payment # p
            /\ rows[p].totalRefunded <= row.totalRefunded
            /\ row.totalRefunded <= Amount[p]
            /\ rows[p].pspId # NullPspId => row.pspId = rows[p].pspId
            /\ row.status = "created" => row.pspId = NullPspId /\ row.totalRefunded = 0
    BY <1>2, Zenon DEF StoreStep
  <2>2. p \in Payments /\ row \in Row /\ rows' = [rows EXCEPT ![p] = row]
        /\ LegalStep(rows[p].status, row.status) /\ row.status \in Status
    BY <2>1 DEF LegalWrite, WriteRow
  <2>3. rows'[p] = row /\ \A q \in Payments \ {p} : rows'[q] = rows[q]
    BY <2>2 DEF StoreTypeOK
  <2>4. row.status # NoStatus
    BY <2>2 DEF Status, NoStatus
  <2>5. ASSUME NEW q \in Payments
        PROVE  rows[q].totalRefunded \in Nat /\ rows[q].totalRefunded <= Amount[q]
    BY DEF StoreTypeOK, RowInv
  <2>6. ASSUME NEW q \in Payments
        PROVE  RowStep(q)
    <3>1. CASE q = p
      BY <2>1, <2>3, <3>1 DEF RowStep
    <3>2. CASE q # p
      BY <2>3, <2>5, <3>2 DEF RowStep
    <3> QED
      BY <3>1, <3>2
  <2>7. RowInv'
    BY <2>1, <2>2, <2>3, <2>4 DEF RowInv
  <2> QED
    BY <2>1, <2>2, <2>3, <2>6, <2>7
<1> QED
  BY <1>1, <1>2

\* A store step keeps the types of the rows and the trail sound.
LEMMA StoreStepSound ==
    ASSUME StoreTypeOK, TrailSound, NEW a, StoreStep(a)
    PROVE  StoreTypeOK' /\ TrailSound'
<1>1. CASE NoWrite
  BY <1>1, NoWriteKeeps
<1>2. CASE ~NoWrite
  <2>1. PICK p, row, from, by : LegalWrite(p, row, from, by)
    BY <1>2, Zenon DEF StoreStep
  <2> QED
    BY <2>1, LegalWriteType, LegalWriteTrail
<1> QED
  BY <1>1, <1>2

-----------------------------------------------------------------------------
(* What the others rely on. *)

\* A store step of a leaves every other actor what it relies on.
LEMMA OthersKeep ==
    ASSUME IInv, NEW a, StoreStep(a), NEW q \in Requests, q # a, NEW k, k = req[q]
    PROVE  Relies(q, k)'
<1> DEFINE p == k.payment
<1>1. StoreTypeOK /\ RowInv /\ Relies(q, k) /\ req[q].payment = p /\ req[q].pc = k.pc
  BY DEF IInv, TypeOK, PaymentTypeOK, ServiceInv
<1>2. CASE k.pc \notin ActiveLabels
  BY <1>2 DEF Relies, ActiveLabels, LockedLabels, CreateLabels, CaptureLabels, RefundLabels, CancelLabels
<1>3. CASE k.pc \in ActiveLabels
  <2>1. p \in Payments
    BY <1>1, <1>3 DEF Relies
  <2>2. /\ RowStep(p)
        /\ \/ rows'[p] = rows[p]
           \/ rowLock[p] \in {NoOwner, a} /\ k.pc \notin CreateLabels
    BY <1>1, <2>1, StoreStepRows
  <2>3. k.pc \in LockedLabels => rowLock[p] = q /\ rowLock'[p] = q /\ rows'[p] = rows[p]
    BY <1>1, <2>1, <2>2, OwnerAssumption DEF Relies, StoreStep
  <2>4. k.pc \in CreateLabels => rows'[p] = rows[p]
    BY <2>2
  <2>5. rows[p].pspId # NullPspId => rows'[p].pspId = rows[p].pspId
    BY <2>2 DEF RowStep
  <2> QED
    BY <1>1, <2>1, <2>3, <2>4, <2>5
       DEF Relies, LockedLabels, CaptureLabels, RefundLabels, CancelLabels, CreateLabels
<1> QED
  BY <1>2, <1>3

\* A payment on which something was captured stays captured or refunded.
LEMMA CapturedStays ==
    ASSUME StoreTypeOK, RowInv, NEW a, StoreStep(a), NEW p \in Payments, rows[p].status \in CapturedOrLater
    PROVE  rows'[p].status \in CapturedOrLater
<1>1. CASE rows'[p] = rows[p]
  BY <1>1
<1>2. CASE LegalStep(rows[p].status, rows'[p].status) /\ rows'[p].status \in Status
  BY <1>2 DEF LegalStep, ValidateTransition, validTransitions, CapturedOrLater, NoStatus, Status
<1> QED
  BY <1>1, <1>2, StoreStepRows

\* A row of ledger_transactions.
Transaction == [payment : Payments, type : {"payment_capture", "refund"}, amount : Nat]

LEMMA PostedRecords ==
    ASSUME WebhookTypeOK
    PROVE  /\ posted \in Seq(Transaction)
           /\ DOMAIN posted = 1 .. Len(posted) /\ Len(posted) \in Nat
           /\ \A i \in DOMAIN posted : posted[i] \in Transaction
<1>1. posted \in Seq(Transaction)
  BY DEF WebhookTypeOK, Transaction
<1> HIDE DEF Transaction
<1> QED
  BY <1>1

\* Matched deliveries and booked captures survive any store step that leaves
\* the webhook service alone.
LEMMA WebhookKeeps ==
    ASSUME IInv, NEW a, StoreStep(a), UNCHANGED webhookVars
    PROVE  WebhookTypeOK' /\ WebhookInv'
<1>1. UNCHANGED <<wh, inbox, book, posted>>
  BY DEF webhookVars
<1>2. StoreTypeOK /\ RowInv /\ WebhookTypeOK
  BY DEF IInv, TypeOK, PaymentTypeOK, ServiceInv
<1>3. \A p \in Payments : RowStep(p)
  BY <1>2, StoreStepRows
<1>4. MatchInv'
  <2>1. \A d \in Deliveries : wh[d].payment # Unmatched => wh[d].payment \in Payments
    BY <1>2 DEF WebhookTypeOK
  <2> QED
    BY <1>1, <1>3, <2>1 DEF IInv, WebhookInv, MatchInv, RowStep
<1>5. BookedInv'
  <2>1. \A i \in DOMAIN posted : posted[i].payment \in Payments
    BY <1>2, PostedRecords DEF WebhookTypeOK, Transaction
  <2> QED
    BY <1>1, <1>2, <2>1, CapturedStays DEF IInv, WebhookInv, BookedInv
<1>6. (ClaimInv /\ EventClaimedOnce /\ CaptureBookedOnce /\ TrialBalance)'
  BY <1>1 DEF IInv, WebhookInv, ClaimInv, EventClaimedOnce, CaptureBookedOnce, TrialBalance
<1>7. WebhookTypeOK'
  BY <1>1, <1>2 DEF WebhookTypeOK
<1> QED
  BY <1>4, <1>5, <1>6, <1>7 DEF WebhookInv

\* A request's step that is as RequestStepOK says keeps the invariant.
LEMMA RequestKeeps ==
    ASSUME IInv, NEW r \in Requests, NEW k, RequestStepOK(r, k), UNCHANGED webhookVars
    PROVE  IInv' /\ \A p \in Payments : RowStep(p)
<1>1. /\ StoreTypeOK /\ RowInv /\ TrailSound /\ OneCreator /\ LockInv
      /\ req \in [Requests -> RequestRecord] /\ rowLock \in [Payments -> Requests \cup {NoOwner}]
  BY DEF IInv, TypeOK, PaymentTypeOK, ServiceInv, RequestRecord
<1>2. StoreStep(r) /\ req'[r] = k /\ \A q \in Requests \ {r} : req'[q] = req[q]
  BY <1>1 DEF RequestStepOK
<1>3. StoreTypeOK' /\ TrailSound'
  BY <1>1, <1>2, StoreStepSound
<1>4. RowInv' /\ \A p \in Payments : RowStep(p)
  BY <1>1, <1>2, StoreStepRows
<1>5. PaymentTypeOK'
  BY <1>1, <1>3 DEF PaymentTypeOK, RequestStepOK, EffectTypes, RequestRecord
<1>6. ASSUME NEW q \in Requests
      PROVE  Relies(q, req[q])'
  <2>1. CASE q = r
    BY <1>2, <2>1 DEF RequestStepOK, Relies
  <2>2. CASE q # r
    <3> DEFINE j == req[q]
    <3>1. req'[q] = j
      BY <1>2, <2>2
    <3>2. \A i : i = j => Relies(q, i)'
      BY <1>2, <2>2, OthersKeep
    <3> QED
      BY <3>1, <3>2 DEF Relies
  <2> QED
    BY <2>1, <2>2
<1>7. OneCreator'
  <2>1. ASSUME NEW q \in Requests, q # r, req[q].pc \in CreateLabels, k.pc \in CreateLabels,
               req[q].payment = k.payment
        PROVE  FALSE
    <3>1. Relies(q, req[q])
      BY DEF IInv, ServiceInv
    <3>2. rows[k.payment].status = "created"
      BY <2>1, <3>1 DEF Relies, NoRow
    <3> QED
      BY <1>1, <2>1, <3>2 DEF RequestStepOK, OneCreator, NoStatus
  <2>2. \A q \in Requests : q # r /\ req'[q].pc \in CreateLabels /\ req'[r].pc \in CreateLabels
                             => req'[q].payment # req'[r].payment
    BY <1>2, <2>1
  <2> QED
    BY <1>1, <1>2, <2>2 DEF OneCreator
<1>8. LockInv'
  BY <1>1, <1>2, OwnerAssumption DEF RequestStepOK, LockInv
<1>9. WebhookTypeOK' /\ WebhookInv'
  BY <1>2, WebhookKeeps
<1> QED
  BY <1>3, <1>4, <1>5, <1>6, <1>7, <1>8, <1>9 DEF IInv, TypeOK, ServiceInv

-----------------------------------------------------------------------------
(* The requests. *)

Done == [Idle EXCEPT !.pc = "done"]

PspRecord == [auths : SUBSET Nat, captures : Nat, refunded : Nat, cancels : Nat]
Event == [payment : Payments, from : Status, to : Status, by : Triggers]

\* What TypeOK says that the steps of requests use.
LEMMA Types ==
    ASSUME IInv
    PROVE  /\ StoreTypeOK /\ TrailSound /\ EffectTypes
           /\ req \in [Requests -> RequestRecord]
           /\ rows \in [Payments -> Row]
           /\ rowLock \in [Payments -> Requests \cup {NoOwner}]
           /\ psp \in [Payments -> PspRecord]
           /\ published \subseteq Event
           /\ \A r \in Requests : Relies(r, req[r])
BY DEF IInv, TypeOK, PaymentTypeOK, StoreTypeOK, EffectTypes, RequestRecord, ServiceInv, PspRecord, Event, Row

LEMMA EffectTypesIf ==
    ASSUME psp' \in [Payments -> PspRecord], published' \subseteq Event, faults' \in 0 .. MaxFaults
    PROVE  EffectTypes'
BY DEF EffectTypes, PspRecord, Event

LEMMA AnsweredFaults ==
    ASSUME faults \in 0 .. MaxFaults, NEW a, Answered(a)
    PROVE  faults' \in 0 .. MaxFaults
BY FaultsAssumption DEF Answered

LEMMA PublishEvent ==
    ASSUME published \subseteq Event, NEW p \in Payments, NEW from \in Status, NEW to \in Status,
           NEW by \in Triggers, Publish(p, from, to, by)
    PROVE  published' \subseteq Event
BY DEF Publish, Event

LEMMA DoneRecord == Done \in RequestRecord /\ Done.pc = "done" /\ Idle \in RequestRecord
BY DEF Done, Idle, RequestRecord, NullPspId

\* Locks are held at the labels that hold them, and nowhere else.
LEMMA HoldsNone ==
    ASSUME IInv, NEW r \in Requests, req[r].pc \notin LockedLabels
    PROVE  \A p \in Payments : rowLock[p] # r
BY OwnerAssumption DEF IInv, ServiceInv, LockInv

LEMMA HoldsOne ==
    ASSUME IInv, NEW r \in Requests, req[r].pc \in LockedLabels
    PROVE  /\ req[r].payment \in Payments
           /\ rowLock[req[r].payment] = r
           /\ \A p \in Payments : rowLock[p] = r => p = req[r].payment
BY OwnerAssumption DEF IInv, ServiceInv, LockInv, Relies, ActiveLabels

\* A payment that is not in created is not being created.
LEMMA NotBeingCreated ==
    ASSUME IInv, NEW p \in Payments, rows[p].status # "created"
    PROVE  \A q \in Requests : req[q].pc \in CreateLabels => req[q].payment # p
BY Types DEF Relies, NoRow

\* Nobody holds the lock of a payment that has no row.
LEMMA NoRowNoLock ==
    ASSUME IInv, NEW p \in Payments, rows[p].status = NoStatus
    PROVE  rowLock[p] = NoOwner
<1> SUFFICES ASSUME rowLock[p] # NoOwner PROVE FALSE
  OBVIOUS
<1> DEFINE q == rowLock[p]
<1>1. q \in Requests
  BY Types
<1>2. req[q].pc \in LockedLabels /\ req[q].payment = p
  BY DEF IInv, ServiceInv, LockInv
<1>3. Relies(q, req[q])
  BY <1>1, Types
<1> QED
  BY <1>2, <1>3 DEF Relies, LockedLabels, CaptureLabels, RefundLabels, NoStatus

\* A request that is answered relies on nothing.
LEMMA EndOK ==
    ASSUME IInv, NEW r \in Requests, StoreStep(r), End(r), EffectTypes',
           rowLock' \in [Payments -> Requests \cup {NoOwner}],
           \A p \in Payments : rowLock'[p] \in {rowLock[p], NoOwner} /\ rowLock'[p] # r
    PROVE  RequestStepOK(r, Done)
<1>1. req' = [req EXCEPT ![r] = Done]
  BY DEF End, Done
<1>2. Relies(r, Done)'
  BY DoneRecord DEF Relies, ActiveLabels, LockedLabels, CreateLabels, CaptureLabels, RefundLabels, CancelLabels
<1> QED
  BY <1>1, <1>2, DoneRecord DEF RequestStepOK, CreateLabels

\* A step that writes no row and takes no lock is a store step.
LEMMA QuietStoreStep ==
    ASSUME NEW a, UNCHANGED <<rows, trail>>,
           \A p \in Payments : rowLock[p] \notin {NoOwner, a} => rowLock'[p] = rowLock[p]
    PROVE  StoreStep(a)
BY DEF StoreStep, NoWrite

\* So is a legal write of a row that a may write, which keeps what may not
\* be taken back.
LEMMA WriteStoreStep ==
    ASSUME IInv, NEW a, NEW p \in Payments, NEW row \in Row, NEW from, NEW by \in Triggers,
           WriteRow(p, row, from, by),
           from = rows[p].status, row.status \in Status, LegalStep(from, row.status),
           rowLock[p] \in {NoOwner, a},
           \A q \in Requests \ {a} : req[q].pc \in CreateLabels => req[q].payment # p,
           rows[p].totalRefunded <= row.totalRefunded, row.totalRefunded <= Amount[p],
           rows[p].pspId # NullPspId => row.pspId = rows[p].pspId,
           row.status = "created" => row.pspId = NullPspId /\ row.totalRefunded = 0,
           \A q \in Payments : rowLock[q] \notin {NoOwner, a} => rowLock'[q] = rowLock[q]
    PROVE  StoreStep(a)
<1>1. LegalWrite(p, row, from, by)
  BY DEF LegalWrite
<1> QED
  BY <1>1, Zenon DEF StoreStep

\* CreatePayment inserts its row.
LEMMA CreateInsertOK ==
    ASSUME IInv, NEW r \in Requests, NEW p \in Payments, CreateInsert(r, p)
    PROVE  \E k : RequestStepOK(r, k)
<1> DEFINE row == [NoRow EXCEPT !.status = "created"]
<1> DEFINE k == [Idle EXCEPT !.pc = "psp_create", !.payment = p]
<1>1. /\ req[r].pc = "idle" /\ rows[p].status = NoStatus
      /\ WriteRow(p, row, NoStatus, "system") /\ req' = [req EXCEPT ![r] = k]
      /\ UNCHANGED <<rowLock, psp, published, faults>>
  BY DEF CreateInsert, Exists
<1>2. /\ row \in Row /\ row.status = "created" /\ row.pspId = NullPspId /\ row.totalRefunded = 0
      /\ "created" \in Status /\ "created" # NoStatus
  BY DEF Row, NoRow, Status, NullPspId, NoStatus
<1>3. k \in RequestRecord /\ k.pc = "psp_create" /\ k.payment = p
  BY DoneRecord DEF RequestRecord, Idle, ActiveLabels
<1>4. rows[p].pspId = NullPspId /\ rows[p].totalRefunded = 0 /\ 0 <= Amount[p]
  BY <1>1, AmountAssumption DEF IInv, ServiceInv, RowInv
<1>5. \A q \in Requests \ {r} : req[q].pc \in CreateLabels => req[q].payment # p
  BY <1>1, <1>2, NotBeingCreated
<1> HIDE DEF row, k
<1>6. StoreStep(r)
  <2>1. LegalStep(NoStatus, row.status) /\ "system" \in Triggers /\ rowLock[p] = NoOwner
    BY <1>1, <1>2, NoRowNoLock DEF LegalStep, Triggers
  <2>2. rows[p].totalRefunded <= row.totalRefunded /\ row.totalRefunded <= Amount[p]
    BY <1>2, <1>4
  <2> QED
    BY <1>1, <1>2, <1>4, <1>5, <2>1, <2>2, WriteStoreStep
<1>7. Relies(r, k)'
  <2>1. rows'[p] = row
    BY <1>1, Types DEF WriteRow
  <2> QED
    BY <1>3, <2>1 DEF Relies, row, ActiveLabels, LockedLabels, CreateLabels, CaptureLabels, RefundLabels, CancelLabels
<1>8. \A q \in Payments : rowLock[q] # r
  BY <1>1, HoldsNone DEF LockedLabels
<1>9. EffectTypes' /\ rowLock' \in [Payments -> Requests \cup {NoOwner}]
  BY <1>1, Types DEF EffectTypes
<1> QED
  BY <1>1, <1>3, <1>6, <1>7, <1>8, <1>9 DEF RequestStepOK

\* An attempt of CreatePayment at the PSP.
LEMMA PspCreateOK ==
    ASSUME IInv, NEW r \in Requests, PspCreate(r)
    PROVE  \E k : RequestStepOK(r, k)
<1> DEFINE p == req[r].payment
<1>1. PICK a \in Answers :
          /\ Answered(a)
          /\ psp' = IF CarriedOut(a) THEN [psp EXCEPT ![p].auths = @ \cup {req[r].attempt + 1}]
                    ELSE psp
          /\ req' = [req EXCEPT ![r].attempt = req[r].attempt + 1, ![r].ok = (a = "ok"),
                       ![r].pc = retryDo(a, req[r].attempt + 1)]
  BY DEF PspCreate
<1> DEFINE n == req[r].attempt + 1
<1> DEFINE label == retryDo(a, n)
<1> DEFINE good == (a = "ok")
<1>k. PICK k : k = [req[r] EXCEPT !.attempt = n, !.ok = good, !.pc = label]
  OBVIOUS
<1>2. req[r].pc = "psp_create" /\ UNCHANGED <<rows, trail, rowLock, published>>
  BY DEF PspCreate, storeVars
<1>3. req[r] \in RequestRecord /\ n \in Nat /\ label \in CreateLabels /\ good \in BOOLEAN
  BY Types DEF RequestRecord, retryDo, CreateLabels
<1>4. req' = [req EXCEPT ![r] = k]
  BY <1>1, <1>k, Types
<1> HIDE DEF n, label, good
<1>5. k \in RequestRecord /\ k.pc = label /\ k.payment = p
  BY <1>3, <1>k DEF RequestRecord, ActiveLabels, CreateLabels
<1>6. Relies(r, req[r]) /\ p \in Payments
  BY <1>2, Types DEF Relies, ActiveLabels
<1>7. Relies(r, k)'
  <2>1. rows'[p] = [NoRow EXCEPT !.status = "created"]
    BY <1>2, <1>6 DEF Relies, CreateLabels
  <2>2. k.pc \in CreateLabels /\ k.pc \notin LockedLabels
        /\ k.pc \notin CaptureLabels /\ k.pc \notin RefundLabels /\ k.pc \notin CancelLabels
    BY <1>3, <1>5 DEF CreateLabels, LockedLabels, CaptureLabels, RefundLabels, CancelLabels
  <2> QED
    BY <1>5, <1>6, <2>1, <2>2 DEF Relies
<1> DEFINE rec == [psp[p] EXCEPT !.auths = @ \cup {n}]
<1>8. psp' \in [Payments -> PspRecord]
  <2>1. psp[p] \in PspRecord /\ rec \in PspRecord
    BY <1>3, <1>6, Types DEF PspRecord
  <2>2. psp' = psp \/ psp' = [psp EXCEPT ![p] = rec]
    BY <1>1 DEF n
  <2> HIDE DEF rec
  <2> QED
    BY <1>6, <2>1, <2>2, Types
<1>9. EffectTypes'
  BY <1>1, <1>2, <1>8, Types, AnsweredFaults, EffectTypesIf DEF EffectTypes
<1>10. StoreStep(r)
  BY <1>2, QuietStoreStep
<1>11. \A q \in Payments : rowLock[q] # r
  BY <1>2, HoldsNone DEF LockedLabels
<1>12. rowLock' \in [Payments -> Requests \cup {NoOwner}] /\ \A q \in Payments : rowLock'[q] = rowLock[q]
  BY <1>2, Types
<1>13. req[r].pc \in CreateLabels /\ k.payment = req[r].payment
  BY <1>2, <1>5 DEF CreateLabels
<1>14. RequestStepOK(r, k)
  BY <1>4, <1>5, <1>7, <1>9, <1>10, <1>11, <1>12, <1>13 DEF RequestStepOK
<1> QED
  BY <1>14

\* The optimistic update at the end of a request that holds no lock.
LEMMA UpdateOK ==
    ASSUME IInv, NEW r \in Requests, req[r].pc \notin LockedLabels, End(r),
           NEW p \in Payments, NEW from \in Status, NEW to \in Status \ {"created"},
           NEW id \in Nat, NEW by \in Triggers,
           updatePaymentState(p, from, to, id, by),
           rows[p].pspId # NullPspId => id \in {NullPspId, rows[p].pspId},
           \A q \in Requests \ {r} : req[q].pc \in CreateLabels => req[q].payment # p,
           UNCHANGED <<rowLock, psp, faults>>
    PROVE  RequestStepOK(r, Done)
<1> DEFINE newId == IF id = NullPspId THEN rows[p].pspId ELSE id
<1> DEFINE row == [rows[p] EXCEPT !.status = to, !.pspId = newId]
<1>1. \A q \in Payments : rowLock'[q] = rowLock[q] /\ rowLock[q] # r
  BY HoldsNone
<1>2. /\ rowLock' \in [Payments -> Requests \cup {NoOwner}]
      /\ psp' \in [Payments -> PspRecord] /\ faults' \in 0 .. MaxFaults
  BY Types DEF EffectTypes
<1>3. CASE ValidateTransition(from, to) /\ rows[p].status = from
  <2>1. WriteRow(p, row, from, by) /\ Publish(p, from, to, by) /\ rowLock[p] = NoOwner
    BY <1>3 DEF updatePaymentState, Free
  <2>2. rows[p] \in Row /\ newId \in Nat
    BY Types DEF Row
  <2>3. rows[p].pspId # NullPspId => newId = rows[p].pspId
    OBVIOUS
  <2> HIDE DEF newId
  <2>4. /\ row \in Row /\ row.status = to /\ row.pspId = newId
        /\ row.totalRefunded = rows[p].totalRefunded
    BY <2>2 DEF Row
  <2> HIDE DEF row
  <2>5. LegalStep(from, row.status) /\ row.status # "created"
    BY <1>3, <2>4 DEF LegalStep, Status, NoStatus
  <2>6. /\ rows[p].totalRefunded <= row.totalRefunded
        /\ row.totalRefunded <= Amount[p]
    BY <2>2, <2>4 DEF Row, IInv, ServiceInv, RowInv
  <2>7. StoreStep(r)
    BY <1>1, <1>3, <2>1, <2>3, <2>4, <2>5, <2>6, WriteStoreStep
  <2>8. EffectTypes'
    BY <1>2, <2>1, Types, PublishEvent, EffectTypesIf
  <2> QED
    BY <1>1, <1>2, <2>7, <2>8, EndOK
<1>4. CASE ~(ValidateTransition(from, to) /\ rows[p].status = from)
  <2>1. UNCHANGED <<rows, trail, published>>
    BY <1>4 DEF updatePaymentState
  <2>2. StoreStep(r) /\ EffectTypes'
    BY <1>1, <1>2, <2>1, Types, QuietStoreStep, EffectTypesIf
  <2> QED
    BY <1>1, <1>2, <2>2, EndOK
<1> QED
  BY <1>3, <1>4

\* The outcome of the attempts becomes the status.
LEMMA CreateFinishOK ==
    ASSUME IInv, NEW r \in Requests, CreateFinish(r)
    PROVE  RequestStepOK(r, Done)
<1> DEFINE p == req[r].payment
<1> DEFINE to == IF req[r].ok THEN "authorized" ELSE "failed"
<1> DEFINE id == IF req[r].ok THEN req[r].attempt ELSE NullPspId
<1>1. /\ req[r].pc = "finish_create" /\ updatePaymentState(p, "created", to, id, "system")
      /\ End(r) /\ UNCHANGED <<rowLock, psp, faults>>
  BY DEF CreateFinish
<1>2. p \in Payments /\ rows[p].pspId = NullPspId
  BY <1>1, Types DEF Relies, ActiveLabels, CreateLabels, NoRow
<1>3. req[r].attempt \in Nat
  BY Types DEF RequestRecord
<1>4. /\ "created" \in Status /\ to \in Status \ {"created"} /\ id \in Nat /\ "system" \in Triggers
      /\ req[r].pc \notin LockedLabels
  BY <1>1, <1>3 DEF Status, NullPspId, Triggers, LockedLabels
<1>5. \A q \in Requests \ {r} : req[q].pc \in CreateLabels => req[q].payment # p
  BY <1>1 DEF IInv, ServiceInv, OneCreator, CreateLabels
<1> HIDE DEF p, to, id
<1> QED
  BY <1>1, <1>2, <1>4, <1>5, UpdateOK

\* A request takes the lock of a free row and moves on to k.
LEMMA LockOK ==
    ASSUME IInv, NEW r \in Requests, req[r].pc = "idle", NEW p \in Payments, Free(p),
           NEW k \in RequestRecord, k.payment = p, k.pc \in LockedLabels,
           Relies(r, k)',
           rowLock' = [rowLock EXCEPT ![p] = r], req' = [req EXCEPT ![r] = k],
           UNCHANGED <<rows, trail, psp, published, faults>>
    PROVE  RequestStepOK(r, k)
<1>1. /\ rowLock' \in [Payments -> Requests \cup {NoOwner}]
      /\ rowLock'[p] = r /\ rowLock[p] = NoOwner
      /\ \A q \in Payments \ {p} : rowLock'[q] = rowLock[q]
  BY Types DEF Free
<1>2. \A q \in Payments : rowLock[q] # r
  BY HoldsNone DEF LockedLabels
<1>3. StoreStep(r)
  BY <1>1, QuietStoreStep
<1>4. EffectTypes'
  BY Types DEF EffectTypes
<1>5. k.pc \notin CreateLabels
  BY DEF LockedLabels, CreateLabels
<1> QED
  BY <1>1, <1>2, <1>3, <1>4, <1>5 DEF RequestStepOK

LEMMA CaptureLockOK ==
    ASSUME IInv, NEW r \in Requests, NEW p \in Payments, CaptureLock(r, p)
    PROVE  \E k : RequestStepOK(r, k)
<1> DEFINE k == [Idle EXCEPT !.pc = "psp_capture", !.payment = p]
<1>1. /\ req[r].pc = "idle" /\ Free(p) /\ rows[p].status = "authorized"
      /\ rowLock' = [rowLock EXCEPT ![p] = r] /\ req' = [req EXCEPT ![r] = k]
      /\ UNCHANGED <<rows, trail, psp, published, faults>>
  BY DEF CaptureLock, Capturable
<1>2. k \in RequestRecord /\ k.payment = p /\ k.pc = "psp_capture"
  BY DoneRecord DEF RequestRecord, Idle, ActiveLabels, LockedLabels
<1> HIDE DEF k
<1>3. rowLock'[p] = r /\ rows'[p].status = "authorized"
  BY <1>1, Types
<1>4. Relies(r, k)'
  BY <1>2, <1>3 DEF Relies, LockedLabels, CreateLabels, CaptureLabels, RefundLabels, CancelLabels
<1> QED
  BY <1>1, <1>2, <1>4, LockOK DEF LockedLabels

LEMMA RefundLockOK ==
    ASSUME IInv, NEW r \in Requests, NEW p \in Payments, NEW n \in 1 .. Amount[p], RefundLock(r, p, n)
    PROVE  \E k : RequestStepOK(r, k)
<1>k. PICK k : k = [Idle EXCEPT !.pc = "psp_refund", !.payment = p, !.amount = n,
                                !.seen = rows[p].status, !.total = rows[p].totalRefunded]
  OBVIOUS
<1>1. /\ req[r].pc = "idle" /\ Free(p) /\ rows[p].status \in {"captured", "partially_refunded"}
      /\ n <= Amount[p] - rows[p].totalRefunded
      /\ rowLock' = [rowLock EXCEPT ![p] = r] /\ req' = [req EXCEPT ![r] = k]
      /\ UNCHANGED <<rows, trail, psp, published, faults>>
  BY <1>k DEF RefundLock, Refundable
<1>2. rows[p].totalRefunded \in Nat /\ n \in Nat /\ Amount[p] \in Nat /\ rows[p].status \in Status \cup {NoStatus}
  BY Types, AmountAssumption DEF Row
<1>3. /\ k \in RequestRecord /\ k.payment = p /\ k.pc = "psp_refund" /\ k.amount = n
      /\ k.seen = rows[p].status /\ k.total = rows[p].totalRefunded
  BY <1>k, <1>2 DEF RequestRecord, Idle, ActiveLabels, LockedLabels
<1>4. rowLock'[p] = r /\ rows'[p] = rows[p]
  BY <1>1, Types
<1>5. k.amount > 0 /\ k.total + k.amount <= Amount[p]
  BY <1>1, <1>2, <1>3
<1>6. Relies(r, k)'
  BY <1>1, <1>3, <1>4, <1>5 DEF Relies, LockedLabels, CreateLabels, CaptureLabels, RefundLabels, CancelLabels
<1> QED
  BY <1>1, <1>3, <1>6, LockOK DEF LockedLabels

\* A PSP call under the lock: the request goes on to the label next of the
\* same operation, or ends and releases the lock.
LEMMA LockedCallOK ==
    ASSUME IInv, NEW r \in Requests, NEW next,
           \/ req[r].pc = "psp_capture" /\ next = "commit_capture"
           \/ req[r].pc = "psp_refund" /\ next = "commit_refund",
           NEW a \in Answers, Answered(a),
           IF a = "ok" THEN req' = [req EXCEPT ![r].pc = next] /\ UNCHANGED rowLock
                       ELSE End(r) /\ Release(req[r].payment),
           psp' \in [Payments -> PspRecord],
           UNCHANGED <<rows, trail, published>>
    PROVE  \E k : RequestStepOK(r, k)
<1> DEFINE p == req[r].payment
<1>1. req[r].pc \in LockedLabels /\ p \in Payments /\ rowLock[p] = r
      /\ \A q \in Payments : rowLock[q] = r => q = p
  BY HoldsOne DEF LockedLabels
<1>2. EffectTypes'
  BY Types, AnsweredFaults, EffectTypesIf DEF EffectTypes
<1>3. CASE a = "ok"
  <2>1. PICK k : k = [req[r] EXCEPT !.pc = next]
    OBVIOUS
  <2>2. req' = [req EXCEPT ![r] = k] /\ UNCHANGED rowLock
    BY <1>3, <2>1, Types
  <2>3. req[r] \in RequestRecord /\ next \in LockedLabels /\ next \notin CreateLabels
    BY Types DEF LockedLabels, CreateLabels
  <2>4. /\ k \in RequestRecord /\ k.pc = next /\ k.payment = p
        /\ k.seen = req[r].seen /\ k.total = req[r].total /\ k.amount = req[r].amount
    BY <2>1, <2>3 DEF RequestRecord, ActiveLabels
  <2>5. Relies(r, req[r]) /\ rows' = rows
    BY Types
  <2>6. Relies(r, k)'
    BY <1>1, <2>2, <2>3, <2>4, <2>5
       DEF Relies, LockedLabels, CreateLabels, CaptureLabels, RefundLabels, CancelLabels
  <2>7. StoreStep(r)
    BY <2>2, QuietStoreStep
  <2>8. RequestStepOK(r, k)
    BY <1>1, <1>2, <2>2, <2>3, <2>4, <2>6, <2>7, Types DEF RequestStepOK
  <2> QED
    BY <2>8
<1>4. CASE a # "ok"
  <2>1. End(r) /\ rowLock' = [rowLock EXCEPT ![p] = NoOwner]
    BY <1>4 DEF Release
  <2>2. /\ rowLock' \in [Payments -> Requests \cup {NoOwner}]
        /\ rowLock'[p] = NoOwner /\ \A q \in Payments \ {p} : rowLock'[q] = rowLock[q]
    BY <1>1, <2>1, Types
  <2>3. \A q \in Payments : rowLock'[q] \in {rowLock[q], NoOwner} /\ rowLock'[q] # r
    BY <1>1, <2>2, OwnerAssumption
  <2>4. StoreStep(r)
    BY <1>1, <2>2, QuietStoreStep
  <2> QED
    BY <1>2, <2>1, <2>2, <2>3, <2>4, EndOK
<1> QED
  BY <1>3, <1>4

LEMMA CapturePspOK ==
    ASSUME IInv, NEW r \in Requests, CapturePsp(r)
    PROVE  \E k : RequestStepOK(r, k)
<1> DEFINE p == req[r].payment
<1>1. PICK a \in Answers :
          /\ Answered(a)
          /\ psp' = IF CarriedOut(a) THEN [psp EXCEPT ![p].captures = @ + 1] ELSE psp
          /\ IF a = "ok" THEN req' = [req EXCEPT ![r].pc = "commit_capture"] /\ UNCHANGED rowLock
                         ELSE End(r) /\ Release(p)
  BY DEF CapturePsp
<1>2. req[r].pc = "psp_capture" /\ UNCHANGED <<rows, trail, published>>
  BY DEF CapturePsp
<1>3. p \in Payments
  BY <1>2, HoldsOne DEF LockedLabels
<1> DEFINE rec == [psp[p] EXCEPT !.captures = @ + 1]
<1>4. psp' \in [Payments -> PspRecord]
  <2>1. psp[p] \in PspRecord /\ rec \in PspRecord
    BY <1>3, Types DEF PspRecord
  <2>2. psp' = psp \/ psp' = [psp EXCEPT ![p] = rec]
    BY <1>1
  <2> HIDE DEF rec
  <2> QED
    BY <1>3, <2>1, <2>2, Types
<1> QED
  BY <1>1, <1>2, <1>4, LockedCallOK

LEMMA RefundPspOK ==
    ASSUME IInv, NEW r \in Requests, RefundPsp(r)
    PROVE  \E k : RequestStepOK(r, k)
<1> DEFINE p == req[r].payment
<1>1. PICK a \in Answers :
          /\ Answered(a)
          /\ psp' = IF CarriedOut(a) THEN [psp EXCEPT ![p].refunded = @ + req[r].amount] ELSE psp
          /\ IF a = "ok" THEN req' = [req EXCEPT ![r].pc = "commit_refund"] /\ UNCHANGED rowLock
                         ELSE End(r) /\ Release(p)
  BY DEF RefundPsp
<1>2. req[r].pc = "psp_refund" /\ UNCHANGED <<rows, trail, published>>
  BY DEF RefundPsp
<1>3. p \in Payments /\ req[r].amount \in Nat
  BY <1>2, HoldsOne, Types DEF LockedLabels, RequestRecord
<1> DEFINE rec == [psp[p] EXCEPT !.refunded = @ + req[r].amount]
<1>4. psp' \in [Payments -> PspRecord]
  <2>1. psp[p] \in PspRecord /\ rec \in PspRecord
    BY <1>3, Types DEF PspRecord
  <2>2. psp' = psp \/ psp' = [psp EXCEPT ![p] = rec]
    BY <1>1
  <2> HIDE DEF rec
  <2> QED
    BY <1>3, <2>1, <2>2, Types
<1> QED
  BY <1>1, <1>2, <1>4, LockedCallOK

\* A commit under the lock: one legal write, and the lock is released.
LEMMA CommitOK ==
    ASSUME IInv, NEW r \in Requests, req[r].pc \in LockedLabels,
           NEW row \in Row, NEW from \in Status,
           from = rows[req[r].payment].status, from # "created",
           ValidateTransition(from, row.status), row.status \in Status \ {"created"},
           row.pspId = rows[req[r].payment].pspId,
           rows[req[r].payment].totalRefunded <= row.totalRefunded,
           row.totalRefunded <= Amount[req[r].payment],
           WriteRow(req[r].payment, row, from, "api"),
           Release(req[r].payment), Publish(req[r].payment, from, row.status, "api"), End(r),
           UNCHANGED <<psp, faults>>
    PROVE  RequestStepOK(r, Done)
<1> DEFINE p == req[r].payment
<1>1. p \in Payments /\ rowLock[p] = r /\ \A q \in Payments : rowLock[q] = r => q = p
  BY HoldsOne
<1>2. /\ rowLock' \in [Payments -> Requests \cup {NoOwner}]
      /\ rowLock'[p] = NoOwner /\ \A q \in Payments \ {p} : rowLock'[q] = rowLock[q]
  BY <1>1, Types DEF Release
<1>3. \A q \in Payments : rowLock'[q] \in {rowLock[q], NoOwner} /\ rowLock'[q] # r
  BY <1>1, <1>2, OwnerAssumption
<1>4. LegalStep(from, row.status) /\ "api" \in Triggers
  BY DEF LegalStep, Status, NoStatus, Triggers
<1>5. \A q \in Requests \ {r} : req[q].pc \in CreateLabels => req[q].payment # p
  BY <1>1, NotBeingCreated
<1>6. \A q \in Payments : rowLock[q] \notin {NoOwner, r} => rowLock'[q] = rowLock[q]
  BY <1>1, <1>2
<1>7. StoreStep(r)
  BY <1>1, <1>4, <1>5, <1>6, WriteStoreStep
<1>8. psp' \in [Payments -> PspRecord] /\ faults' \in 0 .. MaxFaults /\ published' \subseteq Event
  BY <1>1, <1>4, Types, PublishEvent DEF EffectTypes
<1> QED
  BY <1>2, <1>3, <1>7, <1>8, EffectTypesIf, EndOK

LEMMA CaptureCommitOK ==
    ASSUME IInv, NEW r \in Requests, CaptureCommit(r)
    PROVE  RequestStepOK(r, Done)
<1> DEFINE p == req[r].payment
<1> DEFINE row == [rows[p] EXCEPT !.status = "captured"]
<1>1. /\ req[r].pc = "commit_capture" /\ WriteRow(p, row, "authorized", "api")
      /\ Release(p) /\ Publish(p, "authorized", "captured", "api") /\ End(r)
      /\ UNCHANGED <<psp, faults>>
  BY DEF CaptureCommit
<1>2. p \in Payments /\ rows[p].status = "authorized" /\ req[r].pc \in LockedLabels
  BY <1>1, HoldsOne, Types DEF Relies, LockedLabels, CaptureLabels
<1>3. rows[p] \in Row /\ rows[p].totalRefunded \in Nat /\ rows[p].totalRefunded <= Amount[p]
  BY <1>2, Types DEF Row, IInv, ServiceInv, RowInv
<1>4. /\ row \in Row /\ row.status = "captured" /\ row.pspId = rows[p].pspId
      /\ row.totalRefunded = rows[p].totalRefunded
  BY <1>3 DEF Row, Status
<1> HIDE DEF row
<1>5. /\ ValidateTransition("authorized", "captured") /\ "authorized" \in Status
      /\ "captured" \in Status \ {"created"}
  BY DEF ValidateTransition, validTransitions, Status
<1>6. rows[p].totalRefunded <= row.totalRefunded /\ row.totalRefunded <= Amount[p]
  BY <1>3, <1>4
<1> HIDE DEF p
<1> QED
  BY <1>1, <1>2, <1>4, <1>5, <1>6, CommitOK DEF p

LEMMA RefundCommitOK ==
    ASSUME IInv, NEW r \in Requests, RefundCommit(r)
    PROVE  RequestStepOK(r, Done)
<1> DEFINE p == req[r].payment
<1> DEFINE newTotal == req[r].total + req[r].amount
<1> DEFINE newStatus == RefundStatus(p, newTotal)
<1> DEFINE row == [rows[p] EXCEPT !.status = newStatus, !.totalRefunded = newTotal]
<1>1. /\ req[r].pc = "commit_refund" /\ WriteRow(p, row, req[r].seen, "api")
      /\ Release(p) /\ Publish(p, req[r].seen, newStatus, "api") /\ End(r)
      /\ UNCHANGED <<psp, faults>>
  BY DEF RefundCommit
<1>2. /\ p \in Payments /\ req[r].pc \in LockedLabels
      /\ rows[p].status = req[r].seen /\ req[r].seen \in {"captured", "partially_refunded"}
      /\ rows[p].totalRefunded = req[r].total /\ newTotal <= Amount[p]
  BY <1>1, HoldsOne, Types DEF Relies, LockedLabels, RefundLabels
<1>3. rows[p] \in Row /\ req[r].total \in Nat /\ req[r].amount \in Nat /\ newTotal \in Nat
  BY <1>2, Types DEF RequestRecord
<1>4. newStatus \in {"refunded", "partially_refunded"}
  BY DEF RefundStatus
<1>5. rows[p].totalRefunded <= newTotal
  BY <1>2, <1>3
<1> HIDE DEF newTotal, newStatus
<1>6. /\ row \in Row /\ row.status = newStatus /\ row.pspId = rows[p].pspId
      /\ row.totalRefunded = newTotal
  BY <1>3, <1>4 DEF Row, Status
<1> HIDE DEF row
<1>7. /\ ValidateTransition(req[r].seen, newStatus) /\ req[r].seen \in Status /\ req[r].seen # "created"
      /\ newStatus \in Status \ {"created"}
  BY <1>2, <1>4 DEF ValidateTransition, validTransitions, Status
<1> QED
  BY <1>1, <1>2, <1>5, <1>6, <1>7, CommitOK

\* A request without a lock moves to k and writes no row.
LEMMA MoveOK ==
    ASSUME IInv, NEW r \in Requests, req[r].pc \notin LockedLabels,
           NEW k \in RequestRecord, k.pc \in CancelLabels, req' = [req EXCEPT ![r] = k],
           Relies(r, k), EffectTypes', UNCHANGED <<rows, trail, rowLock>>
    PROVE  RequestStepOK(r, k)
<1>1. Relies(r, k)' /\ k.pc \notin CreateLabels
  BY DEF Relies, CancelLabels, CreateLabels
<1>2. StoreStep(r)
  BY QuietStoreStep
<1>3. \A p \in Payments : rowLock'[p] = rowLock[p] /\ rowLock[p] # r
  BY HoldsNone
<1> QED
  BY <1>1, <1>2, <1>3, Types DEF RequestStepOK

LEMMA CancelReadOK ==
    ASSUME IInv, NEW r \in Requests, NEW p \in Payments, CancelRead(r, p)
    PROVE  \E k : RequestStepOK(r, k)
<1>1. PICK k : k = [Idle EXCEPT !.pc = "psp_cancel", !.payment = p,
                                !.attempt = rows[p].pspId, !.seen = rows[p].status]
  OBVIOUS
<1>2. /\ req[r].pc = "idle" /\ rows[p].status = "authorized" /\ rows[p].pspId # NullPspId
      /\ req' = [req EXCEPT ![r] = k] /\ UNCHANGED <<rows, trail, rowLock, psp, published, faults>>
  BY <1>1 DEF CancelRead, Loads, storeVars
<1>3. rows[p].pspId \in Nat /\ rows[p].status \in Status \cup {NoStatus}
  BY Types DEF Row
<1>4. /\ k \in RequestRecord /\ k.pc = "psp_cancel" /\ k.payment = p
      /\ k.attempt = rows[p].pspId /\ k.seen = rows[p].status
  BY <1>1, <1>3 DEF RequestRecord, Idle, ActiveLabels
<1>5. Relies(r, k)
  BY <1>2, <1>4 DEF Relies, LockedLabels, CreateLabels, CaptureLabels, RefundLabels, CancelLabels
<1>6. EffectTypes'
  BY <1>2, Types DEF EffectTypes
<1> QED
  BY <1>2, <1>4, <1>5, <1>6, MoveOK DEF LockedLabels, CancelLabels

\* A request that holds no lock ends and writes no row.
LEMMA QuietEndOK ==
    ASSUME IInv, NEW r \in Requests, req[r].pc \notin LockedLabels, End(r), EffectTypes',
           UNCHANGED <<rows, trail, rowLock>>
    PROVE  RequestStepOK(r, Done)
<1>1. StoreStep(r)
  BY QuietStoreStep
<1>2. \A p \in Payments : rowLock'[p] = rowLock[p] /\ rowLock[p] # r
  BY HoldsNone
<1> QED
  BY <1>1, <1>2, Types, EndOK

LEMMA CancelPspOK ==
    ASSUME IInv, NEW r \in Requests, CancelPsp(r)
    PROVE  \E k : RequestStepOK(r, k)
<1> DEFINE p == req[r].payment
<1>1. PICK a \in CancelAnswers :
          /\ Answered(a)
          /\ psp' = IF CarriedOut(a) THEN [psp EXCEPT ![p].cancels = @ + 1] ELSE psp
          /\ IF Succeeds(a) THEN req' = [req EXCEPT ![r].pc = "finish_cancel"] ELSE End(r)
  BY DEF CancelPsp
<1>2. req[r].pc = "psp_cancel" /\ UNCHANGED <<rows, trail, rowLock, published>>
  BY DEF CancelPsp, storeVars
<1>3. p \in Payments /\ Relies(r, req[r]) /\ req[r].pc \notin LockedLabels
  BY <1>2, Types DEF Relies, ActiveLabels, LockedLabels
<1> DEFINE rec == [psp[p] EXCEPT !.cancels = @ + 1]
<1>4. psp' \in [Payments -> PspRecord]
  <2>1. psp[p] \in PspRecord /\ rec \in PspRecord
    BY <1>3, Types DEF PspRecord
  <2>2. psp' = psp \/ psp' = [psp EXCEPT ![p] = rec]
    BY <1>1
  <2> HIDE DEF rec
  <2> QED
    BY <1>3, <2>1, <2>2, Types
<1>5. EffectTypes'
  BY <1>1, <1>2, <1>4, Types, AnsweredFaults, EffectTypesIf DEF EffectTypes
<1>6. CASE Succeeds(a)
  <2>1. PICK k : k = [req[r] EXCEPT !.pc = "finish_cancel"]
    OBVIOUS
  <2>2. req' = [req EXCEPT ![r] = k]
    BY <1>1, <1>6, <2>1, Types
  <2>3. /\ k \in RequestRecord /\ k.pc = "finish_cancel" /\ k.payment = p
        /\ k.seen = req[r].seen /\ k.attempt = req[r].attempt
    BY <2>1, Types DEF RequestRecord, ActiveLabels
  <2>4. Relies(r, k)
    BY <1>2, <1>3, <2>3 DEF Relies, LockedLabels, CreateLabels, CaptureLabels, RefundLabels, CancelLabels
  <2> QED
    BY <1>2, <1>3, <1>5, <2>2, <2>3, <2>4, MoveOK DEF CancelLabels
<1>7. CASE ~Succeeds(a)
  BY <1>1, <1>2, <1>3, <1>5, <1>7, QuietEndOK
<1> QED
  BY <1>6, <1>7

LEMMA CancelFinishOK ==
    ASSUME IInv, NEW r \in Requests, CancelFinish(r)
    PROVE  RequestStepOK(r, Done)
<1> DEFINE p == req[r].payment
<1> DEFINE id == req[r].attempt
<1>1. /\ req[r].pc = "finish_cancel" /\ updatePaymentState(p, req[r].seen, "cancelled", id, "api")
      /\ End(r) /\ UNCHANGED <<rowLock, psp, faults>>
  BY DEF CancelFinish
<1>2. p \in Payments /\ req[r].seen = "authorized" /\ rows[p].pspId = id /\ id # NullPspId
  BY <1>1, Types DEF Relies, ActiveLabels, CancelLabels
<1>3. /\ "authorized" \in Status /\ "cancelled" \in Status \ {"created"} /\ id \in Nat
      /\ "api" \in Triggers /\ req[r].pc \notin LockedLabels
  BY <1>1, Types DEF RequestRecord, Status, Triggers, LockedLabels
<1>4. \A q \in Requests \ {r} : req[q].pc \in CreateLabels => req[q].payment # p
  BY <1>2, Types DEF Relies, NoRow
<1> HIDE DEF p, id
<1> QED
  BY <1>1, <1>2, <1>3, <1>4, UpdateOK

LEMMA RejectOK ==
    ASSUME IInv, NEW r \in Requests, NEW p \in Payments, Reject(r, p)
    PROVE  RequestStepOK(r, Done)
<1>1. req[r].pc = "idle" /\ End(r) /\ UNCHANGED <<rows, trail, rowLock, psp, published, faults>>
  BY DEF Reject, storeVars
<1>2. EffectTypes'
  BY <1>1, Types DEF EffectTypes
<1> QED
  BY <1>1, <1>2, QuietEndOK DEF LockedLabels

\* An early end releases what the request held.
LEMMA AbortOK ==
    ASSUME IInv, NEW r \in Requests, Abort(r)
    PROVE  RequestStepOK(r, Done)
<1>1. /\ faults < MaxFaults /\ faults' = faults + 1 /\ End(r)
      /\ rowLock' = [p \in Payments |-> IF rowLock[p] = r THEN NoOwner ELSE rowLock[p]]
      /\ UNCHANGED <<rows, trail, psp, published>>
  BY DEF Abort
<1>2. /\ rowLock' \in [Payments -> Requests \cup {NoOwner}]
      /\ \A p \in Payments : rowLock'[p] = IF rowLock[p] = r THEN NoOwner ELSE rowLock[p]
  BY <1>1, Types
<1>3. \A p \in Payments : rowLock'[p] \in {rowLock[p], NoOwner} /\ rowLock'[p] # r
  BY <1>2, OwnerAssumption
<1>4. StoreStep(r)
  BY <1>1, <1>2, QuietStoreStep
<1>5. EffectTypes'
  BY <1>1, Types, FaultsAssumption DEF EffectTypes
<1> QED
  BY <1>1, <1>2, <1>3, <1>4, <1>5, EndOK

\* Whatever a request does, the invariant holds afterwards.
LEMMA RequestStepKeeps ==
    ASSUME IInv, NEW r \in Requests, RequestStep(r)
    PROVE  IInv' /\ \A p \in Payments : RowStep(p)
<1>1. ASSUME Arrive(r)
      PROVE  \E k : RequestStepOK(r, k)
  <2>1. PICK p \in Payments :
            \/ CreateInsert(r, p) \/ CaptureLock(r, p)
            \/ \E n \in 1 .. Amount[p] : RefundLock(r, p, n)
            \/ CancelRead(r, p) \/ Reject(r, p)
    BY <1>1 DEF Arrive
  <2> QED
    BY <2>1, CreateInsertOK, CaptureLockOK, RefundLockOK, CancelReadOK, RejectOK
<1>2. ASSUME Proceed(r)
      PROVE  \E k : RequestStepOK(r, k)
  BY <1>2, PspCreateOK, CreateFinishOK, CapturePspOK, CaptureCommitOK, RefundPspOK, RefundCommitOK,
     CancelPspOK, CancelFinishOK DEF Proceed
<1>3. \E k : RequestStepOK(r, k)
  BY <1>1, <1>2, AbortOK DEF RequestStep
<1>4. PICK k : RequestStepOK(r, k)
  BY <1>3
<1> QED
  BY <1>4, RequestKeeps DEF RequestStep

-----------------------------------------------------------------------------
(* The deliveries.  They take no lock that outlives their step, so they are *)
(* store steps of an actor that owns nothing.                              *)

WebhookRecord ==
    [pc : WebhookActive \cup {"idle", "done"}, event : Events \cup {NoEvent},
     payment : Payments \cup {Unmatched}, claimed : BOOLEAN, res : {"none", "nil", "error"}]

InboxType == [Events -> {"absent", "processing", "processed", "failed"}]

Entry == [debit : Nat, credit : Nat, running : Int]
Book == [balance : [Accounts -> Int], entries : [Accounts -> Seq(Entry)]]

LEMMA WebhookTypes ==
    ASSUME IInv
    PROVE  /\ wh \in [Deliveries -> WebhookRecord] /\ inbox \in InboxType
           /\ book \in Book /\ posted \in Seq(Transaction)
           /\ WebhookTypeOK
BY DEF IInv, TypeOK, WebhookTypeOK, WebhookRecord, InboxType, Book, Entry, Transaction

\* A store step that leaves locks and requests alone keeps the service's part.
LEMMA ServiceKeeps ==
    ASSUME IInv, StoreStep(NoOwner), UNCHANGED <<rowLock, req, psp, published>>,
           faults' \in 0 .. MaxFaults
    PROVE  PaymentTypeOK' /\ TrailSound' /\ ServiceInv' /\ \A p \in Payments : RowStep(p)
<1>1. StoreTypeOK' /\ TrailSound'
  BY Types, StoreStepSound
<1>2. RowInv' /\ \A p \in Payments : RowStep(p)
  BY Types, StoreStepRows DEF IInv, ServiceInv
<1>3. PaymentTypeOK'
  BY <1>1 DEF IInv, TypeOK, PaymentTypeOK
<1>4. ASSUME NEW q \in Requests
      PROVE  Relies(q, req[q])'
  <2>1. PICK k : k = req[q]
    OBVIOUS
  <2>2. Relies(q, k)'
    BY <2>1, OthersKeep, OwnerAssumption
  <2>3. req'[q] = k
    BY <2>1
  <2> QED
    BY <2>2, <2>3 DEF Relies
<1>5. OneCreator' /\ LockInv'
  BY DEF IInv, ServiceInv, OneCreator, LockInv
<1> QED
  BY <1>1, <1>2, <1>3, <1>4, <1>5 DEF ServiceInv

\* Delivery d becomes k: a payment it has matched has a PSP id, and an event
\* it claims is one that was absent.
DeliveryOK(d, k) ==
    /\ k \in WebhookRecord
    /\ wh' = [wh EXCEPT ![d] = k]
    /\ inbox' \in InboxType
    /\ \A e \in Events : inbox[e] # "absent" => inbox'[e] # "absent"
    /\ k.payment # Unmatched => rows[k.payment].pspId # NullPspId
    /\ k.pc \in WebhookActive => k.event \in Events
    /\ k.pc \in {"idle", "dup_check", "lookup", "insert"} => ~k.claimed
    /\ k.pc \in {"process", "finalize"} => k.claimed
    /\ k.claimed =>
        \/ wh[d].claimed /\ k.event = wh[d].event
        \/ k.event \in Events /\ inbox[k.event] = "absent" /\ inbox'[k.event] # "absent"

LEMMA DeliveryKeeps ==
    ASSUME IInv, NEW d \in Deliveries, NEW k, DeliveryOK(d, k), \A p \in Payments : RowStep(p)
    PROVE  /\ wh' \in [Deliveries -> WebhookRecord] /\ inbox' \in InboxType
           /\ MatchInv' /\ ClaimInv' /\ EventClaimedOnce'
<1>1. /\ wh \in [Deliveries -> WebhookRecord] /\ MatchInv /\ ClaimInv /\ EventClaimedOnce
  BY WebhookTypes DEF IInv, WebhookInv
<1>2. wh'[d] = k /\ \A c \in Deliveries \ {d} : wh'[c] = wh[c]
  BY <1>1 DEF DeliveryOK
<1>3. wh' \in [Deliveries -> WebhookRecord] /\ inbox' \in InboxType
  BY <1>1 DEF DeliveryOK
<1>4. MatchInv'
  <2>1. \A c \in Deliveries : wh'[c].payment # Unmatched =>
            wh'[c].payment \in Payments /\ rows[wh'[c].payment].pspId # NullPspId
    BY <1>1, <1>2 DEF MatchInv, DeliveryOK, WebhookRecord
  <2> QED
    BY <2>1 DEF MatchInv, RowStep
<1>5. ClaimInv'
  BY <1>1, <1>2 DEF ClaimInv, DeliveryOK
<1>6. EventClaimedOnce'
  <2>1. ASSUME NEW c \in Deliveries, c # d, wh[c].claimed, k.claimed, wh[c].event = k.event
        PROVE  FALSE
    BY <1>1, <2>1 DEF DeliveryOK, ClaimInv, EventClaimedOnce
  <2> QED
    BY <1>1, <1>2, <2>1 DEF EventClaimedOnce
<1> QED
  BY <1>3, <1>4, <1>5, <1>6

-----------------------------------------------------------------------------
(* The books. *)

\* Posting an entry moves the balance of its account only.
LEMMA PostEntryBook ==
    ASSUME NEW b \in Book, NEW a \in Accounts, NEW dr \in Nat, NEW cr \in Nat
    PROVE  /\ PostEntry(b, a, dr, cr) \in Book
           /\ PostEntry(b, a, dr, cr).balance = [b.balance EXCEPT ![a] = NewBalance(a, b.balance[a], dr, cr)]
<1> DEFINE nb == NewBalance(a, b.balance[a], dr, cr)
<1>1. b.balance \in [Accounts -> Int] /\ b.entries \in [Accounts -> Seq(Entry)]
  BY DEF Book
<1>2. nb \in Int
  BY <1>1 DEF NewBalance
<1> HIDE DEF nb
<1>3. [debit |-> dr, credit |-> cr, running |-> nb] \in Entry
  BY <1>2 DEF Entry
<1> HIDE DEF Entry
<1>4. Append(b.entries[a], [debit |-> dr, credit |-> cr, running |-> nb]) \in Seq(Entry)
  BY <1>1, <1>3
<1>5. [b.entries EXCEPT ![a] = Append(@, [debit |-> dr, credit |-> cr, running |-> nb])]
          \in [Accounts -> Seq(Entry)]
  BY <1>1, <1>4
<1>6. [b.balance EXCEPT ![a] = nb] \in [Accounts -> Int]
  BY <1>1, <1>2
<1> QED
  BY <1>5, <1>6 DEF PostEntry, Book, nb

LEMMA Chart ==
    /\ "PSP_SETTLEMENT" \in Accounts /\ "MERCHANT_PAY" \in Accounts /\ "REFUND_EXP" \in Accounts
    /\ AccountType["PSP_SETTLEMENT"] = "asset" /\ AccountType["MERCHANT_PAY"] = "liability"
    /\ AccountType["REFUND_EXP"] = "expense"
BY DEF Accounts, AccountType

\* The two postings of the webhooks keep the trial balance.
LEMMA PostBalanced ==
    ASSUME book \in Book, TrialBalance, NEW n \in Nat, NEW debited, NEW credited,
           \/ debited = "PSP_SETTLEMENT" /\ credited = "MERCHANT_PAY"
           \/ debited = "MERCHANT_PAY" /\ credited = "REFUND_EXP",
           book' = PostEntry(PostEntry(book, debited, n, 0), credited, 0, n)
    PROVE  book' \in Book /\ TrialBalance'
<1>1. debited \in Accounts /\ credited \in Accounts
  BY Chart
<1>2. PICK b : b = PostEntry(book, debited, n, 0)
  OBVIOUS
<1>3. b \in Book /\ b.balance = [book.balance EXCEPT ![debited] = NewBalance(debited, book.balance[debited], n, 0)]
  BY <1>1, <1>2, PostEntryBook
<1>4. /\ book' \in Book
      /\ book'.balance = [b.balance EXCEPT ![credited] = NewBalance(credited, b.balance[credited], 0, n)]
  BY <1>1, <1>2, <1>3, PostEntryBook
<1>5. book.balance \in [Accounts -> Int] /\ b.balance \in [Accounts -> Int]
  BY <1>3 DEF Book
<1>6. CASE debited = "PSP_SETTLEMENT" /\ credited = "MERCHANT_PAY"
  <2>1. /\ book'.balance["PSP_SETTLEMENT"] = book.balance["PSP_SETTLEMENT"] + n
        /\ book'.balance["MERCHANT_PAY"] = book.balance["MERCHANT_PAY"] + n
        /\ book'.balance["REFUND_EXP"] = book.balance["REFUND_EXP"]
    BY <1>3, <1>4, <1>5, <1>6, Chart DEF NewBalance
  <2> QED
    BY <1>4, <1>5, <2>1, Chart DEF TrialBalance
<1>7. CASE debited = "MERCHANT_PAY" /\ credited = "REFUND_EXP"
  <2>1. /\ book'.balance["PSP_SETTLEMENT"] = book.balance["PSP_SETTLEMENT"]
        /\ book'.balance["MERCHANT_PAY"] = book.balance["MERCHANT_PAY"] - n
        /\ book'.balance["REFUND_EXP"] = book.balance["REFUND_EXP"] - n
    BY <1>3, <1>4, <1>5, <1>7, Chart DEF NewBalance
  <2> QED
    BY <1>4, <1>5, <2>1, Chart DEF TrialBalance
<1> QED
  BY <1>6, <1>7

\* What the postings of a step have to keep.
BooksOK == book \in Book /\ posted \in Seq(Transaction) /\ BookedInv /\ CaptureBookedOnce /\ TrialBalance

LEMMA NoPosting ==
    ASSUME IInv, StoreStep(NoOwner), UNCHANGED <<book, posted>>
    PROVE  BooksOK'
<1>1. \A i \in DOMAIN posted : posted[i].payment \in Payments
  BY WebhookTypes, PostedRecords DEF Transaction
<1>2. BookedInv'
  BY <1>1, Types, CapturedStays DEF IInv, ServiceInv, WebhookInv, BookedInv
<1> QED
  BY <1>2, WebhookTypes DEF IInv, WebhookInv, BooksOK, CaptureBookedOnce, TrialBalance

\* A capture is posted in the step that makes its payment captured, so no
\* other capture of it can have been posted before.
LEMMA Posting ==
    ASSUME IInv, StoreStep(NoOwner), NEW p \in Payments, NEW type \in {"payment_capture", "refund"},
           NEW n \in Nat, NEW debited, NEW credited, Post(p, type, n, debited, credited),
           \/ debited = "PSP_SETTLEMENT" /\ credited = "MERCHANT_PAY"
           \/ debited = "MERCHANT_PAY" /\ credited = "REFUND_EXP",
           type = "payment_capture" =>
               rows[p].status \notin CapturedOrLater /\ rows'[p].status \in CapturedOrLater
    PROVE  BooksOK'
<1> DEFINE t == [payment |-> p, type |-> type, amount |-> n]
<1>1. book' \in Book /\ TrialBalance'
  BY WebhookTypes, PostBalanced DEF IInv, WebhookInv, Post
<1>2. t \in Transaction /\ t.payment = p /\ t.type = type
  BY DEF Transaction
<1>3. posted' = Append(posted, t)
  BY DEF Post
<1> HIDE DEF t
<1>4. /\ posted \in Seq(Transaction) /\ Len(posted) \in Nat /\ DOMAIN posted = 1 .. Len(posted)
      /\ \A i \in DOMAIN posted : posted[i].payment \in Payments
  BY WebhookTypes, PostedRecords DEF Transaction
<1>5. /\ posted' \in Seq(Transaction) /\ DOMAIN posted' = 1 .. Len(posted) + 1
      /\ posted'[Len(posted) + 1] = t
      /\ \A i \in 1 .. Len(posted) : posted'[i] = posted[i]
  <2> HIDE DEF Transaction
  <2> QED
    BY <1>2, <1>3, <1>4, AppendProperties
<1>6. BookedInv'
  <2>1. ASSUME NEW i \in 1 .. Len(posted), posted[i].type = "payment_capture"
        PROVE  rows'[posted[i].payment].status \in CapturedOrLater
    BY <1>4, <2>1, Types, CapturedStays DEF IInv, ServiceInv, WebhookInv, BookedInv
  <2> QED
    BY <1>2, <1>4, <1>5, <2>1 DEF BookedInv
<1>7. CaptureBookedOnce'
  <2>1. ASSUME NEW i \in 1 .. Len(posted), posted[i].type = "payment_capture", type = "payment_capture"
        PROVE  posted[i].payment # p
    BY <1>4, <2>1 DEF IInv, WebhookInv, BookedInv
  <2>2. CaptureBookedOnce
    BY DEF IInv, WebhookInv
  <2> QED
    BY <1>2, <1>4, <1>5, <2>1, <2>2 DEF CaptureBookedOnce
<1> QED
  BY <1>1, <1>5, <1>6, <1>7 DEF BooksOK

-----------------------------------------------------------------------------
(* The steps of a delivery. *)

\* What a step of a delivery amounts to, apart from the faults it uses up.
Delivered(d) ==
    /\ \E k : DeliveryOK(d, k)
    /\ StoreStep(NoOwner)
    /\ BooksOK'
    /\ UNCHANGED rowLock

LEMMA DeliveredKeeps ==
    ASSUME IInv, NEW d \in Deliveries, Delivered(d), UNCHANGED <<req, psp, published>>,
           faults' \in 0 .. MaxFaults
    PROVE  IInv' /\ \A p \in Payments : RowStep(p)
<1>1. PaymentTypeOK' /\ TrailSound' /\ ServiceInv' /\ \A p \in Payments : RowStep(p)
  BY ServiceKeeps DEF Delivered
<1>2. PICK k : DeliveryOK(d, k)
  BY DEF Delivered
<1>3. /\ wh' \in [Deliveries -> WebhookRecord] /\ inbox' \in InboxType
      /\ MatchInv' /\ ClaimInv' /\ EventClaimedOnce'
  BY <1>1, <1>2, DeliveryKeeps
<1>4. WebhookTypeOK' /\ WebhookInv'
  BY <1>3 DEF Delivered, BooksOK, WebhookTypeOK, WebhookInv, WebhookRecord, InboxType, Book, Entry, Transaction
<1> QED
  BY <1>1, <1>4 DEF IInv, TypeOK

\* The fields of a delivery, and what IInv says of it.
LEMMA DeliveryFacts ==
    ASSUME IInv, NEW d \in Deliveries
    PROVE  /\ wh[d] \in WebhookRecord /\ wh[d].payment \in Payments \cup {Unmatched}
           /\ wh[d].payment # Unmatched => rows[wh[d].payment].pspId # NullPspId
           /\ wh[d].pc \in WebhookActive => wh[d].event \in Events
           /\ wh[d].pc \in {"idle", "dup_check", "lookup", "insert"} => ~wh[d].claimed
           /\ wh[d].pc \in {"process", "finalize"} => wh[d].claimed
           /\ wh[d].claimed => wh[d].event \in Events
BY WebhookTypes DEF IInv, WebhookInv, MatchInv, ClaimInv, WebhookRecord

\* A step that touches neither rows nor books.
LEMMA QuietDelivery ==
    ASSUME IInv, NEW d \in Deliveries, NEW k, DeliveryOK(d, k), UNCHANGED <<rows, trail, rowLock, book, posted>>
    PROVE  Delivered(d)
<1>1. StoreStep(NoOwner)
  BY QuietStoreStep
<1> QED
  BY <1>1, NoPosting DEF Delivered

\* Returning keeps the event and the claim.
LEMMA ReturnOK ==
    ASSUME IInv, NEW d \in Deliveries, NEW result \in {"none", "nil", "error"}, Return(d, result),
           inbox' \in InboxType, \A e \in Events : inbox[e] # "absent" => inbox'[e] # "absent"
    PROVE  \E k : DeliveryOK(d, k)
<1>1. PICK k : k = [wh[d] EXCEPT !.pc = "done", !.res = result, !.payment = Unmatched]
  OBVIOUS
<1>2. wh' = [wh EXCEPT ![d] = k]
  BY <1>1, WebhookTypes DEF Return
<1>3. /\ k \in WebhookRecord /\ k.pc = "done" /\ k.payment = Unmatched
      /\ k.claimed = wh[d].claimed /\ k.event = wh[d].event
  BY <1>1, DeliveryFacts DEF WebhookRecord
<1>4. DeliveryOK(d, k)
  BY <1>2, <1>3 DEF DeliveryOK, WebhookActive
<1> QED
  BY <1>4

LEMMA ReceiveOK ==
    ASSUME IInv, NEW d \in Deliveries, NEW e \in Events, Receive(d, e)
    PROVE  Delivered(d)
<1>1. wh[d].pc = "idle" /\ UNCHANGED <<rows, trail, rowLock, inbox, book, posted>>
  BY DEF Receive, storeVars
<1>2. CASE Return(d, "error")
  BY <1>1, <1>2, WebhookTypes, ReturnOK, QuietDelivery
<1>3. CASE wh' = [wh EXCEPT ![d].pc = "dup_check", ![d].event = e]
  <2>1. PICK k : k = [wh[d] EXCEPT !.pc = "dup_check", !.event = e]
    OBVIOUS
  <2>2. wh' = [wh EXCEPT ![d] = k]
    BY <1>3, <2>1, WebhookTypes
  <2>3. /\ k \in WebhookRecord /\ k.pc = "dup_check" /\ k.event = e
        /\ k.payment = wh[d].payment /\ k.claimed = wh[d].claimed
    BY <2>1, DeliveryFacts DEF WebhookRecord, WebhookActive
  <2>4. DeliveryOK(d, k)
    BY <1>1, <2>2, <2>3, DeliveryFacts, WebhookTypes DEF DeliveryOK
  <2> QED
    BY <1>1, <2>4, QuietDelivery
<1> QED
  BY <1>2, <1>3 DEF Receive

\* A delivery moves on without a claim, with a payment that has a PSP id.
LEMMA AdvanceOK ==
    ASSUME IInv, NEW d \in Deliveries, wh[d].pc \in {"dup_check", "lookup"},
           NEW label \in {"lookup", "insert"}, NEW p \in Payments \cup {Unmatched},
           p # Unmatched => rows[p].pspId # NullPspId,
           wh' = [wh EXCEPT ![d].pc = label, ![d].payment = p],
           UNCHANGED <<rows, trail, rowLock, inbox, book, posted>>
    PROVE  Delivered(d)
<1>1. PICK k : k = [wh[d] EXCEPT !.pc = label, !.payment = p]
  OBVIOUS
<1>2. wh' = [wh EXCEPT ![d] = k]
  BY <1>1, WebhookTypes
<1>3. /\ k \in WebhookRecord /\ k.pc = label /\ k.payment = p
      /\ k.event = wh[d].event /\ k.claimed = wh[d].claimed
  BY <1>1, DeliveryFacts DEF WebhookRecord, WebhookActive
<1>4. DeliveryOK(d, k)
  BY <1>2, <1>3, DeliveryFacts, WebhookTypes DEF DeliveryOK, WebhookActive
<1> QED
  BY <1>4, QuietDelivery

LEMMA CheckDuplicateOK ==
    ASSUME IInv, NEW d \in Deliveries, CheckDuplicate(d)
    PROVE  Delivered(d)
<1>1. wh[d].pc = "dup_check" /\ UNCHANGED <<rows, trail, rowLock, inbox, book, posted>>
  BY DEF CheckDuplicate, storeVars
<1>2. CASE inbox[wh[d].event] = "absent"
  <2>1. wh' = [wh EXCEPT ![d].pc = "lookup", ![d].payment = wh[d].payment]
    <3>1. wh' = [wh EXCEPT ![d] = [wh[d] EXCEPT !.pc = "lookup"]]
      BY <1>2, WebhookTypes DEF CheckDuplicate
    <3>2. [wh[d] EXCEPT !.pc = "lookup"] = [wh[d] EXCEPT !.pc = "lookup", !.payment = wh[d].payment]
      BY DeliveryFacts DEF WebhookRecord
    <3> QED
      BY <3>1, <3>2, WebhookTypes
  <2> QED
    BY <1>1, <2>1, DeliveryFacts, AdvanceOK
<1>3. CASE inbox[wh[d].event] # "absent"
  BY <1>1, <1>3, WebhookTypes, ReturnOK, QuietDelivery DEF CheckDuplicate
<1> QED
  BY <1>2, <1>3

LEMMA LookUpOK ==
    ASSUME IInv, NEW d \in Deliveries, LookUp(d) \/ LookUpFails(d)
    PROVE  Delivered(d)
<1> DEFINE e == wh[d].event
<1>1. wh[d].pc = "lookup" /\ UNCHANGED <<rows, trail, rowLock, inbox, book, posted>>
  BY DEF LookUp, LookUpFails, storeVars
<1>2. e \in Events /\ e.payment \in Payments /\ e.pspId # NullPspId
  BY <1>1, DeliveryFacts, EventAssumption DEF WebhookActive
<1>3. PICK p \in {e.payment, Unmatched} :
          /\ wh' = [wh EXCEPT ![d].pc = "insert", ![d].payment = p]
          /\ p # Unmatched => rows[e.payment].pspId = e.pspId
  <2>1. CASE LookUpFails(d)
    BY <2>1 DEF LookUpFails
  <2>2. CASE LookUp(d) /\ rows[e.payment].pspId = e.pspId
    BY <2>2 DEF LookUp
  <2>3. CASE LookUp(d) /\ rows[e.payment].pspId # e.pspId
    BY <2>3 DEF LookUp
  <2> QED
    BY <2>1, <2>2, <2>3
<1>4. p \in Payments \cup {Unmatched} /\ (p # Unmatched => rows[p].pspId # NullPspId)
  BY <1>2, <1>3
<1> HIDE DEF e
<1> QED
  BY <1>1, <1>3, <1>4, AdvanceOK

LEMMA InsertEventOK ==
    ASSUME IInv, NEW d \in Deliveries, InsertEvent(d)
    PROVE  Delivered(d)
<1> DEFINE e == wh[d].event
<1>1. wh[d].pc = "insert" /\ UNCHANGED <<rows, trail, rowLock, book, posted>>
  BY DEF InsertEvent, storeVars
<1>2. CASE inbox[e] = "absent"
  <2>1. PICK k : k = [wh[d] EXCEPT !.pc = "process", !.claimed = TRUE]
    OBVIOUS
  <2>2. wh' = [wh EXCEPT ![d] = k] /\ inbox' = [inbox EXCEPT ![e] = "processing"]
    BY <1>2, <2>1, WebhookTypes DEF InsertEvent
  <2>3. /\ k \in WebhookRecord /\ k.pc = "process" /\ k.claimed = TRUE
        /\ k.event = e /\ k.payment = wh[d].payment
    BY <2>1, DeliveryFacts DEF WebhookRecord, WebhookActive
  <2>4. e \in Events
    BY <1>1, DeliveryFacts DEF WebhookActive
  <2>5. /\ inbox' \in InboxType /\ inbox'[e] # "absent"
        /\ \A f \in Events : inbox[f] # "absent" => inbox'[f] # "absent"
    BY <2>2, <2>4, WebhookTypes DEF InboxType
  <2>6. DeliveryOK(d, k)
    BY <1>2, <2>2, <2>3, <2>4, <2>5, DeliveryFacts DEF DeliveryOK
  <2> QED
    BY <1>1, <2>6, QuietDelivery
<1>3. CASE inbox[e] # "absent"
  <2>1. Return(d, "error") /\ inbox' = inbox
    BY <1>3 DEF InsertEvent
  <2> QED
    BY <1>1, <2>1, WebhookTypes, ReturnOK, QuietDelivery
<1> QED
  BY <1>2, <1>3

\* A handler ends with its result, and the claim is kept.
LEMMA ProcessedOK ==
    ASSUME IInv, NEW d \in Deliveries, wh[d].pc = "process", NEW result \in {"none", "nil", "error"},
           Processed(d, result), UNCHANGED inbox
    PROVE  \E k : DeliveryOK(d, k)
<1>1. PICK k : k = [wh[d] EXCEPT !.pc = "finalize", !.res = result]
  OBVIOUS
<1>2. wh' = [wh EXCEPT ![d] = k]
  BY <1>1, WebhookTypes DEF Processed
<1>3. /\ k \in WebhookRecord /\ k.pc = "finalize" /\ k.payment = wh[d].payment
      /\ k.claimed = wh[d].claimed /\ k.event = wh[d].event
  BY <1>1, DeliveryFacts DEF WebhookRecord, WebhookActive
<1>4. DeliveryOK(d, k)
  BY <1>2, <1>3, DeliveryFacts, WebhookTypes DEF DeliveryOK, WebhookActive
<1> QED
  BY <1>4

\* A dispatch that commits nothing.
LEMMA NoWritesOK ==
    ASSUME IInv, NEW d \in Deliveries, wh[d].pc = "process", NEW result \in {"nil", "error"},
           Processed(d, result), NoWrites, UNCHANGED <<rowLock, inbox>>
    PROVE  Delivered(d)
<1>1. \E k : DeliveryOK(d, k)
  BY ProcessedOK
<1> QED
  BY <1>1, QuietDelivery DEF NoWrites

\* The write of a webhook is that of a payment that is not being created.
LEMMA WebhookWrite ==
    ASSUME IInv, NEW p \in Payments, rows[p].pspId # NullPspId, Free(p),
           NEW to \in Status \ {"created"}, ValidateTransition(rows[p].status, to),
           WriteRow(p, [rows[p] EXCEPT !.status = to], rows[p].status, "webhook"),
           UNCHANGED rowLock
    PROVE  StoreStep(NoOwner) /\ rows'[p].status = to
<1>1. PICK row : row = [rows[p] EXCEPT !.status = to]
  OBVIOUS
<1>2. rows[p] \in Row
  BY Types
<1>3. /\ row \in Row /\ row.status = to /\ row.pspId = rows[p].pspId
      /\ row.totalRefunded = rows[p].totalRefunded
  BY <1>1, <1>2 DEF Row
<1>4. rows[p].status \notin {NoStatus, "created"}
  BY DEF IInv, ServiceInv, RowInv
<1>5. \A q \in Requests : req[q].pc \in CreateLabels => req[q].payment # p
  BY <1>4, NotBeingCreated
<1>6. LegalStep(rows[p].status, row.status) /\ "webhook" \in Triggers
  BY <1>3, <1>4 DEF LegalStep, Triggers
<1>7. rows[p].totalRefunded <= row.totalRefunded /\ row.totalRefunded <= Amount[p]
  BY <1>2, <1>3 DEF Row, IInv, ServiceInv, RowInv
<1>8. WriteRow(p, row, rows[p].status, "webhook")
  BY <1>1
<1>9. StoreStep(NoOwner)
  BY <1>3, <1>5, <1>6, <1>7, <1>8, WriteStoreStep DEF Free
<1>10. rows'[p] = row
  BY <1>8, Types DEF WriteRow
<1> QED
  BY <1>3, <1>9, <1>10

LEMMA CaptureWebhookOK ==
    ASSUME IInv, NEW d \in Deliveries, wh[d].pc = "process", NEW p, p = wh[d].payment,
           processCaptureWebhook(d, p), UNCHANGED <<rowLock, inbox>>
    PROVE  Delivered(d)
<1>1. CASE NoWrites /\ \E result \in {"nil", "error"} : Processed(d, result)
  BY <1>1, NoWritesOK
<1>2. CASE /\ p # Unmatched /\ Free(p) /\ rows[p].status # "captured"
           /\ ValidateTransition(rows[p].status, "captured")
           /\ WriteRow(p, [rows[p] EXCEPT !.status = "captured"], rows[p].status, "webhook")
           /\ Post(p, "payment_capture", Amount[p], "PSP_SETTLEMENT", "MERCHANT_PAY")
           /\ Processed(d, "nil")
  <2>1. p \in Payments /\ rows[p].pspId # NullPspId
    BY <1>2, DeliveryFacts
  <2>2. "captured" \in Status \ {"created"}
    BY DEF Status
  <2>3. StoreStep(NoOwner) /\ rows'[p].status = "captured"
    BY <1>2, <2>1, <2>2, WebhookWrite
  <2>4. rows[p].status \notin CapturedOrLater
    BY <1>2 DEF ValidateTransition, validTransitions, CapturedOrLater, Status
  <2>5. BooksOK'
    BY <1>2, <2>1, <2>3, <2>4, Posting, AmountAssumption DEF CapturedOrLater
  <2>6. \E k : DeliveryOK(d, k)
    BY <1>2, ProcessedOK
  <2> QED
    BY <2>3, <2>5, <2>6 DEF Delivered
<1> QED
  BY <1>1, <1>2 DEF processCaptureWebhook

LEMMA FailureWebhookOK ==
    ASSUME IInv, NEW d \in Deliveries, wh[d].pc = "process", NEW p, p = wh[d].payment,
           processFailureWebhook(d, p), UNCHANGED <<rowLock, inbox>>
    PROVE  Delivered(d)
<1>1. CASE NoWrites /\ \E result \in {"nil", "error"} : Processed(d, result)
  BY <1>1, NoWritesOK
<1>2. CASE /\ p # Unmatched /\ Free(p) /\ ValidateTransition(rows[p].status, "failed")
           /\ WriteRow(p, [rows[p] EXCEPT !.status = "failed"], rows[p].status, "webhook")
           /\ Processed(d, "nil") /\ UNCHANGED <<book, posted>>
  <2>1. p \in Payments /\ rows[p].pspId # NullPspId /\ "failed" \in Status \ {"created"}
    BY <1>2, DeliveryFacts DEF Status
  <2>2. StoreStep(NoOwner)
    BY <1>2, <2>1, WebhookWrite
  <2>3. \E k : DeliveryOK(d, k)
    BY <1>2, ProcessedOK
  <2> QED
    BY <1>2, <2>2, <2>3, NoPosting DEF Delivered
<1> QED
  BY <1>1, <1>2 DEF processFailureWebhook

LEMMA RefundWebhookOK ==
    ASSUME IInv, NEW d \in Deliveries, wh[d].pc = "process", NEW p, p = wh[d].payment, NEW n \in Nat,
           processRefundWebhook(d, p, n), UNCHANGED <<rowLock, inbox>>
    PROVE  Delivered(d)
<1> DEFINE to == IF n < Amount[p] THEN "partially_refunded" ELSE "refunded"
<1>1. CASE NoWrites /\ \E result \in {"nil", "error"} : Processed(d, result)
  BY <1>1, NoWritesOK
<1>2. CASE /\ p # Unmatched /\ Free(p) /\ ValidateTransition(rows[p].status, to)
           /\ WriteRow(p, [rows[p] EXCEPT !.status = to], rows[p].status, "webhook")
           /\ Post(p, "refund", n, "MERCHANT_PAY", "REFUND_EXP")
           /\ Processed(d, "nil")
  <2>1. p \in Payments /\ rows[p].pspId # NullPspId /\ to \in Status \ {"created"}
    BY <1>2, DeliveryFacts DEF Status
  <2> HIDE DEF to
  <2>2. StoreStep(NoOwner)
    BY <1>2, <2>1, WebhookWrite
  <2>3. BooksOK'
    BY <1>2, <2>1, <2>2, Posting
  <2>4. \E k : DeliveryOK(d, k)
    BY <1>2, ProcessedOK
  <2> QED
    BY <2>2, <2>3, <2>4 DEF Delivered
<1> QED
  BY <1>1, <1>2 DEF processRefundWebhook

LEMMA DispatchOK ==
    ASSUME IInv, NEW d \in Deliveries, Dispatch(d) \/ DispatchFails(d)
    PROVE  Delivered(d)
<1>1. wh[d].pc = "process" /\ UNCHANGED <<rowLock, inbox>>
  BY DEF Dispatch, DispatchFails
<1>2. PICK p, n : p = wh[d].payment /\ n = wh[d].event.amount
  OBVIOUS
<1>3. n \in Nat
  BY <1>1, <1>2, DeliveryFacts, EventAssumption DEF WebhookActive
<1>4. CASE DispatchFails(d)
  BY <1>1, <1>4, NoWritesOK DEF DispatchFails
<1>5. CASE processCaptureWebhook(d, p)
  BY <1>1, <1>2, <1>5, CaptureWebhookOK
<1>6. CASE processFailureWebhook(d, p)
  BY <1>1, <1>2, <1>6, FailureWebhookOK
<1>7. CASE processRefundWebhook(d, p, n)
  BY <1>1, <1>2, <1>3, <1>7, RefundWebhookOK
<1>8. CASE Processed(d, "nil") /\ NoWrites
  BY <1>1, <1>8, NoWritesOK
<1> QED
  BY <1>2, <1>4, <1>5, <1>6, <1>7, <1>8 DEF Dispatch

LEMMA FinalizeOK ==
    ASSUME IInv, NEW d \in Deliveries, Finalize(d) \/ WebhookCrash(d)
    PROVE  Delivered(d)
<1>1. UNCHANGED <<rows, trail, rowLock, book, posted>>
  BY DEF Finalize, WebhookCrash, storeVars
<1>2. PICK result \in {"none", "nil", "error"} : Return(d, result)
  BY DeliveryFacts DEF Finalize, WebhookCrash, WebhookRecord
<1>3. inbox' \in InboxType /\ \A e \in Events : inbox[e] # "absent" => inbox'[e] # "absent"
  BY WebhookTypes DEF Finalize, WebhookCrash, InboxType
<1> QED
  BY <1>1, <1>2, <1>3, ReturnOK, QuietDelivery

\* Whatever a delivery does, the invariant holds afterwards.
LEMMA DeliveryStepKeeps ==
    ASSUME IInv, NEW d \in Deliveries, DeliveryStep(d)
    PROVE  IInv' /\ \A p \in Payments : RowStep(p)
<1>1. Delivered(d)
  BY ReceiveOK, CheckDuplicateOK, LookUpOK, InsertEventOK, DispatchOK, FinalizeOK
     DEF DeliveryStep, WebhookProceed, WebhookFault
<1>2. UNCHANGED <<req, psp, published>> /\ faults' \in 0 .. MaxFaults
  BY Types, FaultsAssumption DEF DeliveryStep, serviceVars, EffectTypes
<1> QED
  BY <1>1, <1>2, DeliveredKeeps

-----------------------------------------------------------------------------
(* The theorems. *)

LEMMA InitIInv == Init => IInv
<1> SUFFICES ASSUME Init PROVE IInv
  OBVIOUS
<1> USE DEF Init, PaymentInit, StoreInit, ServiceInit, WebhookInit
<1>1. StoreTypeOK /\ TrailSound
  BY DEF StoreTypeOK, TrailSound, SoundTrail, NoRow, NullPspId
<1>2. PaymentTypeOK
  BY <1>1, DoneRecord, FaultsAssumption DEF PaymentTypeOK, RequestRecord
<1>3. EmptyBook \in Book
  <2>1. <<>> \in Seq(Entry)
    OBVIOUS
  <2> HIDE DEF Entry
  <2> QED
    BY <2>1 DEF EmptyBook, Book
<1>4. WebhookTypeOK
  BY <1>3 DEF WebhookTypeOK, NotArrived, Book, Entry
<1>5. ServiceInv
  <2>1. \A r \in Requests : req[r].pc = "idle"
    BY DEF Idle
  <2>2. /\ \A r \in Requests : Relies(r, req[r])
        /\ OneCreator
    BY <2>1 DEF Relies, OneCreator, ActiveLabels, LockedLabels, CreateLabels, CaptureLabels, RefundLabels, CancelLabels
  <2>3. LockInv /\ RowInv
    BY AmountAssumption DEF LockInv, RowInv, NoRow
  <2> QED
    BY <2>2, <2>3 DEF ServiceInv
<1>6. WebhookInv
  <2>1. \A d \in Deliveries : wh[d].pc = "idle" /\ wh[d].payment = Unmatched /\ ~wh[d].claimed
    BY DEF NotArrived
  <2>2. MatchInv /\ ClaimInv /\ EventClaimedOnce
    BY <2>1 DEF MatchInv, ClaimInv, EventClaimedOnce, WebhookActive
  <2>3. BookedInv /\ CaptureBookedOnce
    BY DEF BookedInv, CaptureBookedOnce
  <2>4. TrialBalance
    BY Chart DEF TrialBalance, EmptyBook
  <2> QED
    BY <2>2, <2>3, <2>4 DEF WebhookInv
<1> QED
  BY <1>1, <1>2, <1>4, <1>5, <1>6 DEF IInv, TypeOK

LEMMA NextIInv == IInv /\ [Next]_vars => IInv' /\ \A p \in Payments : RowStep(p)
<1> SUFFICES ASSUME IInv, [Next]_vars PROVE IInv' /\ \A p \in Payments : RowStep(p)
  OBVIOUS
<1>1. CASE UNCHANGED vars
  <2>1. UNCHANGED <<rows, trail, rowLock, req, psp, published, faults, wh, inbox, book, posted>>
    BY <1>1 DEF vars
  <2>2. StoreStep(NoOwner)
    BY <2>1, QuietStoreStep
  <2>3. WebhookTypeOK' /\ WebhookInv'
    BY <2>1, <2>2, WebhookKeeps DEF webhookVars
  <2>4. PaymentTypeOK' /\ TrailSound' /\ ServiceInv' /\ \A p \in Payments : RowStep(p)
    BY <2>1, <2>2, Types, ServiceKeeps DEF EffectTypes
  <2> QED
    BY <2>3, <2>4 DEF IInv, TypeOK
<1>2. ASSUME NEW r \in Requests, RequestStep(r)
      PROVE  IInv' /\ \A p \in Payments : RowStep(p)
  BY <1>2, RequestStepKeeps
<1>3. ASSUME NEW d \in Deliveries, DeliveryStep(d)
      PROVE  IInv' /\ \A p \in Payments : RowStep(p)
  BY <1>3, DeliveryStepKeeps
<1>4. CASE Quiescent
  BY <1>1, <1>4 DEF Quiescent
<1> QED
  BY <1>1, <1>2, <1>3, <1>4 DEF Next

\* The invariant that the theorems are read off.
LEMMA Invariant == Spec => []IInv
BY InitIInv, NextIInv, PTL DEF Spec

\* For any payments, requests, deliveries and events: all state of both
\* services keeps its type.
THEOREM TypeCorrect == Spec => []TypeOK
<1>1. IInv => TypeOK
  BY DEF IInv
<1> QED
  BY <1>1, Invariant, PTL

\* The audit trail of every payment is a path of the transition table that
\* ends in the status of its row: neither a request nor a webhook writes
\* between another's status check and its write.
THEOREM TrailCorrect == Spec => []TrailSound
<1>1. IInv => TrailSound
  BY DEF IInv
<1> QED
  BY <1>1, Invariant, PTL

\* CreatePayment, which calls the PSP without a lock, has its row to itself
\* until its final update.
THEOREM CreateAlone == Spec => []CreateUncontested
<1>1. IInv => CreateUncontested
  <2> SUFFICES ASSUME IInv, NEW r \in Requests, req[r].pc \in CreateLabels
               PROVE  rows[req[r].payment].status = "created" /\ Free(req[r].payment)
    BY DEF CreateUncontested, CreateLabels
  <2> DEFINE p == req[r].payment
  <2>1. p \in Payments /\ rows[p].status = "created"
    BY Types DEF Relies, ActiveLabels, CreateLabels, NoRow
  <2>2. ASSUME rowLock[p] # NoOwner
        PROVE  FALSE
    <3>1. PICK q \in Requests : rowLock[p] = q
      BY <2>1, <2>2, Types
    <3>2. req[q].pc \in LockedLabels /\ req[q].payment = p
      BY <2>1, <2>2, <3>1 DEF IInv, ServiceInv, LockInv
    <3> QED
      BY <2>1, <3>2, Types DEF Relies, LockedLabels, CaptureLabels, RefundLabels
  <2> QED
    BY <2>1, <2>2 DEF Free
<1> QED
  BY <1>1, Invariant, PTL

\* One delivery at most processes an event, however often it is delivered.
THEOREM ClaimCorrect == Spec => []EventClaimedOnce
<1>1. IInv => EventClaimedOnce
  BY DEF IInv, WebhookInv
<1> QED
  BY <1>1, Invariant, PTL

\* The ledger holds at most one capture of a payment, however many capture
\* webhooks and API captures there are.
THEOREM CaptureOnce == Spec => []CaptureBookedOnce
<1>1. IInv => CaptureBookedOnce
  BY DEF IInv, WebhookInv
<1> QED
  BY <1>1, Invariant, PTL

\* The accounts that webhooks post to stay balanced, for any amounts.
THEOREM BooksBalance == Spec => []TrialBalance
<1>1. IInv => TrialBalance
  BY DEF IInv, WebhookInv
<1> QED
  BY <1>1, Invariant, PTL

\* No step of either service takes back a refund, refunds more than the
\* amount of the payment, or replaces a PSP id.
THEOREM RowsOnlyGrow == Spec => RowsMonotone
<1>1. IInv /\ [Next]_vars => [\A p \in Payments : RowStep(p)]_vars
  BY NextIInv
<1> QED
  BY <1>1, Invariant, PTL DEF Spec, RowsMonotone

-----------------------------------------------------------------------------
(***************************************************************************)
(* The proof that both services together implement PaymentLife: each of    *)
(* their steps that writes a payment is one step of its life, and all      *)
(* others are stutters.                                                    *)
(***************************************************************************)

\* The rows as PaymentLife sees them.
Lives == [p \in Payments |-> [status |-> rows[p].status, refunded |-> rows[p].totalRefunded]]

\* One life changes, as row tells.
Written(p, row) == Lives' = [Lives EXCEPT ![p] = [status |-> row.status, refunded |-> row.totalRefunded]]

LifeStep == Life!Next \/ UNCHANGED <<rows, posted>>

\* The transaction that writes a row changes one life.
LEMMA WriteLife ==
    ASSUME StoreTypeOK, NEW p \in Payments, NEW row, NEW from, NEW by, WriteRow(p, row, from, by)
    PROVE  Written(p, row)
<1>1. rows \in [Payments -> Row] /\ rows' = [rows EXCEPT ![p] = row]
  BY DEF StoreTypeOK, WriteRow, Row
<1>2. \A q \in Payments : rows'[q] = IF q = p THEN row ELSE rows[q]
  BY <1>1
<1> QED
  BY <1>2 DEF Written, Lives

\* A legal change of one life, in the terms of the rows.
LEMMA LifeGoes ==
    ASSUME NEW p \in Payments, NEW row, Written(p, row),
           rows[p].status \in Status, ValidateTransition(rows[p].status, row.status)
    PROVE  /\ Lives[p].status \in Life!Status
           /\ Life!ValidateTransition(Lives[p].status, row.status)
           /\ Lives' = [Lives EXCEPT ![p] = [status |-> row.status, refunded |-> row.totalRefunded]]
           /\ Lives[p].refunded = rows[p].totalRefunded
<1>1. Lives[p].status = rows[p].status /\ Lives[p].refunded = rows[p].totalRefunded
  BY DEF Lives
<1>2. Life!Status = Status /\ Life!validTransitions = validTransitions
  BY DEF Life!Status, Status, Life!validTransitions, validTransitions
<1> QED
  BY <1>1, <1>2 DEF Life!ValidateTransition, ValidateTransition, Written

\* The same for a change that leaves the refund total as it is.
LEMMA LifeKeepsTotal ==
    ASSUME NEW p \in Payments, NEW row, Written(p, row),
           rows[p].status \in Status, ValidateTransition(rows[p].status, row.status),
           row.totalRefunded = rows[p].totalRefunded
    PROVE  /\ Lives[p].status \in Life!Status
           /\ Life!ValidateTransition(Lives[p].status, row.status)
           /\ Lives' = [Lives EXCEPT ![p] = [status |-> row.status, refunded |-> Lives[p].refunded]]
<1>1. Lives[p].refunded = row.totalRefunded
  BY LifeGoes
<1> QED
  BY <1>1, LifeGoes

-----------------------------------------------------------------------------
(* The steps of a life, in the terms of the rows. *)

\* An answer of the PSP that is not a refund.
LEMMA LifeMove ==
    ASSUME NEW p \in Payments, NEW row, Written(p, row),
           rows[p].status \in Status, ValidateTransition(rows[p].status, row.status),
           row.status \in Status \ {"partially_refunded", "refunded"},
           row.totalRefunded = rows[p].totalRefunded, UNCHANGED posted
    PROVE  LifeStep
<1>1. row.status \notin {"partially_refunded", "refunded"} /\ UNCHANGED posted
  OBVIOUS
<1>2. Life!Move(p, row.status)
  BY <1>1, LifeKeepsTotal DEF Life!Move, Life!Goes, Lives
<1>3. row.status \in Life!Status
  BY DEF Life!Status, Status
<1> QED
  BY <1>2, <1>3 DEF LifeStep, Life!Next

\* The INSERT of CreatePayment.
LEMMA LifeCreate ==
    ASSUME NEW p \in Payments, NEW row, Written(p, row), rows[p].status = NoStatus,
           row.status = "created", row.totalRefunded = rows[p].totalRefunded, UNCHANGED posted
    PROVE  LifeStep
<1>1. Lives[p].status = NoStatus
      /\ [Lives[p] EXCEPT !.status = "created"] = [status |-> row.status, refunded |-> row.totalRefunded]
  BY DEF Lives
<1>2. Life!Create(p)
  BY <1>1 DEF Life!Create, Life!NoStatus, NoStatus, Written, Lives
<1> QED
  BY <1>2 DEF LifeStep, Life!Next

\* A refund that a request asked for.
LEMMA LifeRefund ==
    ASSUME NEW p \in Payments, NEW row, Written(p, row), NEW n \in 1 .. Amount[p],
           rows[p].status \in Status, ValidateTransition(rows[p].status, row.status),
           row.totalRefunded = rows[p].totalRefunded + n, row.totalRefunded <= Amount[p],
           row.status = RefundStatus(p, row.totalRefunded), UNCHANGED posted
    PROVE  LifeStep
<1>1. Life!AfterRefund(p, row.totalRefunded) = row.status
  BY DEF Life!AfterRefund, RefundStatus
<1>2. Lives[p].refunded + n = row.totalRefunded
  BY LifeGoes
<1>3. /\ Lives[p].refunded + n <= Amount[p] /\ UNCHANGED posted
      /\ Life!ValidateTransition(Lives[p].status, Life!AfterRefund(p, Lives[p].refunded + n))
      /\ Lives' = [Lives EXCEPT ![p] = [status |-> Life!AfterRefund(p, Lives[p].refunded + n),
                                        refunded |-> Lives[p].refunded + n]]
  BY <1>1, <1>2, LifeGoes
<1>4. Life!Refund(p, n)
  BY <1>3, LifeGoes DEF Life!Refund, Life!Goes, Lives
<1> QED
  BY <1>4 DEF LifeStep, Life!Next

\* A capture that the PSP reports, with its ledger transaction.
LEMMA LifeReportCapture ==
    ASSUME NEW p \in Payments, NEW row, Written(p, row),
           rows[p].status \in Status, ValidateTransition(rows[p].status, row.status),
           row.status = "captured", row.totalRefunded = rows[p].totalRefunded,
           posted' = Append(posted, [payment |-> p, type |-> "payment_capture", amount |-> Amount[p]])
    PROVE  LifeStep
<1>1. /\ Life!ValidateTransition(Lives[p].status, "captured")
      /\ Lives' = [Lives EXCEPT ![p] = [status |-> "captured", refunded |-> Lives[p].refunded]]
  BY LifeKeepsTotal
<1>2. Life!ReportCapture(p)
  BY <1>1, LifeGoes DEF Life!ReportCapture, Life!Goes, Lives
<1> QED
  BY <1>2 DEF LifeStep, Life!Next

\* A refund that the PSP reports, which leaves total_refunded alone.
LEMMA LifeReportRefund ==
    ASSUME NEW p \in Payments, NEW row, Written(p, row), NEW e \in Events, e.amount > 0,
           rows[p].status \in Status, ValidateTransition(rows[p].status, row.status),
           row.totalRefunded = rows[p].totalRefunded,
           row.status = IF e.amount < Amount[p] THEN "partially_refunded" ELSE "refunded",
           posted' = Append(posted, [payment |-> p, type |-> "refund", amount |-> e.amount])
    PROVE  LifeStep
<1>1. Life!AfterRefund(p, e.amount) = row.status
  BY AmountAssumption, EventAssumption DEF Life!AfterRefund
<1>2. /\ Life!ValidateTransition(Lives[p].status, Life!AfterRefund(p, e.amount))
      /\ Lives' = [Lives EXCEPT ![p] = [status |-> Life!AfterRefund(p, e.amount),
                                        refunded |-> Lives[p].refunded]]
  BY <1>1, LifeKeepsTotal
<1>3. Life!ReportRefund(p, e.amount)
  BY <1>2, LifeGoes DEF Life!ReportRefund, Life!Goes, Lives
<1>4. e.amount \in {f.amount : f \in Events}
  OBVIOUS
<1> QED
  BY <1>3, <1>4 DEF LifeStep, Life!Next

\* All other steps.
LEMMA LifeStutter ==
    ASSUME UNCHANGED <<rows, posted>>
    PROVE  LifeStep
BY DEF LifeStep

-----------------------------------------------------------------------------
(* The requests. *)

\* The optimistic update writes what it expects to find, or nothing.
LEMMA UpdateLives ==
    ASSUME IInv, NEW p \in Payments, NEW from \in Status,
           NEW to \in Status \ {"partially_refunded", "refunded"}, NEW id \in Nat, NEW by,
           updatePaymentState(p, from, to, id, by), UNCHANGED posted
    PROVE  LifeStep
<1> DEFINE newId == IF id = NullPspId THEN rows[p].pspId ELSE id
<1> DEFINE row == [rows[p] EXCEPT !.status = to, !.pspId = newId]
<1>1. CASE ValidateTransition(from, to) /\ rows[p].status = from
  <2>1. WriteRow(p, row, from, by)
    BY <1>1 DEF updatePaymentState
  <2>2. row.status = to /\ row.totalRefunded = rows[p].totalRefunded
    BY Types DEF Row
  <2> HIDE DEF row
  <2>3. Written(p, row)
    BY <2>1, Types, WriteLife
  <2> QED
    BY <1>1, <2>2, <2>3, LifeMove
<1>2. CASE ~(ValidateTransition(from, to) /\ rows[p].status = from)
  BY <1>2, LifeStutter DEF updatePaymentState
<1> QED
  BY <1>1, <1>2

LEMMA CreateInsertLives ==
    ASSUME IInv, NEW r \in Requests, NEW p \in Payments, CreateInsert(r, p), UNCHANGED posted
    PROVE  LifeStep
<1> DEFINE row == [NoRow EXCEPT !.status = "created"]
<1>1. rows[p].status = NoStatus /\ WriteRow(p, row, NoStatus, "system")
  BY DEF CreateInsert, Exists
<1>2. row.status = "created" /\ row.totalRefunded = 0
  BY DEF NoRow
<1>3. rows[p].totalRefunded = 0
  BY <1>1 DEF IInv, ServiceInv, RowInv
<1> HIDE DEF row
<1>4. Written(p, row)
  BY <1>1, Types, WriteLife
<1> QED
  BY <1>1, <1>2, <1>3, <1>4, LifeCreate

LEMMA CreateFinishLives ==
    ASSUME IInv, NEW r \in Requests, CreateFinish(r), UNCHANGED posted
    PROVE  LifeStep
<1> DEFINE p == req[r].payment
<1> DEFINE to == IF req[r].ok THEN "authorized" ELSE "failed"
<1> DEFINE id == IF req[r].ok THEN req[r].attempt ELSE NullPspId
<1>1. req[r].pc = "finish_create" /\ updatePaymentState(p, "created", to, id, "system")
  BY DEF CreateFinish
<1>2. p \in Payments
  BY <1>1, Types DEF Relies, ActiveLabels
<1>3. /\ "created" \in Status /\ to \in Status \ {"partially_refunded", "refunded"} /\ id \in Nat
  BY Types DEF RequestRecord, Status, NullPspId
<1> HIDE DEF p, to, id
<1> QED
  BY <1>1, <1>2, <1>3, UpdateLives

LEMMA CancelFinishLives ==
    ASSUME IInv, NEW r \in Requests, CancelFinish(r), UNCHANGED posted
    PROVE  LifeStep
<1> DEFINE p == req[r].payment
<1> DEFINE id == req[r].attempt
<1>1. req[r].pc = "finish_cancel" /\ updatePaymentState(p, req[r].seen, "cancelled", id, "api")
  BY DEF CancelFinish
<1>2. p \in Payments /\ req[r].seen = "authorized"
  BY <1>1, Types DEF Relies, ActiveLabels, CancelLabels
<1>3. /\ "authorized" \in Status /\ id \in Nat
      /\ "cancelled" \in Status \ {"partially_refunded", "refunded"}
  BY Types DEF RequestRecord, Status
<1> HIDE DEF p, id
<1> QED
  BY <1>1, <1>2, <1>3, UpdateLives

\* The commits of a capture and a refund find the row as their request locked it.
LEMMA CaptureCommitLives ==
    ASSUME IInv, NEW r \in Requests, CaptureCommit(r), UNCHANGED posted
    PROVE  LifeStep
<1> DEFINE p == req[r].payment
<1> DEFINE row == [rows[p] EXCEPT !.status = "captured"]
<1>1. req[r].pc = "commit_capture" /\ WriteRow(p, row, "authorized", "api")
  BY DEF CaptureCommit
<1>2. p \in Payments /\ rows[p].status = "authorized"
  BY <1>1, HoldsOne, Types DEF Relies, LockedLabels, CaptureLabels
<1>3. row.status = "captured" /\ row.totalRefunded = rows[p].totalRefunded
  BY <1>2, Types DEF Row
<1> HIDE DEF row
<1>4. Written(p, row)
  BY <1>1, <1>2, Types, WriteLife
<1>5. /\ "authorized" \in Status /\ ValidateTransition("authorized", "captured")
      /\ "captured" \in Status \ {"partially_refunded", "refunded"}
  BY DEF ValidateTransition, validTransitions, Status
<1> HIDE DEF p
<1> QED
  BY <1>2, <1>3, <1>4, <1>5, LifeMove

LEMMA RefundCommitLives ==
    ASSUME IInv, NEW r \in Requests, RefundCommit(r), UNCHANGED posted
    PROVE  LifeStep
<1> DEFINE p == req[r].payment
<1> DEFINE n == req[r].amount
<1> DEFINE newTotal == req[r].total + n
<1> DEFINE newStatus == RefundStatus(p, newTotal)
<1> DEFINE row == [rows[p] EXCEPT !.status = newStatus, !.totalRefunded = newTotal]
<1>1. req[r].pc = "commit_refund" /\ WriteRow(p, row, req[r].seen, "api")
  BY DEF RefundCommit
<1>2. /\ p \in Payments
      /\ rows[p].status = req[r].seen /\ req[r].seen \in {"captured", "partially_refunded"}
      /\ rows[p].totalRefunded = req[r].total /\ n > 0 /\ newTotal <= Amount[p]
  BY <1>1, HoldsOne, Types DEF Relies, LockedLabels, RefundLabels
<1>3. n \in 1 .. Amount[p]
  BY <1>2, Types, AmountAssumption DEF RequestRecord
<1>4. newStatus \in {"refunded", "partially_refunded"}
  BY DEF RefundStatus
<1>5. row.status = newStatus /\ row.totalRefunded = newTotal
  BY <1>2, Types DEF Row
<1> HIDE DEF row
<1>6. Written(p, row)
  BY <1>1, <1>2, Types, WriteLife
<1>7. ValidateTransition(req[r].seen, newStatus) /\ req[r].seen \in Status
  BY <1>2, <1>4 DEF ValidateTransition, validTransitions, Status
<1>8. row.totalRefunded = rows[p].totalRefunded + n /\ row.status = RefundStatus(p, row.totalRefunded)
  BY <1>2, <1>5
<1> HIDE DEF p, n, newTotal, newStatus
<1> QED
  BY <1>2, <1>3, <1>5, <1>6, <1>7, <1>8, LifeRefund

\* The other steps of a request write no row.
LEMMA RequestLives ==
    ASSUME IInv, NEW r \in Requests, RequestStep(r)
    PROVE  LifeStep
<1>1. UNCHANGED posted
  BY DEF RequestStep, webhookVars
<1>2. CASE Arrive(r)
  <2>1. PICK p \in Payments :
            \/ CreateInsert(r, p) \/ CaptureLock(r, p)
            \/ \E n \in 1 .. Amount[p] : RefundLock(r, p, n)
            \/ CancelRead(r, p) \/ Reject(r, p)
    BY <1>2 DEF Arrive
  <2>2. CASE CreateInsert(r, p)
    BY <1>1, <2>2, CreateInsertLives
  <2>3. CASE ~CreateInsert(r, p)
    BY <1>1, <2>1, <2>3, LifeStutter DEF CaptureLock, RefundLock, CancelRead, Reject, storeVars
  <2> QED
    BY <2>2, <2>3
<1>3. CASE Proceed(r)
  <2>1. CASE PspCreate(r) \/ CapturePsp(r) \/ RefundPsp(r) \/ CancelPsp(r)
    BY <1>1, <2>1, LifeStutter DEF PspCreate, CapturePsp, RefundPsp, CancelPsp, storeVars
  <2> QED
    BY <1>1, <1>3, <2>1, CreateFinishLives, CaptureCommitLives, RefundCommitLives, CancelFinishLives
       DEF Proceed
<1>4. CASE Abort(r)
  BY <1>1, <1>4, LifeStutter DEF Abort
<1> QED
  BY <1>2, <1>3, <1>4 DEF RequestStep

-----------------------------------------------------------------------------
(* The deliveries. *)

\* A payment that a delivery has matched exists, and a webhook moves it along the table only.
LEMMA WebhookRowLives ==
    ASSUME IInv, NEW d \in Deliveries, NEW p, p = wh[d].payment, p # Unmatched, NEW to \in Status,
           ValidateTransition(rows[p].status, to),
           WriteRow(p, [rows[p] EXCEPT !.status = to], rows[p].status, "webhook")
    PROVE  \E row : /\ Written(p, row) /\ p \in Payments /\ rows[p].status \in Status
                    /\ row.status = to /\ row.totalRefunded = rows[p].totalRefunded
<1> DEFINE row == [rows[p] EXCEPT !.status = to]
<1>1. p \in Payments /\ rows[p].pspId # NullPspId
  BY DeliveryFacts
<1>2. rows[p] \in Row /\ rows[p].status \in Status
  BY <1>1, Types DEF IInv, ServiceInv, RowInv, Row
<1>3. row.status = to /\ row.totalRefunded = rows[p].totalRefunded
  BY <1>2 DEF Row
<1> HIDE DEF row
<1>4. Written(p, row)
  BY <1>1, Types, WriteLife DEF row
<1> QED
  BY <1>1, <1>2, <1>3, <1>4

\* The dispatch moves a payment and posts in one transaction, or does nothing.
LEMMA DispatchLives ==
    ASSUME IInv, NEW d \in Deliveries, Dispatch(d)
    PROVE  LifeStep
<1>1. wh[d].pc = "process"
  BY DEF Dispatch
<1>2. PICK p, e : p = wh[d].payment /\ e = wh[d].event
  OBVIOUS
<1>3. e \in Events
  BY <1>1, <1>2, DeliveryFacts DEF WebhookActive
<1>4. CASE NoWrites
  BY <1>4, LifeStutter DEF NoWrites
<1>5. CASE processCaptureWebhook(d, p) /\ ~NoWrites
  <2>1. /\ p # Unmatched /\ ValidateTransition(rows[p].status, "captured")
        /\ WriteRow(p, [rows[p] EXCEPT !.status = "captured"], rows[p].status, "webhook")
        /\ posted' = Append(posted, [payment |-> p, type |-> "payment_capture", amount |-> Amount[p]])
    BY <1>5 DEF processCaptureWebhook, Post
  <2>2. "captured" \in Status
    BY DEF Status
  <2>3. PICK row : /\ Written(p, row) /\ p \in Payments /\ rows[p].status \in Status
                   /\ row.status = "captured" /\ row.totalRefunded = rows[p].totalRefunded
    BY <1>2, <2>1, <2>2, WebhookRowLives
  <2> QED
    BY <2>1, <2>3, LifeReportCapture
<1>6. CASE processFailureWebhook(d, p) /\ ~NoWrites
  <2>1. /\ p # Unmatched /\ ValidateTransition(rows[p].status, "failed")
        /\ WriteRow(p, [rows[p] EXCEPT !.status = "failed"], rows[p].status, "webhook")
        /\ UNCHANGED posted
    BY <1>6 DEF processFailureWebhook
  <2>2. "failed" \in Status \ {"partially_refunded", "refunded"}
    BY DEF Status
  <2>3. PICK row : /\ Written(p, row) /\ p \in Payments /\ rows[p].status \in Status
                   /\ row.status = "failed" /\ row.totalRefunded = rows[p].totalRefunded
    BY <1>2, <2>1, <2>2, WebhookRowLives
  <2> QED
    BY <2>1, <2>2, <2>3, LifeMove
<1>7. CASE processRefundWebhook(d, p, e.amount) /\ ~NoWrites
  <2>s. PICK s : s = IF e.amount < Amount[p] THEN "partially_refunded" ELSE "refunded"
    OBVIOUS
  <2>1. /\ p # Unmatched /\ e.amount > 0 /\ ValidateTransition(rows[p].status, s)
        /\ WriteRow(p, [rows[p] EXCEPT !.status = s], rows[p].status, "webhook")
        /\ posted' = Append(posted, [payment |-> p, type |-> "refund", amount |-> e.amount])
    BY <1>7, <2>s DEF processRefundWebhook, Post
  <2>2. s \in Status
    BY <2>s DEF Status
  <2>3. PICK row : /\ Written(p, row) /\ p \in Payments /\ rows[p].status \in Status
                   /\ row.status = s /\ row.totalRefunded = rows[p].totalRefunded
    BY <1>2, <2>1, <2>2, WebhookRowLives
  <2> QED
    BY <1>3, <2>s, <2>1, <2>3, LifeReportRefund
<1> QED
  BY <1>2, <1>4, <1>5, <1>6, <1>7 DEF Dispatch

LEMMA DeliveryLives ==
    ASSUME IInv, NEW d \in Deliveries, DeliveryStep(d)
    PROVE  LifeStep
<1>1. CASE Dispatch(d)
  BY <1>1, DispatchLives
<1>2. CASE ~Dispatch(d)
  <2>1. UNCHANGED <<rows, posted>>
    BY <1>2 DEF DeliveryStep, WebhookProceed, WebhookFault, Receive, CheckDuplicate, LookUp, LookUpFails,
       InsertEvent, DispatchFails, NoWrites, Finalize, WebhookCrash, storeVars
  <2> QED
    BY <2>1, LifeStutter
<1> QED
  BY <1>1, <1>2

-----------------------------------------------------------------------------

LEMMA InitLives == Init => Life!Init
<1> SUFFICES ASSUME rows = [p \in Payments |-> NoRow], posted = <<>>
             PROVE  Life!Init
  BY DEF Init, PaymentInit, StoreInit, WebhookInit
<1>1. \A p \in Payments : rows[p].status = "" /\ rows[p].totalRefunded = 0
  BY DEF NoRow, NoStatus
<1> QED
  BY <1>1 DEF Life!Init, Life!NoStatus

LEMMA NextLives == IInv /\ [Next]_vars => [Life!Next]_(Life!vars)
<1> SUFFICES ASSUME IInv, [Next]_vars
             PROVE  LifeStep
  BY DEF LifeStep, Life!vars
<1>1. CASE Quiescent \/ UNCHANGED vars
  BY <1>1, LifeStutter DEF Quiescent, vars
<1> QED
  BY <1>1, RequestLives, DeliveryLives DEF Next

\* Whatever requests and deliveries do to the rows and the books of any number of payments, in steps
\* that interleave, fail and crash, they do as lives of payments.
THEOREM Refinement == Spec => ImplementsPaymentLife
<1>1. Init => Life!Init
  BY InitLives
<1>2. IInv /\ [Next]_vars => [Life!Next]_(Life!vars)
  BY NextLives
<1> QED
  BY <1>1, <1>2, Invariant, PTL DEF Spec, ImplementsPaymentLife, Life!Spec

-----------------------------------------------------------------------------
(***************************************************************************)
(* Proofs about what the payment service does outside its database: the    *)
(* effects at the PSP and the events it publishes, for any number of       *)
(* payments, requests, deliveries and faults.                              *)
(*                                                                         *)
(* EffectInv adds to IInv how far the provider may be ahead of the rows at *)
(* each label.  Most steps have no effect at the PSP (QuietEffects); the   *)
(* PSP calls and the two commits under the lock are taken one by one.      *)
(***************************************************************************)

CommitLabels == {"commit_capture", "commit_refund"}

AtCommit(p, label) == \E r \in Requests : req[r].pc = label /\ req[r].payment = p

\* Authorizations of p beyond the first.
Extra(p) == Repeats(Cardinality(psp[p].auths))

\* A payment is captured at the PSP only after it was authorized; a capture
\* that is neither in the row nor about to be is the work of a fault; and
\* without a fault the refunds of the PSP are those of the row.
PaymentEffects(p) ==
    /\ IsFiniteSet(psp[p].auths)
    /\ rows[p].status = NoStatus => psp[p].auths = {}
    /\ rows[p].status \in {NoStatus, "created", "pending"} => psp[p].captures = 0
    /\ Repeats(psp[p].captures) + Extra(p) <= faults
    /\ rows[p].status = "authorized" /\ ~AtCommit(p, "commit_capture") =>
         psp[p].captures + Extra(p) <= faults
    /\ faults = 0 =>
         /\ rows[p].status = "cancelled" => psp[p].captures = 0
         /\ ~AtCommit(p, "commit_refund") => psp[p].refunded = rows[p].totalRefunded

\* Every authorization that retry.Do asks for again was lost, and a refund
\* that is about to be committed is the only one the row does not have.
RequestEffects(r) ==
    LET p == req[r].payment
    IN  /\ req[r].pc = "psp_create" => Cardinality(psp[p].auths) <= faults
        /\ req[r].pc = "commit_refund" /\ faults = 0 => psp[p].refunded = req[r].total + req[r].amount

EffectInv ==
    /\ \A p \in Payments : PaymentEffects(p)
    /\ \A r \in Requests : RequestEffects(r)

-----------------------------------------------------------------------------
(* Facts about one state. *)

LEMMA EffectFacts ==
    ASSUME IInv, EffectInv, NEW p \in Payments
    PROVE  /\ faults \in Nat /\ psp[p].captures \in Nat /\ psp[p].refunded \in Nat
           /\ rows[p].totalRefunded \in Nat /\ rows[p].status \in Status \cup {NoStatus}
           /\ Cardinality(psp[p].auths) \in Nat /\ Extra(p) \in Nat
           /\ Extra(p) <= Cardinality(psp[p].auths)
           /\ Cardinality(psp[p].auths) <= Extra(p) + 1
<1>1. faults \in Nat /\ psp[p] \in PspRecord /\ rows[p] \in Row
  BY Types DEF EffectTypes
<1>2. Cardinality(psp[p].auths) \in Nat
  BY FS_CardinalityType DEF EffectInv, PaymentEffects
<1> QED
  BY <1>1, <1>2 DEF PspRecord, Row, Extra, Repeats

LEMMA RepeatsBound == \A n \in Nat : Repeats(n) \in Nat /\ Repeats(n) <= n /\ n <= Repeats(n) + 1
                                     /\ Repeats(n + 1) = n
BY DEF Repeats

\* Whoever is about to commit holds the lock.
LEMMA CommitHolds ==
    ASSUME IInv, NEW p \in Payments, NEW label \in CommitLabels, AtCommit(p, label)
    PROVE  rowLock[p] \in Requests /\ req[rowLock[p]].pc = label
<1>1. PICK q \in Requests : req[q].pc = label /\ req[q].payment = p
  BY DEF AtCommit
<1>2. rowLock[p] = q
  BY <1>1, Types DEF Relies, CommitLabels, LockedLabels
<1> QED
  BY <1>1, <1>2

\* A step that leaves a payment, its effects and its commits alone.
LEMMA SamePayment ==
    ASSUME IInv, EffectInv, NEW p \in Payments, rows'[p] = rows[p], psp'[p] = psp[p],
           faults' \in Nat, faults' >= faults,
           \A label \in CommitLabels : AtCommit(p, label)' <=> AtCommit(p, label)
    PROVE  PaymentEffects(p)'
<1>1. PaymentEffects(p)
  BY DEF EffectInv
<1>2. Extra(p)' = Extra(p)
  BY DEF Extra
<1>3. /\ AtCommit(p, "commit_capture")' <=> AtCommit(p, "commit_capture")
      /\ AtCommit(p, "commit_refund")' <=> AtCommit(p, "commit_refund")
  BY DEF CommitLabels
<1> QED
  BY <1>1, <1>2, <1>3, EffectFacts, RepeatsBound DEF PaymentEffects

\* So does a request that does not move, if its payment keeps its effects.
LEMMA SameRequest ==
    ASSUME IInv, EffectInv, NEW q \in Requests, NEW k, k = req[q], req'[q] = k,
           faults' \in Nat, faults' >= faults,
           k.pc = "psp_create" => psp'[k.payment].auths = psp[k.payment].auths,
           k.pc = "commit_refund" => psp'[k.payment].refunded = psp[k.payment].refunded
    PROVE  RequestEffects(q)'
<1>1. RequestEffects(q)
  BY DEF EffectInv
<1>2. k.pc = "psp_create" => Cardinality(psp[k.payment].auths) \in Nat
  <2>1. k.pc = "psp_create" => k.payment \in Payments
    BY Types DEF Relies, ActiveLabels
  <2> QED
    BY <2>1, EffectFacts
<1>3. faults \in Nat
  BY Types DEF EffectTypes
<1> QED
  BY <1>1, <1>2, <1>3 DEF RequestEffects

-----------------------------------------------------------------------------
(* Steps without an effect at the PSP that matters here. *)

SameEffects ==
    \A p \in Payments : /\ psp'[p].auths = psp[p].auths
                        /\ psp'[p].captures = psp[p].captures
                        /\ psp'[p].refunded = psp[p].refunded

SameTotals == \A p \in Payments : rows'[p].totalRefunded = rows[p].totalRefunded

\* A store step that moves no refund total and has no effect at the PSP, of
\* an actor that commits nothing, unless it costs a fault.
LEMMA QuietEffects ==
    ASSUME IInv, EffectInv, NEW a, StoreStep(a), SameEffects, SameTotals,
           faults' \in Nat, faults' >= faults,
           \A q \in Requests \ {a} : req'[q] = req[q],
           a \in Requests =>
               /\ req[a].pc \in CommitLabels => faults' > faults
               /\ req'[a].pc \notin CommitLabels
               /\ req'[a].pc = "psp_create" =>
                    req'[a].payment \in Payments /\ psp[req'[a].payment].auths = {}
    PROVE  EffectInv'
<1>1. ASSUME NEW p \in Payments
      PROVE  PaymentEffects(p)'
  <2> DEFINE c == psp[p].captures
  <2> DEFINE s == rows[p].status
  <2>1. PaymentEffects(p)
    BY DEF EffectInv
  <2>2. /\ faults \in Nat /\ c \in Nat /\ Extra(p) \in Nat
        /\ Extra(p)' = Extra(p) /\ Repeats(c) \in Nat /\ c <= Repeats(c) + 1
    BY EffectFacts, RepeatsBound DEF SameEffects, Extra
  <2>3. /\ psp'[p].auths = psp[p].auths /\ psp'[p].captures = c /\ psp'[p].refunded = psp[p].refunded
        /\ rows'[p].totalRefunded = rows[p].totalRefunded
    BY DEF SameEffects, SameTotals
  <2>4. \/ rows'[p].status = s
        \/ rowLock[p] \in {NoOwner, a} /\ LegalStep(s, rows'[p].status) /\ rows'[p].status \in Status
    BY Types, StoreStepRows DEF IInv, ServiceInv
  <2>5. /\ rows'[p].status = NoStatus => s = NoStatus
        /\ rows'[p].status \in {NoStatus, "created", "pending"} => s \in {NoStatus, "created", "pending"}
        /\ rows'[p].status = "authorized" => s \in {"created", "pending", "authorized"}
        /\ rows'[p].status = "cancelled" => s \in {"authorized", "cancelled"}
    <3>1. s \in Status \cup {NoStatus}
      BY EffectFacts
    <3> QED
      BY <2>4, <3>1 DEF LegalStep, ValidateTransition, validTransitions, NoStatus, Status
  <2>6. CASE faults' > faults
    BY <2>1, <2>2, <2>3, <2>5, <2>6 DEF PaymentEffects
  <2>7. CASE faults' = faults
    <3>1. \A label \in CommitLabels : AtCommit(p, label)' <=> AtCommit(p, label)
      BY <2>7 DEF AtCommit
    <3>2. /\ AtCommit(p, "commit_capture")' <=> AtCommit(p, "commit_capture")
          /\ AtCommit(p, "commit_refund")' <=> AtCommit(p, "commit_refund")
      BY <3>1 DEF CommitLabels
    <3>3. rows'[p].status # s => ~AtCommit(p, "commit_capture")
      BY <2>4, <2>7, CommitHolds, OwnerAssumption DEF CommitLabels
    <3>4. rows'[p].status = "authorized" /\ s # "authorized" => c + Extra(p) <= faults
      BY <2>1, <2>2, <2>5 DEF PaymentEffects
    <3>5. faults = 0 /\ rows'[p].status = "cancelled" => c = 0
      BY <2>1, <2>2, <2>5, <3>3 DEF PaymentEffects
    <3> HIDE DEF c, s
    <3> QED
      BY <2>1, <2>2, <2>3, <2>5, <2>7, <3>2, <3>4, <3>5 DEF PaymentEffects, c, s
  <2> QED
    BY <2>2, <2>6, <2>7
<1>2. ASSUME NEW q \in Requests
      PROVE  RequestEffects(q)'
  <2>1. CASE q = a
    <3>1. req'[q].pc = "psp_create" => Cardinality(psp'[req'[q].payment].auths) = 0
      BY <2>1, FS_EmptySet DEF SameEffects
    <3> QED
      BY <2>1, <3>1 DEF RequestEffects, CommitLabels
  <2>2. CASE q # a
    <3>1. PICK k : k = req[q]
      OBVIOUS
    <3>2. k.pc \in {"psp_create", "commit_refund"} => k.payment \in Payments
      BY <3>1, Types DEF Relies, ActiveLabels, LockedLabels
    <3> QED
      BY <2>2, <3>1, <3>2, SameRequest DEF SameEffects
  <2> QED
    BY <2>1, <2>2
<1> QED
  BY <1>1, <1>2 DEF EffectInv

\* The same for a step that RequestStepOK describes.
LEMMA QuietRequest ==
    ASSUME IInv, EffectInv, NEW r \in Requests, NEW k, RequestStepOK(r, k), SameEffects, SameTotals,
           faults' >= faults,
           req[r].pc \in CommitLabels => faults' > faults,
           k.pc \notin CommitLabels,
           k.pc = "psp_create" => k.payment \in Payments /\ psp[k.payment].auths = {}
    PROVE  EffectInv'
<1>1. /\ StoreStep(r) /\ faults' \in Nat /\ req'[r] = k
      /\ \A q \in Requests \ {r} : req'[q] = req[q]
  BY Types DEF RequestStepOK, EffectTypes
<1> QED
  BY <1>1, QuietEffects

-----------------------------------------------------------------------------
(* The requests. *)

\* The optimistic update moves a status, never a refund total.
LEMMA UpdateTotals ==
    ASSUME IInv, NEW p \in Payments, NEW from, NEW to, NEW id, NEW by, updatePaymentState(p, from, to, id, by)
    PROVE  SameTotals
<1>1. CASE UNCHANGED rows
  BY <1>1 DEF SameTotals
<1>2. CASE ~UNCHANGED rows
  <2>1. PICK row : row = [rows[p] EXCEPT !.status = to, !.pspId = IF id = NullPspId THEN @ ELSE id]
    OBVIOUS
  <2>2. rows' = [rows EXCEPT ![p] = row]
    BY <1>2, <2>1 DEF updatePaymentState, WriteRow
  <2>3. row.totalRefunded = rows[p].totalRefunded
    BY <2>1, Types DEF Row
  <2> QED
    BY <2>2, <2>3, Types DEF SameTotals
<1> QED
  BY <1>1, <1>2

LEMMA DoneLabel == Done.pc \notin CommitLabels /\ Done.pc # "psp_create"
BY DoneRecord DEF CommitLabels

\* The handlers that end, or start, without a call to the PSP.
LEMMA EndEffects ==
    ASSUME IInv, EffectInv, NEW r \in Requests,
           CreateFinish(r) \/ CancelFinish(r) \/ Abort(r) \/ \E p \in Payments : Reject(r, p)
    PROVE  EffectInv'
<1>1. RequestStepOK(r, Done)
  BY CreateFinishOK, CancelFinishOK, AbortOK, RejectOK
<1>2. SameEffects
  BY DEF CreateFinish, CancelFinish, Abort, Reject, SameEffects
<1>3. faults \in Nat
  BY Types DEF EffectTypes
<1>4. faults' >= faults /\ (req[r].pc \in CommitLabels => faults' > faults)
  BY <1>3 DEF CreateFinish, CancelFinish, Abort, Reject, CommitLabels
<1>5. SameTotals
  <2>1. CASE UNCHANGED rows
    BY <2>1 DEF SameTotals
  <2>2. CASE CreateFinish(r) \/ CancelFinish(r)
    <3>1. req[r].payment \in Payments
      BY <2>2, Types DEF CreateFinish, CancelFinish, Relies, ActiveLabels
    <3> QED
      BY <2>2, <3>1, UpdateTotals DEF CreateFinish, CancelFinish
  <2> QED
    BY <2>1, <2>2 DEF Abort, Reject, storeVars
<1> QED
  BY <1>1, <1>2, <1>4, <1>5, DoneLabel, QuietRequest

LEMMA ArriveEffects ==
    ASSUME IInv, EffectInv, NEW r \in Requests, Arrive(r)
    PROVE  EffectInv'
<1>1. PICK p \in Payments :
          \/ CreateInsert(r, p) \/ CaptureLock(r, p)
          \/ \E n \in 1 .. Amount[p] : RefundLock(r, p, n)
          \/ CancelRead(r, p) \/ Reject(r, p)
  BY DEF Arrive
<1>2. CASE Reject(r, p)
  BY <1>2, EndEffects
<1>3. CASE \/ CreateInsert(r, p) \/ CaptureLock(r, p)
           \/ \E n \in 1 .. Amount[p] : RefundLock(r, p, n)
           \/ CancelRead(r, p)
  <2>1. PICK k : RequestStepOK(r, k)
    BY <1>3, CreateInsertOK, CaptureLockOK, RefundLockOK, CancelReadOK
  <2>2. req'[r] = k
    BY <2>1, Types DEF RequestStepOK
  <2>3. /\ req[r].pc = "idle" /\ SameEffects /\ UNCHANGED faults
    BY <1>3 DEF CreateInsert, CaptureLock, RefundLock, CancelRead, SameEffects
  <2>4. faults' \in Nat /\ faults' >= faults
    BY <2>3, Types DEF EffectTypes
  <2>5. /\ SameTotals
        /\ k.pc \notin CommitLabels
        /\ k.pc = "psp_create" => k.payment \in Payments /\ psp[k.payment].auths = {}
    <3>1. CASE CreateInsert(r, p)
      <4>1. /\ rows[p].status = NoStatus /\ k = [Idle EXCEPT !.pc = "psp_create", !.payment = p]
            /\ rows' = [rows EXCEPT ![p] = [NoRow EXCEPT !.status = "created"]]
        BY <2>2, <3>1, Types DEF CreateInsert, Exists, WriteRow
      <4>2. rows[p].totalRefunded = 0 /\ psp[p].auths = {}
        BY <4>1 DEF IInv, ServiceInv, RowInv, EffectInv, PaymentEffects
      <4>3. k.pc = "psp_create" /\ k.payment = p
        BY <4>1 DEF Idle
      <4>4. SameTotals
        BY <4>1, <4>2, Types DEF SameTotals, NoRow
      <4> QED
        BY <4>2, <4>3, <4>4 DEF CommitLabels
    <3>2. CASE \/ CaptureLock(r, p)
               \/ \E n \in 1 .. Amount[p] : RefundLock(r, p, n)
               \/ CancelRead(r, p)
      <4>1. SameTotals
        BY <3>2 DEF CaptureLock, RefundLock, CancelRead, SameTotals, storeVars
      <4>2. k.pc \in {"psp_capture", "psp_refund", "psp_cancel"}
        <5>1. req \in [Requests -> RequestRecord]
          BY Types
        <5>2. CASE CaptureLock(r, p)
          BY <2>2, <5>1, <5>2 DEF CaptureLock, Idle
        <5>3. CASE \E n \in 1 .. Amount[p] : RefundLock(r, p, n)
          BY <2>2, <5>1, <5>3 DEF RefundLock, Idle
        <5>4. CASE CancelRead(r, p)
          BY <2>2, <5>1, <5>4 DEF CancelRead, Idle
        <5> QED
          BY <3>2, <5>2, <5>3, <5>4
      <4> QED
        BY <4>1, <4>2 DEF CommitLabels
    <3> QED
      BY <1>3, <3>1, <3>2
  <2> QED
    BY <2>1, <2>3, <2>4, <2>5, QuietRequest DEF CommitLabels
<1> QED
  BY <1>1, <1>2, <1>3

\* A call to CancelPayment of the PSP only counts itself.
LEMMA CancelPspEffects ==
    ASSUME IInv, EffectInv, NEW r \in Requests, CancelPsp(r)
    PROVE  EffectInv'
<1>1. PICK k : RequestStepOK(r, k)
  BY CancelPspOK
<1>2. req'[r] = k
  BY <1>1, Types DEF RequestStepOK
<1>3. PICK a \in CancelAnswers :
          /\ Answered(a)
          /\ psp' = IF CarriedOut(a) THEN [psp EXCEPT ![req[r].payment].cancels = @ + 1] ELSE psp
          /\ IF Succeeds(a) THEN req' = [req EXCEPT ![r].pc = "finish_cancel"] ELSE End(r)
  BY DEF CancelPsp
<1>4. req[r].pc = "psp_cancel" /\ UNCHANGED rows
  BY DEF CancelPsp, storeVars
<1>5. SameEffects /\ SameTotals
  BY <1>3, <1>4, Types DEF SameEffects, SameTotals, PspRecord
<1>6. faults' >= faults
  BY <1>3, Types DEF Answered, EffectTypes
<1>7. k.pc \in {"finish_cancel", "done"}
  BY <1>2, <1>3, Types DEF End, Idle, RequestRecord
<1> QED
  BY <1>1, <1>4, <1>5, <1>6, <1>7, QuietRequest DEF CommitLabels

\* Request r becomes k; the rows and the effects of other payments stay as
\* they are, and so does what another request may rely on for p.
OwnEffects(r, p, k) ==
    /\ p = req[r].payment /\ req[r].pc \in ActiveLabels
    /\ req' = [req EXCEPT ![r] = k]
    /\ k.pc \in CommitLabels => k.payment = p
    /\ \A q \in Payments \ {p} : rows'[q] = rows[q] /\ psp'[q] = psp[q]
    /\ faults' \in Nat /\ faults' >= faults
    /\ psp'[p].auths = psp[p].auths \/ req[r].pc \in CreateLabels
    /\ psp'[p].refunded = psp[p].refunded \/ rowLock[p] = r

\* The other requests and the other payments, when r does something at the
\* PSP to its own or commits.
LEMMA OtherEffects ==
    ASSUME IInv, EffectInv, NEW r \in Requests, NEW p, NEW k, OwnEffects(r, p, k)
    PROVE  /\ \A q \in Payments \ {p} : PaymentEffects(q)'
           /\ \A q \in Requests \ {r} : RequestEffects(q)'
           /\ req'[r] = k
           /\ \A label \in CommitLabels :
                k.pc # label /\ req[r].pc # label => (AtCommit(p, label)' <=> AtCommit(p, label))
<1> USE DEF OwnEffects
<1>1. req'[r] = k /\ \A q \in Requests \ {r} : req'[q] = req[q]
  BY Types
<1>2. ASSUME NEW q \in Payments \ {p}
      PROVE  PaymentEffects(q)'
  <2>1. \A label \in CommitLabels : AtCommit(q, label)' <=> AtCommit(q, label)
    BY <1>1 DEF AtCommit
  <2> QED
    BY <2>1, SamePayment
<1>3. ASSUME NEW q \in Requests \ {r}
      PROVE  RequestEffects(q)'
  <2>1. PICK j : j = req[q]
    OBVIOUS
  <2>2. j.pc \in {"psp_create", "commit_refund"} => j.payment \in Payments
    BY <2>1, Types DEF Relies, ActiveLabels, LockedLabels
  <2>3. j.pc = "psp_create" => psp'[j.payment].auths = psp[j.payment].auths
    BY <2>1, <2>2 DEF IInv, ServiceInv, OneCreator, CreateLabels
  <2>4. j.pc = "commit_refund" => psp'[j.payment].refunded = psp[j.payment].refunded
    <3>1. j.pc = "commit_refund" => rowLock[j.payment] = q
      BY <2>1, Types DEF Relies, LockedLabels
    <3> QED
      BY <2>2, <3>1
  <2> QED
    BY <1>1, <2>1, <2>3, <2>4, SameRequest
<1>4. \A label \in CommitLabels :
          k.pc # label /\ req[r].pc # label => (AtCommit(p, label)' <=> AtCommit(p, label))
  BY <1>1 DEF AtCommit
<1> QED
  BY <1>1, <1>2, <1>3, <1>4

-----------------------------------------------------------------------------
(* The calls to the PSP, and the commits under the lock. *)

\* An attempt adds one authorization at most.  One whose answer arrives is
\* the last; one whose answer is lost has cost a fault.
LEMMA PspCreateEffects ==
    ASSUME IInv, EffectInv, NEW r \in Requests, PspCreate(r)
    PROVE  EffectInv'
<1>1. PICK p, n : p = req[r].payment /\ n = req[r].attempt + 1
  OBVIOUS
<1>2. PICK k : RequestStepOK(r, k)
  BY PspCreateOK
<1>3. req' = [req EXCEPT ![r] = k] /\ req'[r] = k
  BY <1>2, Types DEF RequestStepOK
<1>4. PICK a \in Answers :
          /\ Answered(a)
          /\ psp' = IF CarriedOut(a) THEN [psp EXCEPT ![p].auths = @ \cup {n}] ELSE psp
          /\ req' = [req EXCEPT ![r].attempt = n, ![r].ok = (a = "ok"), ![r].pc = retryDo(a, n)]
  BY <1>1 DEF PspCreate
<1>5. req[r].pc = "psp_create" /\ UNCHANGED rows
  BY DEF PspCreate, storeVars
<1>6. p \in Payments /\ rows[p].status = "created"
  BY <1>1, <1>5, Types DEF Relies, ActiveLabels, CreateLabels, NoRow
<1>7. /\ k.pc = retryDo(a, n) /\ k.payment = p
      /\ k.pc \in CreateLabels /\ k.pc \notin CommitLabels
  <2>1. k = [req[r] EXCEPT !.attempt = n, !.ok = (a = "ok"), !.pc = retryDo(a, n)]
    BY <1>3, <1>4, Types
  <2>2. k.pc = retryDo(a, n) /\ k.payment = p
    BY <1>1, <2>1, Types DEF RequestRecord
  <2> QED
    BY <2>2 DEF retryDo, CreateLabels, CommitLabels
<1>8. /\ faults \in Nat /\ faults' \in Nat /\ faults' >= faults
      /\ a = "lost" => faults' = faults + 1
  BY <1>4, Types, AnsweredFaults DEF EffectTypes, Answered
<1>9. /\ psp'[p].captures = psp[p].captures /\ psp'[p].refunded = psp[p].refunded
      /\ \A q \in Payments \ {p} : psp'[q] = psp[q]
      /\ psp'[p].auths = IF CarriedOut(a) THEN psp[p].auths \cup {n} ELSE psp[p].auths
  <2>1. psp[p] \in PspRecord
    BY <1>6, Types
  <2> QED
    BY <1>4, <1>6, <2>1, Types DEF PspRecord
<1>10. /\ \A q \in Payments \ {p} : PaymentEffects(q)'
       /\ \A q \in Requests \ {r} : RequestEffects(q)'
       /\ AtCommit(p, "commit_refund")' <=> AtCommit(p, "commit_refund")
  <2>1. req[r].pc \in ActiveLabels /\ req[r].pc \in CreateLabels /\ req[r].pc # "commit_refund"
        /\ k.pc # "commit_refund" /\ "commit_refund" \in CommitLabels
    BY <1>5, <1>7 DEF ActiveLabels, CreateLabels, CommitLabels
  <2>2. OwnEffects(r, p, k)
    BY <1>1, <1>3, <1>5, <1>7, <1>8, <1>9, <2>1 DEF OwnEffects
  <2> QED
    BY <2>1, <2>2, OtherEffects
<1>11. PaymentEffects(p) /\ Cardinality(psp[p].auths) <= faults
  BY <1>1, <1>5, <1>6 DEF EffectInv, RequestEffects
<1>12. /\ IsFiniteSet(psp'[p].auths)
       /\ Cardinality(psp'[p].auths) \in Nat
       /\ Cardinality(psp'[p].auths) <= faults + 1
       /\ a \notin {"ok", "lost"} => Cardinality(psp'[p].auths) <= faults
  <2>1. /\ IsFiniteSet(psp[p].auths \cup {n})
        /\ Cardinality(psp[p].auths \cup {n}) \in {Cardinality(psp[p].auths), Cardinality(psp[p].auths) + 1}
    BY <1>11, FS_AddElement DEF PaymentEffects
  <2> QED
    BY <1>6, <1>8, <1>9, <1>11, <2>1, EffectFacts DEF PaymentEffects, CarriedOut
<1>13. a = "ok" => k.pc = "finish_create"
  BY <1>7 DEF retryDo
<1>14. PaymentEffects(p)'
  <2>1. psp[p].captures = 0 /\ rows'[p].status = "created" /\ rows'[p].totalRefunded = rows[p].totalRefunded
    BY <1>5, <1>6, <1>11 DEF PaymentEffects
  <2>2. Extra(p)' \in Nat /\ Extra(p)' <= faults
    BY <1>8, <1>12 DEF Extra, Repeats
  <2>3. Repeats(0) = 0 /\ "created" \notin {NoStatus, "authorized", "cancelled"}
    BY DEF Repeats, NoStatus
  <2>4. ~AtCommit(p, "commit_refund")' /\ faults' = 0 => psp[p].refunded = rows[p].totalRefunded
    BY <1>8, <1>10, <1>11 DEF PaymentEffects
  <2> QED
    BY <1>8, <1>9, <1>12, <2>1, <2>2, <2>3, <2>4 DEF PaymentEffects
<1>15. RequestEffects(r)'
  BY <1>3, <1>7, <1>8, <1>12, <1>13 DEF RequestEffects, CommitLabels
<1> QED
  BY <1>10, <1>14, <1>15 DEF EffectInv

\* A call under the lock: the request goes on to its commit, or it is over
\* and the PSP did nothing or a fault was spent.
LEMMA LockedCallEnds ==
    ASSUME IInv, NEW r \in Requests, req[r].pc \in LockedLabels, NEW k, RequestStepOK(r, k),
           NEW a, Answered(a), NEW next \in CommitLabels,
           IF a = "ok" THEN req' = [req EXCEPT ![r].pc = next] /\ UNCHANGED rowLock
                       ELSE End(r) /\ Release(req[r].payment)
    PROVE  /\ faults \in Nat /\ faults' \in Nat /\ faults' >= faults
           /\ a = "lost" => faults' = faults + 1
           /\ IF a = "ok" THEN k.pc = next /\ k.payment = req[r].payment
                               /\ k.total = req[r].total /\ k.amount = req[r].amount
                          ELSE k.pc = "done"
<1>1. faults \in Nat /\ faults' \in Nat /\ faults' >= faults /\ (a = "lost" => faults' = faults + 1)
  BY Types, AnsweredFaults DEF EffectTypes, Answered
<1>2. req'[r] = k
  BY Types DEF RequestStepOK
<1>3. CASE a = "ok"
  <2>1. k = [req[r] EXCEPT !.pc = next]
    BY <1>2, <1>3, Types
  <2> QED
    BY <1>1, <1>3, <2>1, Types DEF RequestRecord
<1>4. CASE a # "ok"
  BY <1>1, <1>2, <1>4, Types, DoneRecord DEF End, Done
<1> QED
  BY <1>3, <1>4

\* Nobody else is about to commit for a payment whose lock r holds.
LEMMA AloneAtCommit ==
    ASSUME IInv, NEW r \in Requests, req[r].pc \in LockedLabels, NEW label \in CommitLabels,
           AtCommit(req[r].payment, label)
    PROVE  req[r].pc = label
BY HoldsOne, CommitHolds

LEMMA CapturePspEffects ==
    ASSUME IInv, EffectInv, NEW r \in Requests, CapturePsp(r)
    PROVE  EffectInv'
<1>1. PICK p : p = req[r].payment
  OBVIOUS
<1>2. PICK k : RequestStepOK(r, k)
  BY CapturePspOK
<1>3. PICK a \in Answers :
          /\ Answered(a)
          /\ psp' = IF CarriedOut(a) THEN [psp EXCEPT ![p].captures = @ + 1] ELSE psp
          /\ IF a = "ok" THEN req' = [req EXCEPT ![r].pc = "commit_capture"] /\ UNCHANGED rowLock
                         ELSE End(r) /\ Release(p)
  BY <1>1 DEF CapturePsp
<1>4. /\ req[r].pc = "psp_capture" /\ UNCHANGED rows
      /\ req[r].pc \in LockedLabels /\ req[r].pc \in ActiveLabels /\ req[r].pc \notin CommitLabels
  BY DEF CapturePsp, LockedLabels, ActiveLabels, CommitLabels
<1>5. p \in Payments /\ rowLock[p] = r /\ rows[p].status = "authorized"
  BY <1>1, <1>4, HoldsOne, Types DEF Relies, CaptureLabels
<1>6. /\ faults \in Nat /\ faults' \in Nat /\ faults' >= faults
      /\ a = "lost" => faults' = faults + 1
      /\ IF a = "ok" THEN k.pc = "commit_capture" /\ k.payment = p ELSE k.pc = "done"
  BY <1>1, <1>2, <1>3, <1>4, LockedCallEnds DEF CommitLabels
<1>7. /\ psp'[p].auths = psp[p].auths /\ psp'[p].refunded = psp[p].refunded
      /\ psp'[p].captures = IF CarriedOut(a) THEN psp[p].captures + 1 ELSE psp[p].captures
      /\ \A q \in Payments \ {p} : psp'[q] = psp[q]
  <2>1. psp[p] \in PspRecord
    BY <1>5, Types
  <2> QED
    BY <1>3, <1>5, <2>1, Types DEF PspRecord
<1>8. req' = [req EXCEPT ![r] = k]
  BY <1>2 DEF RequestStepOK
<1>9. k.pc \in CommitLabels => k.payment = p
  BY <1>6 DEF CommitLabels
<1>10. /\ \A q \in Payments \ {p} : PaymentEffects(q)'
       /\ \A q \in Requests \ {r} : RequestEffects(q)'
       /\ req'[r] = k
       /\ AtCommit(p, "commit_refund")' <=> AtCommit(p, "commit_refund")
  <2>1. "commit_refund" \in CommitLabels /\ k.pc # "commit_refund" /\ req[r].pc # "commit_refund"
    BY <1>4, <1>6 DEF CommitLabels
  <2>2. OwnEffects(r, p, k)
    BY <1>1, <1>4, <1>5, <1>6, <1>7, <1>8, <1>9 DEF OwnEffects
  <2> QED
    BY <2>1, <2>2, OtherEffects
<1>11. PaymentEffects(p) /\ ~AtCommit(p, "commit_capture")
  BY <1>1, <1>4, <1>5, AloneAtCommit DEF EffectInv, CommitLabels
<1>12. /\ psp[p].captures + Extra(p) <= faults /\ psp[p].captures \in Nat /\ Extra(p) \in Nat
       /\ Extra(p)' = Extra(p)
  BY <1>5, <1>7, <1>11, EffectFacts DEF PaymentEffects, Extra
<1>13. a = "ok" => AtCommit(p, "commit_capture")'
  BY <1>6, <1>10 DEF AtCommit
<1>14. PaymentEffects(p)'
  <2>1. psp'[p].captures \in Nat /\ Repeats(psp'[p].captures) + Extra(p)' <= faults'
    BY <1>6, <1>7, <1>12, RepeatsBound DEF CarriedOut
  <2>2. ~AtCommit(p, "commit_capture")' => psp'[p].captures + Extra(p)' <= faults'
    BY <1>6, <1>7, <1>12, <1>13 DEF CarriedOut
  <2>3. rows'[p].status = "authorized" /\ "authorized" \notin {NoStatus, "created", "pending", "cancelled"}
        /\ rows'[p].totalRefunded = rows[p].totalRefunded
    BY <1>4, <1>5 DEF NoStatus
  <2>4. faults' = 0 => faults = 0
    BY <1>6
  <2> QED
    BY <1>7, <1>10, <1>11, <2>1, <2>2, <2>3, <2>4 DEF PaymentEffects
<1>15. RequestEffects(r)'
  BY <1>6, <1>10 DEF RequestEffects
<1> QED
  BY <1>10, <1>14, <1>15 DEF EffectInv

LEMMA RefundPspEffects ==
    ASSUME IInv, EffectInv, NEW r \in Requests, RefundPsp(r)
    PROVE  EffectInv'
<1>1. PICK p, n : p = req[r].payment /\ n = req[r].amount
  OBVIOUS
<1>2. PICK k : RequestStepOK(r, k)
  BY RefundPspOK
<1>3. PICK a \in Answers :
          /\ Answered(a)
          /\ psp' = IF CarriedOut(a) THEN [psp EXCEPT ![p].refunded = @ + n] ELSE psp
          /\ IF a = "ok" THEN req' = [req EXCEPT ![r].pc = "commit_refund"] /\ UNCHANGED rowLock
                         ELSE End(r) /\ Release(p)
  BY <1>1 DEF RefundPsp
<1>4. /\ req[r].pc = "psp_refund" /\ UNCHANGED rows
      /\ req[r].pc \in LockedLabels /\ req[r].pc \in ActiveLabels /\ req[r].pc \notin CommitLabels
  BY DEF RefundPsp, LockedLabels, ActiveLabels, CommitLabels
<1>5. /\ p \in Payments /\ rowLock[p] = r /\ rows[p].totalRefunded = req[r].total
      /\ rows[p].status \in {"captured", "partially_refunded"}
  BY <1>1, <1>4, HoldsOne, Types DEF Relies, RefundLabels
<1>6. /\ faults \in Nat /\ faults' \in Nat /\ faults' >= faults
      /\ a = "lost" => faults' = faults + 1
      /\ IF a = "ok" THEN k.pc = "commit_refund" /\ k.payment = p
                          /\ k.total = req[r].total /\ k.amount = n
                     ELSE k.pc = "done"
  BY <1>1, <1>2, <1>3, <1>4, LockedCallEnds DEF CommitLabels
<1>7. /\ psp'[p].auths = psp[p].auths /\ psp'[p].captures = psp[p].captures
      /\ psp'[p].refunded = IF CarriedOut(a) THEN psp[p].refunded + n ELSE psp[p].refunded
      /\ \A q \in Payments \ {p} : psp'[q] = psp[q]
  <2>1. psp[p] \in PspRecord
    BY <1>5, Types
  <2> QED
    BY <1>3, <1>5, <2>1, Types DEF PspRecord
<1>8. req' = [req EXCEPT ![r] = k]
  BY <1>2 DEF RequestStepOK
<1>9. k.pc \in CommitLabels => k.payment = p
  BY <1>6 DEF CommitLabels
<1>10. /\ \A q \in Payments \ {p} : PaymentEffects(q)'
       /\ \A q \in Requests \ {r} : RequestEffects(q)'
       /\ req'[r] = k
  <2>1. OwnEffects(r, p, k)
    BY <1>1, <1>4, <1>5, <1>6, <1>7, <1>8, <1>9 DEF OwnEffects
  <2> QED
    BY <2>1, OtherEffects
<1>11. PaymentEffects(p) /\ ~AtCommit(p, "commit_refund")
  BY <1>1, <1>4, <1>5, AloneAtCommit DEF EffectInv, CommitLabels
<1>12. Extra(p)' = Extra(p) /\ Extra(p) \in Nat /\ Repeats(psp[p].captures) \in Nat
  BY <1>5, <1>7, EffectFacts, RepeatsBound DEF Extra
<1>13. a = "ok" => AtCommit(p, "commit_refund")'
  BY <1>6, <1>10 DEF AtCommit
<1>14. faults = 0 => psp[p].refunded = rows[p].totalRefunded
  BY <1>11 DEF PaymentEffects
<1>15. PaymentEffects(p)'
  <2>1. rows'[p] = rows[p] /\ rows'[p].status \notin {NoStatus, "created", "pending", "authorized", "cancelled"}
    BY <1>4, <1>5 DEF NoStatus
  <2>2. faults' = 0 /\ ~AtCommit(p, "commit_refund")' => psp'[p].refunded = rows'[p].totalRefunded
    BY <1>6, <1>7, <1>13, <1>14, <2>1 DEF CarriedOut
  <2>3. Repeats(psp'[p].captures) + Extra(p)' <= faults'
    BY <1>6, <1>7, <1>11, <1>12 DEF PaymentEffects
  <2> QED
    BY <1>7, <1>11, <2>1, <2>2, <2>3 DEF PaymentEffects
<1>16. RequestEffects(r)'
  <2>1. a = "ok" /\ faults' = 0 => psp'[p].refunded = k.total + k.amount
    BY <1>5, <1>6, <1>7, <1>14 DEF CarriedOut
  <2> QED
    BY <1>6, <1>10, <2>1 DEF RequestEffects
<1> QED
  BY <1>10, <1>15, <1>16 DEF EffectInv

LEMMA CommitEffects ==
    ASSUME IInv, EffectInv, NEW r \in Requests, CaptureCommit(r) \/ RefundCommit(r)
    PROVE  EffectInv'
<1>1. PICK p : p = req[r].payment
  OBVIOUS
<1>2. RequestStepOK(r, Done)
  BY CaptureCommitOK, RefundCommitOK
<1>3. /\ req[r].pc \in CommitLabels /\ req[r].pc \in LockedLabels /\ req[r].pc \in ActiveLabels
      /\ UNCHANGED <<psp, faults>>
  BY DEF CaptureCommit, RefundCommit, LockedLabels, ActiveLabels, CommitLabels
<1>4. p \in Payments /\ rowLock[p] = r
  BY <1>1, <1>3, HoldsOne
<1>5. faults \in Nat /\ faults' \in Nat /\ faults' >= faults
  BY <1>3, Types DEF EffectTypes
<1>6. PICK row : rows' = [rows EXCEPT ![p] = row]
  BY <1>1 DEF CaptureCommit, RefundCommit, WriteRow
<1>7. /\ \A q \in Payments \ {p} : PaymentEffects(q)'
      /\ \A q \in Requests \ {r} : RequestEffects(q)'
      /\ req'[r] = Done
  <2>1. OwnEffects(r, p, Done)
    BY <1>1, <1>2, <1>3, <1>4, <1>5, <1>6, Types, DoneLabel DEF RequestStepOK, OwnEffects
  <2> QED
    BY <2>1, OtherEffects
<1>8. PaymentEffects(p)
  BY <1>4 DEF EffectInv
<1>9. /\ rows'[p].status \in CapturedOrLater
      /\ faults = 0 => psp[p].refunded = rows'[p].totalRefunded
  <2>1. CASE CaptureCommit(r)
    <3>1. rows' = [rows EXCEPT ![p] = [rows[p] EXCEPT !.status = "captured"]] /\ req[r].pc = "commit_capture"
      BY <1>1, <2>1 DEF CaptureCommit, WriteRow
    <3>2. rows[p] \in Row
      BY <1>4, Types
    <3>3. rows'[p].status = "captured" /\ rows'[p].totalRefunded = rows[p].totalRefunded
      BY <1>4, <3>1, <3>2, Types DEF Row
    <3>4. ~AtCommit(p, "commit_refund")
      BY <1>1, <1>3, <3>1, AloneAtCommit DEF CommitLabels
    <3> QED
      BY <1>8, <3>3, <3>4 DEF PaymentEffects, CapturedOrLater
  <2>2. CASE RefundCommit(r)
    <3>1. PICK to, total : to = RefundStatus(p, total) /\ total = req[r].total + req[r].amount
      OBVIOUS
    <3>2. /\ rows' = [rows EXCEPT ![p] = [rows[p] EXCEPT !.status = to, !.totalRefunded = total]]
          /\ req[r].pc = "commit_refund"
      BY <1>1, <2>2, <3>1 DEF RefundCommit, WriteRow
    <3>3. rows[p] \in Row
      BY <1>4, Types
    <3>4. rows'[p].status = to /\ rows'[p].totalRefunded = total
      BY <1>4, <3>2, <3>3, Types DEF Row
    <3>5. to \in CapturedOrLater
      BY <3>1 DEF RefundStatus, CapturedOrLater
    <3>6. faults = 0 => psp[p].refunded = total
      BY <1>1, <3>1, <3>2 DEF EffectInv, RequestEffects
    <3> QED
      BY <3>4, <3>5, <3>6
  <2> QED
    BY <2>1, <2>2
<1>10. PaymentEffects(p)'
  <2>1. rows'[p].status \notin {NoStatus, "created", "pending", "authorized", "cancelled"}
    BY <1>9 DEF CapturedOrLater, NoStatus
  <2>2. Extra(p)' = Extra(p)
    BY <1>3 DEF Extra
  <2> QED
    BY <1>3, <1>8, <1>9, <2>1, <2>2 DEF PaymentEffects
<1>11. RequestEffects(r)'
  BY <1>7, DoneLabel DEF RequestEffects, CommitLabels
<1> QED
  BY <1>7, <1>10, <1>11 DEF EffectInv

-----------------------------------------------------------------------------
(* The deliveries have no effect at the PSP, and book no refund in the row. *)

LEMMA WebhookTotals ==
    ASSUME IInv, NEW p \in Payments, NEW to, WriteRow(p, [rows[p] EXCEPT !.status = to], rows[p].status, "webhook")
    PROVE  SameTotals
<1>1. PICK row : row = [rows[p] EXCEPT !.status = to]
  OBVIOUS
<1>2. rows' = [rows EXCEPT ![p] = row]
  BY <1>1 DEF WriteRow
<1>3. row.totalRefunded = rows[p].totalRefunded
  BY <1>1, Types DEF Row
<1> QED
  BY <1>2, <1>3, Types DEF SameTotals

LEMMA DeliveryEffects ==
    ASSUME IInv, EffectInv, NEW d \in Deliveries, DeliveryStep(d)
    PROVE  EffectInv'
<1>1. Delivered(d)
  BY ReceiveOK, CheckDuplicateOK, LookUpOK, InsertEventOK, DispatchOK, FinalizeOK
     DEF DeliveryStep, WebhookProceed, WebhookFault
<1>2. UNCHANGED <<req, psp>> /\ SameEffects
  BY DEF DeliveryStep, serviceVars, SameEffects
<1>3. faults \in Nat /\ faults' \in Nat /\ faults' >= faults
  BY Types DEF DeliveryStep, serviceVars, EffectTypes
<1>4. SameTotals
  <2>1. CASE Dispatch(d) /\ ~UNCHANGED rows
    <3>1. PICK p : p = wh[d].payment
      OBVIOUS
    <3>2. p # Unmatched /\ \E to : WriteRow(p, [rows[p] EXCEPT !.status = to], rows[p].status, "webhook")
      <4>1. \/ processCaptureWebhook(d, p) \/ processFailureWebhook(d, p)
            \/ processRefundWebhook(d, p, wh[d].event.amount)
        BY <2>1, <3>1 DEF Dispatch, NoWrites
      <4>2. CASE processCaptureWebhook(d, p)
        BY <2>1, <4>2 DEF processCaptureWebhook, NoWrites
      <4>3. CASE processFailureWebhook(d, p)
        BY <2>1, <4>3 DEF processFailureWebhook, NoWrites
      <4>4. CASE processRefundWebhook(d, p, wh[d].event.amount)
        BY <2>1, <4>4 DEF processRefundWebhook, NoWrites
      <4> QED
        BY <4>1, <4>2, <4>3, <4>4
    <3> QED
      BY <3>1, <3>2, DeliveryFacts, WebhookTotals
  <2>2. CASE UNCHANGED rows
    BY <2>2 DEF SameTotals
  <2>3. Dispatch(d) \/ UNCHANGED rows
    BY DEF DeliveryStep, WebhookProceed, WebhookFault, Receive, CheckDuplicate, LookUp, InsertEvent,
           Finalize, LookUpFails, DispatchFails, WebhookCrash, NoWrites, storeVars
  <2> QED
    BY <2>1, <2>2, <2>3
<1>5. StoreStep(NoOwner) /\ NoOwner \notin Requests
  BY <1>1, OwnerAssumption DEF Delivered
<1> QED
  BY <1>2, <1>3, <1>4, <1>5, QuietEffects

-----------------------------------------------------------------------------
(* The events. *)

\* The trail of a payment keeps its records.
LEMMA TrailGrows ==
    ASSUME StoreTypeOK, NEW a, StoreStep(a), NEW p \in Payments, NEW i \in DOMAIN trail[p]
    PROVE  i \in DOMAIN trail'[p] /\ trail'[p][i] = trail[p][i]
<1>1. CASE NoWrite
  BY <1>1 DEF NoWrite
<1>2. CASE ~NoWrite
  <2>1. PICK q, row, from, by : LegalWrite(q, row, from, by)
    BY <1>2, Zenon DEF StoreStep
  <2>2. PICK rec : rec = [from |-> from, to |-> row.status, by |-> by]
    OBVIOUS
  <2>3. trail \in [Payments -> Seq(Record)] /\ trail' = [trail EXCEPT ![q] = Append(trail[q], rec)] /\ q \in Payments
    BY <2>1, <2>2 DEF StoreTypeOK, Record, LegalWrite, WriteRow
  <2>4. rec \in Record
    BY <2>1, <2>2 DEF LegalWrite, Record, StoreTypeOK
  <2> HIDE DEF Record
  <2>5. /\ Len(trail[p]) \in Nat /\ DOMAIN trail[p] = 1 .. Len(trail[p])
        /\ DOMAIN Append(trail[p], rec) = 1 .. Len(trail[p]) + 1
        /\ Append(trail[p], rec)[i] = trail[p][i]
    BY <2>3, <2>4, AppendProperties
  <2>6. trail'[p] \in {trail[p], Append(trail[p], rec)}
    BY <2>3
  <2> QED
    BY <2>5, <2>6
<1> QED
  BY <1>1, <1>2

\* A write leaves its record in the trail.
LEMMA WriteRecorded ==
    ASSUME StoreTypeOK, NEW p \in Payments, NEW row, NEW from, NEW by, WriteRow(p, row, from, by),
           from \in Status \cup {NoStatus}, row.status \in Status, by \in Triggers
    PROVE  \E i \in DOMAIN trail'[p] : trail'[p][i] = [from |-> from, to |-> row.status, by |-> by]
<1>1. PICK rec : rec = [from |-> from, to |-> row.status, by |-> by]
  OBVIOUS
<1>2. trail[p] \in Seq(Record) /\ rec \in Record /\ trail'[p] = Append(trail[p], rec)
  BY <1>1 DEF StoreTypeOK, Record, WriteRow
<1> HIDE DEF Record
<1>3. LET n == Len(trail[p]) + 1
      IN  n \in DOMAIN trail'[p] /\ trail'[p][n] = rec
  BY <1>2, AppendProperties
<1> QED
  BY <1>1, <1>3

\* An event is published with the write it tells of, if at all.
EventOfWrite(p, from, to, by) ==
    /\ p \in Payments /\ from \in Status /\ to \in Status /\ by \in Triggers
    /\ Publish(p, from, to, by)
    /\ \E row : row.status = to /\ WriteRow(p, row, from, by)

Announced == UNCHANGED published \/ \E p, from, to, by : EventOfWrite(p, from, to, by)

LEMMA PublishedKept ==
    ASSUME IInv, PublishedCommitted, NEW a, StoreStep(a), Announced
    PROVE  PublishedCommitted'
<1> SUFFICES ASSUME NEW ev \in published'
             PROVE  \E i \in DOMAIN trail'[ev.payment] :
                        trail'[ev.payment][i] = [from |-> ev.from, to |-> ev.to, by |-> ev.by]
  BY DEF PublishedCommitted
<1>1. CASE ev \in published
  <2>1. ev.payment \in Payments
    BY <1>1, Types DEF Event
  <2>2. PICK i \in DOMAIN trail[ev.payment] :
            trail[ev.payment][i] = [from |-> ev.from, to |-> ev.to, by |-> ev.by]
    BY <1>1 DEF PublishedCommitted
  <2> QED
    BY <2>1, <2>2, Types, TrailGrows
<1>2. CASE ev \notin published
  <2>1. PICK p, from, to, by : EventOfWrite(p, from, to, by)
    BY <1>2 DEF Announced
  <2>2. ev = [payment |-> p, from |-> from, to |-> to, by |-> by]
    BY <1>2, <2>1 DEF EventOfWrite, Publish
  <2>3. PICK row : row.status = to /\ WriteRow(p, row, from, by)
    BY <2>1 DEF EventOfWrite
  <2>4. \E i \in DOMAIN trail'[p] : trail'[p][i] = [from |-> from, to |-> row.status, by |-> by]
    BY <2>1, <2>3, Types, WriteRecorded DEF EventOfWrite
  <2> QED
    BY <2>2, <2>3, <2>4
<1> QED
  BY <1>1, <1>2

LEMMA UpdateAnnounced ==
    ASSUME IInv, NEW p \in Payments, NEW from \in Status, NEW to \in Status, NEW id, NEW by \in Triggers,
           updatePaymentState(p, from, to, id, by)
    PROVE  Announced
<1>1. CASE UNCHANGED published
  BY <1>1 DEF Announced
<1>2. CASE ~UNCHANGED published
  <2>1. PICK row : row = [rows[p] EXCEPT !.status = to, !.pspId = IF id = NullPspId THEN @ ELSE id]
    OBVIOUS
  <2>2. WriteRow(p, row, from, by) /\ Publish(p, from, to, by)
    BY <1>2, <2>1 DEF updatePaymentState
  <2>3. row.status = to
    BY <2>1, Types DEF Row
  <2> QED
    BY <2>2, <2>3, Zenon DEF Announced, EventOfWrite
<1> QED
  BY <1>1, <1>2

LEMMA RequestAnnounces ==
    ASSUME IInv, NEW r \in Requests, RequestStep(r)
    PROVE  Announced
<1>1. PICK p : p = req[r].payment
  OBVIOUS
<1>2. CASE CreateFinish(r)
  <2>1. p \in Payments
    BY <1>1, <1>2, Types DEF CreateFinish, Relies, ActiveLabels
  <2>2. {"created", "authorized", "failed"} \subseteq Status /\ "system" \in Triggers
    BY DEF Status, Triggers
  <2> QED
    BY <1>1, <1>2, <2>1, <2>2, UpdateAnnounced DEF CreateFinish
<1>3. CASE CancelFinish(r)
  <2>1. p \in Payments /\ req[r].seen = "authorized"
    BY <1>1, <1>3, Types DEF CancelFinish, Relies, ActiveLabels, CancelLabels
  <2>2. {"authorized", "cancelled"} \subseteq Status /\ "api" \in Triggers
    BY DEF Status, Triggers
  <2> QED
    BY <1>1, <1>3, <2>1, <2>2, UpdateAnnounced DEF CancelFinish
<1>4. CASE CaptureCommit(r)
  <2>1. p \in Payments
    BY <1>1, <1>4, HoldsOne DEF CaptureCommit, LockedLabels
  <2>2. PICK row : row = [rows[p] EXCEPT !.status = "captured"]
    OBVIOUS
  <2>3. WriteRow(p, row, "authorized", "api") /\ Publish(p, "authorized", "captured", "api")
    BY <1>1, <1>4, <2>2 DEF CaptureCommit
  <2>4. row.status = "captured" /\ {"authorized", "captured"} \subseteq Status /\ "api" \in Triggers
    BY <2>1, <2>2, Types DEF Row, Status, Triggers
  <2> QED
    BY <2>1, <2>3, <2>4, Zenon DEF Announced, EventOfWrite
<1>5. CASE RefundCommit(r)
  <2>1. p \in Payments /\ req[r].seen \in Status
    BY <1>1, <1>5, HoldsOne, Types DEF RefundCommit, LockedLabels, RefundLabels, Relies, Status
  <2>2. PICK total, to : total = req[r].total + req[r].amount /\ to = RefundStatus(p, total)
    OBVIOUS
  <2>3. PICK row : row = [rows[p] EXCEPT !.status = to, !.totalRefunded = total]
    OBVIOUS
  <2>4. WriteRow(p, row, req[r].seen, "api") /\ Publish(p, req[r].seen, to, "api")
    BY <1>1, <1>5, <2>2, <2>3 DEF RefundCommit
  <2>5. row.status = to /\ to \in Status /\ "api" \in Triggers
    BY <2>1, <2>2, <2>3, Types DEF Row, RefundStatus, Status, Triggers
  <2> QED
    BY <2>1, <2>4, <2>5, Zenon DEF Announced, EventOfWrite
<1>6. UNCHANGED published \/ CreateFinish(r) \/ CancelFinish(r) \/ CaptureCommit(r) \/ RefundCommit(r)
  BY DEF RequestStep, Arrive, Proceed, Abort, CreateInsert, CaptureLock, RefundLock, CancelRead, Reject,
         PspCreate, CapturePsp, RefundPsp, CancelPsp
<1> QED
  BY <1>2, <1>3, <1>4, <1>5, <1>6 DEF Announced

-----------------------------------------------------------------------------
(* The theorems. *)

LEMMA RequestStores ==
    ASSUME IInv, NEW r \in Requests, RequestStep(r)
    PROVE  StoreStep(r)
<1>1. ASSUME NEW k, RequestStepOK(r, k)
      PROVE  StoreStep(r)
  BY <1>1 DEF RequestStepOK
<1>2. ASSUME Arrive(r)
      PROVE  \E k : RequestStepOK(r, k)
  BY <1>2, CreateInsertOK, CaptureLockOK, RefundLockOK, CancelReadOK, RejectOK DEF Arrive
<1>3. ASSUME Proceed(r)
      PROVE  \E k : RequestStepOK(r, k)
  BY <1>3, PspCreateOK, CreateFinishOK, CapturePspOK, CaptureCommitOK, RefundPspOK, RefundCommitOK,
     CancelPspOK, CancelFinishOK DEF Proceed
<1> QED
  BY <1>1, <1>2, <1>3, AbortOK DEF RequestStep

LEMMA RequestEffectsKept ==
    ASSUME IInv, EffectInv, NEW r \in Requests, RequestStep(r)
    PROVE  EffectInv'
BY ArriveEffects, EndEffects, PspCreateEffects, CapturePspEffects, RefundPspEffects, CommitEffects,
   CancelPspEffects DEF RequestStep, Proceed

LEMMA InitEffects == Init => EffectInv /\ PublishedCommitted
<1> SUFFICES ASSUME Init PROVE EffectInv /\ PublishedCommitted
  OBVIOUS
<1> USE DEF Init, PaymentInit, StoreInit, ServiceInit
<1>1. \A r \in Requests : RequestEffects(r)
  BY DEF RequestEffects, Idle
<1>2. ASSUME NEW p \in Payments
      PROVE  PaymentEffects(p)
  <2>1. psp[p].auths = {} /\ psp[p].captures = 0 /\ psp[p].refunded = 0 /\ rows[p] = NoRow /\ faults = 0
    OBVIOUS
  <2> HIDE DEF Init, PaymentInit, StoreInit, ServiceInit
  <2>2. NoRow.status = NoStatus /\ NoRow.totalRefunded = 0 /\ NoStatus \notin {"authorized", "cancelled"}
    BY DEF NoRow, NoStatus
  <2>3. IsFiniteSet(psp[p].auths) /\ Extra(p) = 0 /\ Repeats(psp[p].captures) = 0
    BY <2>1, FS_EmptySet DEF Extra, Repeats
  <2> QED
    BY <2>1, <2>2, <2>3 DEF PaymentEffects
<1> QED
  BY <1>1, <1>2 DEF EffectInv, PublishedCommitted

LEMMA NextEffects ==
    IInv /\ EffectInv /\ PublishedCommitted /\ [Next]_vars => EffectInv' /\ PublishedCommitted'
<1> SUFFICES ASSUME IInv, EffectInv, PublishedCommitted, [Next]_vars
             PROVE  EffectInv' /\ PublishedCommitted'
  OBVIOUS
<1>1. CASE UNCHANGED vars
  <2>1. UNCHANGED <<rows, trail, rowLock, req, psp, published, faults>>
    BY <1>1 DEF vars
  <2>2. StoreStep(NoOwner) /\ SameEffects /\ SameTotals /\ NoOwner \notin Requests /\ faults \in Nat
    BY <2>1, Types, QuietStoreStep, OwnerAssumption DEF SameEffects, SameTotals, EffectTypes
  <2> QED
    BY <2>1, <2>2, QuietEffects, PublishedKept DEF Announced
<1>2. ASSUME NEW r \in Requests, RequestStep(r)
      PROVE  EffectInv' /\ PublishedCommitted'
  <2>1. StoreStep(r)
    BY <1>2, RequestStores
  <2> QED
    BY <1>2, <2>1, RequestEffectsKept, RequestAnnounces, PublishedKept
<1>3. ASSUME NEW d \in Deliveries, DeliveryStep(d)
      PROVE  EffectInv' /\ PublishedCommitted'
  <2>1. Delivered(d)
    BY <1>3, ReceiveOK, CheckDuplicateOK, LookUpOK, InsertEventOK, DispatchOK, FinalizeOK
       DEF DeliveryStep, WebhookProceed, WebhookFault
  <2>2. StoreStep(NoOwner) /\ Announced
    BY <1>3, <2>1 DEF Delivered, DeliveryStep, Announced, serviceVars
  <2> QED
    BY <1>3, <2>2, DeliveryEffects, PublishedKept
<1> QED
  BY <1>1, <1>2, <1>3 DEF Next, Quiescent

LEMMA EffectInvariant == Spec => [](IInv /\ EffectInv /\ PublishedCommitted)
<1>1. Init => IInv /\ EffectInv /\ PublishedCommitted
  BY InitIInv, InitEffects
<1>2. IInv /\ EffectInv /\ PublishedCommitted /\ [Next]_vars => (IInv /\ EffectInv /\ PublishedCommitted)'
  BY NextIInv, NextEffects
<1> QED
  BY <1>1, <1>2, PTL DEF Spec

\* No event tells consumers of a step that is not committed, for any number
\* of requests and deliveries: each is published after the transaction that
\* writes its record, and no record is ever taken back.
THEOREM EventsCommitted == Spec => []PublishedCommitted
BY EffectInvariant, PTL

\* Without a fault the refunds at the PSP are those of an unlocked row, and
\* a payment shown as cancelled was not captured, however requests and
\* webhooks interleave.
THEOREM PspAgrees == Spec => []PspAgreesWithRows
<1>1. IInv /\ EffectInv => PspAgreesWithRows
  <2> SUFFICES ASSUME IInv, EffectInv, faults = 0, NEW p \in Payments
               PROVE  /\ Free(p) => psp[p].refunded = rows[p].totalRefunded
                      /\ rows[p].status = "cancelled" => psp[p].captures = 0
    BY DEF PspAgreesWithRows
  <2>1. PaymentEffects(p)
    BY DEF EffectInv
  <2>2. Free(p) => ~AtCommit(p, "commit_refund")
    BY CommitHolds, OwnerAssumption DEF Free, CommitLabels
  <2> QED
    BY <2>1, <2>2 DEF PaymentEffects
<1> QED
  BY <1>1, EffectInvariant, PTL

\* Each lost answer or abort costs at most one effect too many at the PSP,
\* for any number of attempts, requests and faults.
THEOREM FaultsBoundEffects == Spec => []EffectsPerFault
<1>1. EffectInv => EffectsPerFault
  BY DEF EffectInv, PaymentEffects, EffectsPerFault, Extra
<1> QED
  BY <1>1, EffectInvariant, PTL

=============================================================================
