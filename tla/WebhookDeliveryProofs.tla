------------------------ MODULE WebhookDeliveryProofs ------------------------
(***************************************************************************)
(* Proofs about WebhookDelivery for any number of events, workers, posts,  *)
(* retries and faults.                                                     *)
(*                                                                         *)
(* The inductive invariant follows an event through its row: MessageInv    *)
(* says what the state of a message implies, OneProcessor that a row is    *)
(* made by the one worker that processes the event, and RowInv that the    *)
(* row knows how often the event has taken effect.                         *)
(***************************************************************************)
EXTENDS WebhookDelivery, TLAPS

\* Messages are used in the order of the posts; one that can still be
\* delivered has deliveries left; one that was acked left a row; and a post
\* that was answered 200 has put one there.
MessageInv ==
    /\ \A m \in Messages :
        /\ m[2] > sent[m[1]] => message[m] = "none"
        /\ message[m] \in {"none", "queued"} => attempts[m] < MaxRetries
        /\ message[m] = "acked" => inbox[m[1]] # "absent"
    /\ \A e \in Events : answer[e] = "ok" => \E m \in Messages : m[1] = e /\ message[m] # "none"

Processing == {"process", "finish"}

\* A worker that is not idle has a message that was posted; an idle one has
\* no lease.
WorkerInv ==
    \A w \in Workers :
        IF worker[w].pc = "idle" THEN ~worker[w].leased
        ELSE worker[w].msg \in Messages /\ message[worker[w].msg] # "none"

\* Two workers never process one event, whichever messages it came in.
OneProcessor ==
    \A v, w \in Workers :
        /\ worker[v].pc \in Processing /\ worker[w].pc \in Processing
        /\ EventOf(v) = EventOf(w)
        => v = w

\* The row of an event knows what has become of it.
RowInv ==
    /\ \A e \in Events :
        /\ applied[e] <= 1
        /\ inbox[e] = "absent" => applied[e] = 0
        /\ inbox[e] = "processed" => applied[e] = 1
    /\ \A w \in Workers :
        /\ worker[w].pc \in Processing => inbox[EventOf(w)] = "processing"
        /\ worker[w].pc = "process" => applied[EventOf(w)] = 0
        /\ worker[w].pc = "finish" /\ worker[w].ok => applied[EventOf(w)] = 1

IInv == TypeOK /\ MessageInv /\ WorkerInv /\ OneProcessor /\ RowInv

-----------------------------------------------------------------------------
(* What a step of a worker does to the queue, to itself and to the rows.    *)

MessageState == {"none", "queued", "leased", "acked", "dead"}
RowState == {"absent", "processing", "processed", "failed"}
WorkerRecord ==
    [pc : {"idle", "check", "insert", "process", "finish"}, msg : Messages \cup {NoMessage},
     leased : BOOLEAN, ok : BOOLEAN]

LEMMA Types ==
    ASSUME IInv
    PROVE  /\ sent \in [Events -> 0..MaxSends] /\ answer \in [Events -> {"none", "ok", "error"}]
           /\ stale \in [Events -> BOOLEAN]
           /\ message \in [Messages -> MessageState] /\ attempts \in [Messages -> 0..MaxRetries]
           /\ inbox \in [Events -> RowState] /\ applied \in [Events -> Nat]
           /\ worker \in [Workers -> WorkerRecord] /\ faults \in 0..MaxFaults
           /\ MessageInv /\ WorkerInv /\ OneProcessor /\ RowInv
           /\ MaxRetries \in Nat \ {0} /\ MaxSends \in Nat \ {0} /\ MaxFaults \in Nat
BY RetriesAssumption, FaultsAssumption DEF IInv, TypeOK, MessageState, RowState, WorkerRecord

\* A message that moves had been posted; it is queued only with a delivery
\* left and acked only for an event that has its row.
QueueStep ==
    /\ message' \in [Messages -> MessageState]
    /\ attempts' \in [Messages -> 0..MaxRetries]
    /\ \A m \in Messages :
        \/ message'[m] = message[m] /\ attempts'[m] = attempts[m]
        \/ /\ message[m] # "none" /\ message'[m] # "none"
           /\ message'[m] = "queued" => attempts'[m] < MaxRetries
           /\ message'[m] = "acked" => inbox[m[1]] # "absent"

\* Worker w becomes k and the others keep their places.
WorkerStep(w, k) ==
    /\ k \in WorkerRecord
    /\ IF k.pc = "idle" THEN ~k.leased ELSE k.msg \in Messages /\ message[k.msg] # "none"
    /\ worker' = [worker EXCEPT ![w] = k]

\* The rows of the events keep their types and their invariants.
RowsOK ==
    /\ inbox' \in [Events -> RowState]
    /\ applied' \in [Events -> Nat]
    /\ \A e \in Events : inbox[e] # "absent" => inbox'[e] # "absent"
    /\ OneProcessor'
    /\ RowInv'

LEMMA QueueKeeps ==
    ASSUME IInv, QueueStep, UNCHANGED pspVars, RowsOK
    PROVE  MessageInv'
<1>1. sent' = sent /\ answer' = answer
  BY DEF pspVars
<1>2. ASSUME NEW m \in Messages
      PROVE  /\ m[1] \in Events
             /\ m[2] > sent[m[1]] => message'[m] = "none"
             /\ message'[m] \in {"none", "queued"} => attempts'[m] < MaxRetries
             /\ message'[m] = "acked" => inbox'[m[1]] # "absent"
             /\ message[m] # "none" => message'[m] # "none"
  <2>1. m[1] \in Events
    BY DEF Messages
  <2> QED
    BY <2>1, Types DEF QueueStep, RowsOK, MessageInv
<1> QED
  BY <1>1, <1>2, Types DEF MessageInv

LEMMA WorkersKeep ==
    ASSUME IInv, QueueStep, NEW w \in Workers, NEW k, WorkerStep(w, k)
    PROVE  worker' \in [Workers -> WorkerRecord] /\ WorkerInv'
<1>1. \A m \in Messages : message[m] # "none" => message'[m] # "none"
  BY DEF QueueStep
<1>2. worker' \in [Workers -> WorkerRecord] /\ worker'[w] = k /\ \A v \in Workers \ {w} : worker'[v] = worker[v]
  BY Types DEF WorkerStep
<1> QED
  BY <1>1, <1>2, Types DEF WorkerInv, WorkerStep

LEMMA HandleKeeps ==
    ASSUME IInv, NEW w \in Workers, NEW k, WorkerStep(w, k), QueueStep, RowsOK, UNCHANGED pspVars,
           faults' \in 0..MaxFaults
    PROVE  IInv'
<1>1. MessageInv' /\ worker' \in [Workers -> WorkerRecord] /\ WorkerInv'
  BY QueueKeeps, WorkersKeep
<1>2. TypeOK'
  BY <1>1, Types DEF TypeOK, QueueStep, RowsOK, MessageState, RowState, WorkerRecord, pspVars
<1> QED
  BY <1>1, <1>2 DEF IInv, RowsOK

LEMMA FaultType ==
    ASSUME IInv, Fault \/ UNCHANGED faults
    PROVE  faults' \in 0..MaxFaults
BY Types DEF Fault

\* What is known of a worker that is handling a message.
LEMMA Handling ==
    ASSUME IInv, NEW w \in Workers, worker[w].pc # "idle"
    PROVE  /\ worker[w] \in WorkerRecord
           /\ worker[w].msg \in Messages /\ message[worker[w].msg] # "none"
           /\ EventOf(w) \in Events
           /\ AfterFailure(worker[w].msg) \in {"queued", "dead"}
           /\ AfterFailure(worker[w].msg) = "queued" => attempts[worker[w].msg] < MaxRetries
<1>1. worker[w] \in WorkerRecord /\ worker[w].msg \in Messages /\ message[worker[w].msg] # "none"
  BY Types DEF WorkerInv
<1>2. worker[w].msg[1] \in Events /\ attempts[worker[w].msg] \in Nat
  BY <1>1, Types DEF Messages
<1> QED
  BY <1>1, <1>2, Types DEF AfterFailure, EventOf

LEMMA IdleRecord == Idle \in WorkerRecord /\ Idle.pc = "idle" /\ ~Idle.leased
BY DEF Idle, WorkerRecord

\* A callback returns: its worker is idle and its message acked, queued or dead.
LEMMA SettleOK ==
    ASSUME IInv, NEW w \in Workers, worker[w].pc # "idle", UNCHANGED attempts,
           (Ack(w) /\ inbox[EventOf(w)] # "absent") \/ Nack(w)
    PROVE  WorkerStep(w, Idle) /\ QueueStep
<1>1. PICK to : /\ Settle(w, to)
                /\ \/ to = "acked" /\ inbox[EventOf(w)] # "absent"
                   \/ to = AfterFailure(worker[w].msg)
  BY DEF Ack, Nack
<1>2. WorkerStep(w, Idle)
  BY <1>1, IdleRecord DEF Settle, WorkerStep
<1>3. /\ to \in MessageState /\ to # "none"
      /\ to = "queued" => attempts[worker[w].msg] < MaxRetries
      /\ to = "acked" => inbox[EventOf(w)] # "absent"
  BY <1>1, Handling DEF MessageState
<1>4. message' = message \/ message' = [message EXCEPT ![worker[w].msg] = to]
  BY <1>1 DEF Settle
<1>5. QueueStep
  BY <1>3, <1>4, Handling, Types DEF QueueStep, EventOf
<1> QED
  BY <1>2, <1>5

\* The rows, when w leaves them alone and does not go on to process.
LEMMA QuietRows ==
    ASSUME IInv, NEW w \in Workers, NEW k, WorkerStep(w, k), k.pc \notin Processing,
           UNCHANGED storeVars
    PROVE  RowsOK
<1>1. worker'[w] = k /\ (\A v \in Workers \ {w} : worker'[v] = worker[v]) /\ UNCHANGED <<inbox, applied>>
  BY Types DEF WorkerStep, storeVars
<1>2. OneProcessor'
  BY <1>1, Types DEF OneProcessor, EventOf
<1>3. RowInv'
  BY <1>1, Types DEF RowInv, EventOf, Processing
<1> QED
  BY <1>1, <1>2, <1>3, Types DEF RowsOK

-----------------------------------------------------------------------------
(* The steps of a worker. *)

LEMMA QuietQueue ==
    ASSUME IInv, UNCHANGED queueVars
    PROVE  QueueStep
BY Types DEF QueueStep, queueVars

\* A worker goes on to another label with the message it has.
LEMMA GoOK ==
    ASSUME IInv, NEW w \in Workers, worker[w].pc # "idle", NEW label \in {"insert", "process"}, Go(w, label)
    PROVE  \E k : /\ WorkerStep(w, k) /\ k.pc = label /\ k.msg = worker[w].msg
                  /\ worker'[w] = k /\ \A v \in Workers \ {w} : worker'[v] = worker[v]
<1>1. PICK k : k = [worker[w] EXCEPT !.pc = label]
  OBVIOUS
<1>2. worker' = [worker EXCEPT ![w] = k]
  BY <1>1, Types DEF Go
<1>3. k \in WorkerRecord /\ k.pc = label /\ k.msg = worker[w].msg
  BY <1>1, Handling DEF WorkerRecord
<1>4. WorkerStep(w, k)
  BY <1>2, <1>3, Handling DEF WorkerStep
<1>5. worker'[w] = k /\ \A v \in Workers \ {w} : worker'[v] = worker[v]
  BY <1>2, Types
<1> QED
  BY <1>3, <1>4, <1>5

LEMMA DeliverKeeps ==
    ASSUME IInv, NEW w \in Workers, NEW m \in Messages, Deliver(w, m)
    PROVE  IInv'
<1>1. PICK k : k = [pc |-> "check", msg |-> m, leased |-> TRUE, ok |-> FALSE]
  OBVIOUS
<1>2. /\ message[m] = "queued" /\ message' = [message EXCEPT ![m] = "leased"]
      /\ attempts' = [attempts EXCEPT ![m] = attempts[m] + 1]
      /\ worker' = [worker EXCEPT ![w] = k] /\ UNCHANGED <<pspVars, storeVars, faults>>
  BY <1>1 DEF Deliver
<1>3. WorkerStep(w, k) /\ k.pc \notin Processing
  BY <1>1, <1>2 DEF WorkerStep, WorkerRecord, Processing
<1>4. QueueStep
  <2>1. attempts[m] + 1 \in 0..MaxRetries
    BY <1>2, Types DEF MessageInv
  <2> QED
    BY <1>2, <2>1, Types DEF QueueStep, MessageState
<1> QED
  BY <1>2, <1>3, <1>4, QuietRows, FaultType, HandleKeeps

\* A step that ends in an ack or a nack and leaves the rows alone.
LEMMA SettleKeeps ==
    ASSUME IInv, NEW w \in Workers, worker[w].pc # "idle",
           (Ack(w) /\ inbox[EventOf(w)] # "absent") \/ Nack(w),
           UNCHANGED <<pspVars, attempts, storeVars>>, Fault \/ UNCHANGED faults
    PROVE  IInv'
<1>1. WorkerStep(w, Idle) /\ QueueStep
  BY SettleOK
<1>2. Idle.pc \notin Processing
  BY IdleRecord DEF Processing
<1>3. RowsOK
  BY <1>1, <1>2, QuietRows
<1>4. faults' \in 0..MaxFaults /\ UNCHANGED pspVars
  BY FaultType
<1> QED
  BY <1>1, <1>3, <1>4, HandleKeeps

LEMMA CheckKeeps ==
    ASSUME IInv, NEW w \in Workers, Check(w) \/ CheckFails(w)
    PROVE  IInv'
<1>1. worker[w].pc = "check" /\ UNCHANGED <<pspVars, attempts, storeVars>> /\ (Fault \/ UNCHANGED faults)
  BY DEF Check, CheckFails, At
<1>2. CASE Nack(w) \/ (Ack(w) /\ inbox[EventOf(w)] # "absent")
  BY <1>1, <1>2, SettleKeeps
<1>3. CASE Go(w, "insert") /\ UNCHANGED message
  <2>1. PICK k : WorkerStep(w, k) /\ k.pc = "insert"
    BY <1>1, <1>3, GoOK
  <2>2. QueueStep /\ k.pc \notin Processing
    BY <1>1, <1>3, <2>1, QuietQueue DEF queueVars, Processing
  <2> QED
    BY <1>1, <2>1, <2>2, QuietRows, FaultType, HandleKeeps
<1> QED
  BY <1>2, <1>3 DEF Check, CheckFails

\* The unique key lets through one worker, who makes the row.
LEMMA InsertKeeps ==
    ASSUME IInv, NEW w \in Workers, Insert(w) \/ InsertFails(w)
    PROVE  IInv'
<1>1. PICK e : e = EventOf(w)
  OBVIOUS
<1>2. /\ worker[w].pc = "insert" /\ worker[w].pc # "idle" /\ worker[w].pc \notin Processing
      /\ UNCHANGED <<pspVars, attempts, applied>> /\ (Fault \/ UNCHANGED faults)
  BY DEF Insert, InsertFails, At, Processing
<1>3. e \in Events
  BY <1>1, <1>2, Handling
<1>4. CASE Nack(w) /\ UNCHANGED inbox
  BY <1>2, <1>4, SettleKeeps DEF storeVars
<1>5. ASSUME inbox[e] = "absent"
      PROVE  /\ applied[e] = 0
             /\ \A v \in Workers : worker[v].pc \in Processing => EventOf(v) # e
  BY <1>3, <1>5, Types DEF RowInv
<1>6. CASE /\ inbox[e] = "absent" /\ inbox' = [inbox EXCEPT ![e] = "processing"]
           /\ Nack(w)
  <2>1. WorkerStep(w, Idle) /\ QueueStep
    BY <1>2, <1>6, SettleOK
  <2>2. worker'[w] = Idle /\ \A v \in Workers \ {w} : worker'[v] = worker[v]
    BY <2>1, Types DEF WorkerStep
  <2>3. Idle.pc \notin Processing
    BY IdleRecord DEF Processing
  <2>4. OneProcessor'
    BY <2>2, <2>3, Types DEF OneProcessor, EventOf
  <2>5. /\ inbox' \in [Events -> RowState] /\ inbox'[e] = "processing"
        /\ \A f \in Events \ {e} : inbox'[f] = inbox[f]
    BY <1>3, <1>6, Types DEF RowState
  <2>6. RowInv'
    BY <1>2, <1>3, <1>5, <1>6, <2>2, <2>3, <2>5, Types DEF RowInv, EventOf, Processing
  <2>7. RowsOK
    BY <1>2, <1>6, <2>4, <2>5, <2>6, Types DEF RowsOK
  <2> QED
    BY <1>2, <2>1, <2>7, FaultType, HandleKeeps
<1>7. CASE /\ inbox[e] = "absent" /\ inbox' = [inbox EXCEPT ![e] = "processing"]
           /\ Go(w, "process") /\ UNCHANGED message
  <2>1. PICK k : /\ WorkerStep(w, k) /\ k.pc = "process" /\ k.msg = worker[w].msg
                 /\ worker'[w] = k /\ \A v \in Workers \ {w} : worker'[v] = worker[v]
    BY <1>2, <1>7, GoOK
  <2>2. QueueStep
    BY <1>2, <1>7, QuietQueue DEF queueVars
  <2>3. EventOf(w)' = e
    BY <1>1, <2>1 DEF EventOf
  <2>4. OneProcessor'
    <3>1. \A v \in Workers \ {w} :
              /\ worker'[v].pc \in Processing => EventOf(v)' # e
              /\ EventOf(v)' = EventOf(v)
      BY <1>5, <1>7, <2>1 DEF EventOf
    <3> QED
      BY <2>1, <2>3, <3>1, Types DEF OneProcessor
  <2>5. /\ inbox' \in [Events -> RowState] /\ inbox'[e] = "processing"
        /\ \A f \in Events \ {e} : inbox'[f] = inbox[f]
    BY <1>3, <1>7, Types DEF RowState
  <2>6. RowInv'
    <3>1. \A f \in Events : /\ applied'[f] <= 1
                            /\ inbox'[f] = "absent" => applied'[f] = 0
                            /\ inbox'[f] = "processed" => applied'[f] = 1
      BY <1>2, <1>3, <1>5, <1>7, <2>5, Types DEF RowInv
    <3>2. ASSUME NEW v \in Workers
          PROVE  /\ worker'[v].pc \in Processing => inbox'[EventOf(v)'] = "processing"
                 /\ worker'[v].pc = "process" => applied'[EventOf(v)'] = 0
                 /\ worker'[v].pc = "finish" /\ worker'[v].ok => applied'[EventOf(v)'] = 1
      <4>1. CASE v = w
        BY <1>2, <1>5, <1>7, <2>1, <2>3, <2>5, <4>1
      <4>2. CASE v # w
        <5>1. worker'[v] = worker[v] /\ EventOf(v)' = EventOf(v)
          BY <2>1, <4>2 DEF EventOf
        <5>2. worker[v].pc \in Processing => EventOf(v) \in Events \ {e}
          BY <1>5, <1>7, Handling DEF Processing
        <5> QED
          BY <1>2, <2>5, <5>1, <5>2, Types DEF RowInv, Processing
      <4> QED
        BY <4>1, <4>2
    <3> QED
      BY <3>1, <3>2 DEF RowInv, EventOf
  <2>7. RowsOK
    BY <1>2, <1>7, <2>4, <2>5, <2>6, Types DEF RowsOK
  <2> QED
    BY <1>2, <2>1, <2>2, <2>7, FaultType, HandleKeeps
<1> QED
  BY <1>1, <1>4, <1>6, <1>7 DEF Insert, InsertFails

\* The event takes effect at most once: w alone processes it, and it had none.
LEMMA ProcessKeeps ==
    ASSUME IInv, NEW w \in Workers, Process(w) \/ ProcessUnsure(w)
    PROVE  IInv'
<1>1. PICK e : e = EventOf(w)
  OBVIOUS
<1>2. PICK ok, done \in BOOLEAN :
          /\ worker' = [worker EXCEPT ![w].pc = "finish", ![w].ok = ok]
          /\ applied' = IF done THEN [applied EXCEPT ![e] = @ + 1] ELSE applied
          /\ ok => done
  BY <1>1 DEF Process, ProcessUnsure
<1>3. /\ worker[w].pc = "process" /\ worker[w].pc # "idle" /\ worker[w].pc \in Processing
      /\ UNCHANGED <<pspVars, queueVars, inbox>> /\ (Fault \/ UNCHANGED faults)
  BY DEF Process, ProcessUnsure, At, Processing
<1>4. e \in Events /\ applied[e] = 0 /\ inbox[e] = "processing"
  BY <1>1, <1>3, Handling, Types DEF RowInv
<1>5. PICK k : k = [worker[w] EXCEPT !.pc = "finish", !.ok = ok]
  OBVIOUS
<1>6. worker' = [worker EXCEPT ![w] = k]
  BY <1>2, <1>5, Types
<1>7. /\ WorkerStep(w, k) /\ k.pc = "finish" /\ k.msg = worker[w].msg /\ k.ok = ok
      /\ worker'[w] = k /\ \A v \in Workers \ {w} : worker'[v] = worker[v]
  <2>1. k \in WorkerRecord /\ k.pc = "finish" /\ k.msg = worker[w].msg /\ k.ok = ok
    BY <1>3, <1>5, Handling DEF WorkerRecord
  <2>2. WorkerStep(w, k)
    BY <1>3, <1>6, <2>1, Handling DEF WorkerStep
  <2> QED
    BY <1>6, <2>1, <2>2, Types
<1>8. EventOf(w)' = e /\ \A v \in Workers \ {w} : EventOf(v)' = EventOf(v)
  BY <1>1, <1>7 DEF EventOf
<1>9. OneProcessor'
  BY <1>1, <1>3, <1>7, <1>8, Types DEF OneProcessor
<1>10. /\ applied' \in [Events -> Nat]
       /\ applied'[e] \in {0, 1} /\ (ok => applied'[e] = 1)
       /\ \A f \in Events \ {e} : applied'[f] = applied[f]
  BY <1>2, <1>4, Types
<1>11. RowInv'
  <2>1. \A f \in Events : /\ applied'[f] <= 1
                          /\ inbox'[f] = "absent" => applied'[f] = 0
                          /\ inbox'[f] = "processed" => applied'[f] = 1
    BY <1>3, <1>4, <1>10, Types DEF RowInv
  <2>2. ASSUME NEW v \in Workers
        PROVE  /\ worker'[v].pc \in Processing => inbox'[EventOf(v)'] = "processing"
               /\ worker'[v].pc = "process" => applied'[EventOf(v)'] = 0
               /\ worker'[v].pc = "finish" /\ worker'[v].ok => applied'[EventOf(v)'] = 1
    <3>1. CASE v = w
      BY <1>3, <1>4, <1>7, <1>8, <1>10, <3>1
    <3>2. CASE v # w
      <4>1. worker'[v] = worker[v] /\ EventOf(v)' = EventOf(v)
        BY <1>7, <1>8, <3>2
      <4>2. worker[v].pc \in Processing => EventOf(v) \in Events \ {e}
        BY <1>1, <1>3, <3>2, Handling, Types DEF OneProcessor, Processing
      <4> QED
        BY <1>3, <1>10, <4>1, <4>2, Types DEF RowInv, Processing
    <3> QED
      BY <3>1, <3>2
  <2> QED
    BY <2>1, <2>2 DEF RowInv, EventOf
<1>12. RowsOK
  BY <1>3, <1>9, <1>10, <1>11, Types DEF RowsOK
<1>13. QueueStep /\ faults' \in 0..MaxFaults
  BY <1>3, QuietQueue, FaultType
<1> QED
  BY <1>3, <1>7, <1>12, <1>13, HandleKeeps

\* The row is marked with the result, or stays in processing.
LEMMA FinishKeeps ==
    ASSUME IInv, NEW w \in Workers, Finish(w) \/ FinishUnmarked(w)
    PROVE  IInv'
<1>1. PICK e : e = EventOf(w)
  OBVIOUS
<1>2. /\ worker[w].pc = "finish" /\ worker[w].pc # "idle" /\ worker[w].pc \in Processing
      /\ UNCHANGED <<pspVars, attempts, applied>> /\ (Fault \/ UNCHANGED faults)
      /\ Return(w)
  BY DEF Finish, FinishUnmarked, At, Processing, storeVars
<1>3. /\ e \in Events /\ inbox[e] = "processing" /\ (worker[w].ok => applied[e] = 1)
      /\ worker[w].ok \in BOOLEAN
  BY <1>1, <1>2, Handling, Types DEF RowInv, WorkerRecord
<1>4. WorkerStep(w, Idle) /\ QueueStep
  BY <1>1, <1>2, <1>3, SettleOK DEF Return
<1>5. worker'[w] = Idle /\ \A v \in Workers \ {w} : worker'[v] = worker[v]
  BY <1>4, Types DEF WorkerStep
<1>6. /\ inbox' \in [Events -> RowState]
      /\ inbox'[e] \in {"processing", "processed", "failed"}
      /\ inbox'[e] = "processed" => worker[w].ok
      /\ \A f \in Events \ {e} : inbox'[f] = inbox[f]
  BY <1>1, <1>3, Types DEF Finish, FinishUnmarked, RowState, storeVars
<1>7. Idle.pc \notin Processing /\ Idle.pc \notin {"process", "finish"}
  BY IdleRecord DEF Processing
<1>8. OneProcessor'
  BY <1>5, <1>7, Types DEF OneProcessor, EventOf
<1>9. RowInv'
  <2>1. \A f \in Events : /\ applied'[f] <= 1
                          /\ inbox'[f] = "absent" => applied'[f] = 0
                          /\ inbox'[f] = "processed" => applied'[f] = 1
    BY <1>2, <1>3, <1>6, Types DEF RowInv
  <2>2. ASSUME NEW v \in Workers
        PROVE  /\ worker'[v].pc \in Processing => inbox'[EventOf(v)'] = "processing"
               /\ worker'[v].pc = "process" => applied'[EventOf(v)'] = 0
               /\ worker'[v].pc = "finish" /\ worker'[v].ok => applied'[EventOf(v)'] = 1
    <3>1. CASE v = w
      BY <1>5, <1>7, <3>1
    <3>2. CASE v # w
      <4>1. worker'[v] = worker[v] /\ EventOf(v)' = EventOf(v)
        BY <1>5, <3>2 DEF EventOf
      <4>2. worker[v].pc \in Processing => EventOf(v) \in Events \ {e}
        BY <1>1, <1>2, <3>2, Handling, Types DEF OneProcessor, Processing
      <4> QED
        BY <1>2, <1>6, <4>1, <4>2, Types DEF RowInv, Processing
    <3> QED
      BY <3>1, <3>2
  <2> QED
    BY <2>1, <2>2 DEF RowInv, EventOf
<1>10. RowsOK
  BY <1>2, <1>3, <1>6, <1>8, <1>9, Types DEF RowsOK
<1>11. faults' \in 0..MaxFaults /\ UNCHANGED pspVars
  BY <1>2, FaultType
<1> QED
  BY <1>4, <1>10, <1>11, HandleKeeps

\* The worker goes on, but its result no longer counts.
LEMMA LeaseExpiresKeeps ==
    ASSUME IInv, NEW w \in Workers, LeaseExpires(w)
    PROVE  IInv'
<1>1. /\ worker[w].leased /\ Fault
      /\ message' = [message EXCEPT ![worker[w].msg] = AfterFailure(worker[w].msg)]
      /\ worker' = [worker EXCEPT ![w].leased = FALSE]
      /\ UNCHANGED <<pspVars, attempts, inbox, applied>>
  BY DEF LeaseExpires, storeVars
<1>2. worker[w].pc # "idle"
  BY <1>1, Types DEF WorkerInv
<1>3. PICK k : k = [worker[w] EXCEPT !.leased = FALSE]
  OBVIOUS
<1>4. worker' = [worker EXCEPT ![w] = k]
  BY <1>1, <1>3, Types
<1>5. k \in WorkerRecord /\ k.pc = worker[w].pc /\ k.msg = worker[w].msg /\ k.ok = worker[w].ok
  BY <1>2, <1>3, Handling DEF WorkerRecord
<1>6. WorkerStep(w, k)
  BY <1>2, <1>4, <1>5, Handling DEF WorkerStep
<1>7. QueueStep
  BY <1>1, <1>2, Handling, Types DEF QueueStep, MessageState
<1>8. \A v \in Workers : /\ worker'[v].pc = worker[v].pc /\ worker'[v].ok = worker[v].ok
                         /\ EventOf(v)' = EventOf(v)
  BY <1>4, <1>5, Types DEF EventOf
<1>9. OneProcessor'
  BY <1>8, Types DEF OneProcessor
<1>10. RowInv'
  BY <1>1, <1>8, Types DEF RowInv
<1>11. RowsOK
  BY <1>1, <1>9, <1>10, Types DEF RowsOK
<1> QED
  BY <1>1, <1>6, <1>7, <1>11, FaultType, HandleKeeps

-----------------------------------------------------------------------------
(* The steps of nobody's message: posts, time and crashes.                  *)

\* A post puts a message into the queue that was not used before, or none.
LEMMA PostKeeps ==
    ASSUME IInv, NEW e \in Events, Post(e) \/ PostFails(e)
    PROVE  IInv'
<1>1. PICK m : m = <<e, sent[e] + 1>>
  OBVIOUS
<1>2. /\ sent[e] < MaxSends /\ sent' = [sent EXCEPT ![e] = @ + 1]
      /\ UNCHANGED <<stale, attempts, inbox, applied, worker>> /\ (Fault \/ UNCHANGED faults)
  BY DEF Post, PostFails, Posting, storeVars
<1>3. sent[e] \in Nat /\ sent[e] + 1 \in 1..MaxSends
  BY <1>2, Types
<1>4. m \in Messages /\ m[1] = e /\ m[2] = sent[e] + 1
  BY <1>1, <1>3 DEF Messages
<1>5. message[m] = "none" /\ attempts[m] < MaxRetries
  BY <1>3, <1>4, Types DEF MessageInv
<1>6. /\ message' = message \/ message' = [message EXCEPT ![m] = "queued"]
      /\ answer' \in [Events -> {"none", "ok", "error"}]
      /\ answer'[e] = "ok" => message'[m] = "queued"
      /\ \A f \in Events \ {e} : answer'[f] = answer[f]
  BY <1>1, <1>4, Types DEF Post, PostFails, Enqueue
<1>7. /\ message' \in [Messages -> MessageState]
      /\ \A n \in Messages \ {m} : message'[n] = message[n]
      /\ message'[m] \in {"none", "queued"}
  BY <1>4, <1>5, <1>6, Types DEF MessageState
<1>8. /\ sent' \in [Events -> 0..MaxSends] /\ sent'[e] = sent[e] + 1
      /\ \A f \in Events \ {e} : sent'[f] = sent[f]
  BY <1>2, <1>3, Types
<1>9. MessageInv'
  <2>1. ASSUME NEW n \in Messages
        PROVE  /\ n[1] \in Events
               /\ n[2] > sent'[n[1]] => message'[n] = "none"
               /\ message'[n] \in {"none", "queued"} => attempts'[n] < MaxRetries
               /\ message'[n] = "acked" => inbox'[n[1]] # "absent"
               /\ message[n] # "none" => message'[n] # "none"
    <3>1. n[1] \in Events /\ n[2] \in Nat /\ n = <<n[1], n[2]>> /\ sent[n[1]] \in Nat
      BY Types DEF Messages
    <3>2. CASE n = m
      BY <1>2, <1>3, <1>4, <1>5, <1>7, <1>8, <3>1, <3>2
    <3>3. CASE n # m
      BY <1>2, <1>3, <1>7, <1>8, <3>1, <3>3, Types DEF MessageInv
    <3> QED
      BY <3>2, <3>3
  <2>2. ASSUME NEW f \in Events, answer'[f] = "ok"
        PROVE  \E n \in Messages : n[1] = f /\ message'[n] # "none"
    <3>1. CASE f = e
      BY <1>4, <1>6, <2>2, <3>1
    <3>2. CASE f # e
      BY <1>6, <2>1, <2>2, <3>2, Types DEF MessageInv
    <3> QED
      BY <3>1, <3>2
  <2> QED
    BY <2>1, <2>2 DEF MessageInv
<1>10. WorkerInv' /\ OneProcessor' /\ RowInv'
  <2>1. \A n \in Messages : message[n] # "none" => message'[n] # "none"
    BY <1>5, <1>7
  <2> QED
    BY <1>2, <2>1, Types DEF WorkerInv, OneProcessor, RowInv, EventOf
<1>11. TypeOK'
  BY <1>2, <1>6, <1>7, <1>8, Types, FaultType DEF TypeOK, MessageState, RowState, WorkerRecord
<1> QED
  BY <1>9, <1>10, <1>11 DEF IInv

LEMMA AgeKeeps ==
    ASSUME IInv, NEW e \in Events, Age(e)
    PROVE  IInv'
<1>1. /\ UNCHANGED <<sent, answer, message, attempts, inbox, applied, worker, faults>>
      /\ stale' \in [Events -> BOOLEAN]
  BY Types DEF Age, queueVars, storeVars
<1>2. TypeOK'
  BY <1>1, Types DEF TypeOK, MessageState, RowState, WorkerRecord
<1> QED
  BY <1>1, <1>2, Types DEF IInv, MessageInv, WorkerInv, OneProcessor, RowInv, EventOf

\* A crash leaves rows without their worker, and messages that are delivered
\* again as far as they have deliveries left.
LEMMA CrashKeeps ==
    ASSUME IInv, Crash
    PROVE  IInv'
<1>1. /\ Fault /\ UNCHANGED <<pspVars, attempts, storeVars>>
      /\ worker' = [w \in Workers |-> Idle]
      /\ message' = [m \in Messages |-> IF message[m] = "leased" THEN AfterFailure(m) ELSE message[m]]
  BY DEF Crash
<1>2. \A w \in Workers : worker'[w].pc = "idle" /\ ~worker'[w].leased
  BY <1>1, IdleRecord
<1>3. QueueStep
  <2>1. \A m \in Messages : /\ AfterFailure(m) \in {"queued", "dead"}
                            /\ AfterFailure(m) = "queued" => attempts[m] < MaxRetries
    BY Types DEF AfterFailure
  <2> QED
    BY <1>1, <2>1, Types DEF QueueStep, MessageState
<1>4. RowsOK
  BY <1>1, <1>2, Types DEF RowsOK, OneProcessor, RowInv, Processing, storeVars
<1>5. MessageInv'
  BY <1>1, <1>3, <1>4, QueueKeeps
<1>6. TypeOK'
  <2>1. worker' \in [Workers -> WorkerRecord]
    BY <1>1, IdleRecord
  <2> QED
    BY <1>1, <1>3, <1>4, <2>1, Types, FaultType
       DEF TypeOK, QueueStep, RowsOK, MessageState, RowState, WorkerRecord, pspVars
<1>7. WorkerInv'
  BY <1>2 DEF WorkerInv
<1> QED
  BY <1>4, <1>5, <1>6, <1>7 DEF IInv, RowsOK

-----------------------------------------------------------------------------
(* The theorems. *)

LEMMA InitIInv == Init => IInv
<1> SUFFICES ASSUME Init PROVE IInv
  OBVIOUS
<1>1. \A w \in Workers : worker[w].pc = "idle" /\ ~worker[w].leased
  BY IdleRecord DEF Init
<1>2. TypeOK
  <2>1. worker \in [Workers -> WorkerRecord]
    BY IdleRecord DEF Init
  <2> QED
    BY <2>1, RetriesAssumption, FaultsAssumption DEF Init, TypeOK, WorkerRecord
<1>3. MessageInv
  BY RetriesAssumption DEF Init, MessageInv, Messages
<1>4. WorkerInv /\ OneProcessor
  BY <1>1 DEF WorkerInv, OneProcessor, Processing
<1>5. RowInv
  BY <1>1 DEF Init, RowInv, Processing
<1> QED
  BY <1>2, <1>3, <1>4, <1>5 DEF IInv

LEMMA NextIInv == IInv /\ [Next]_vars => IInv'
<1> SUFFICES ASSUME IInv, [Next]_vars PROVE IInv'
  OBVIOUS
<1>1. CASE UNCHANGED vars
  BY <1>1 DEF IInv, TypeOK, MessageInv, WorkerInv, OneProcessor, RowInv, EventOf,
              vars, pspVars, queueVars, storeVars
<1>2. ASSUME NEW w \in Workers, Handle(w)
      PROVE  IInv'
  BY <1>2, CheckKeeps, InsertKeeps, ProcessKeeps, FinishKeeps DEF Handle
<1> QED
  BY <1>1, <1>2, PostKeeps, AgeKeeps, LeaseExpiresKeeps, DeliverKeeps, CrashKeeps DEF Next

LEMMA Invariant == Spec => []IInv
BY InitIInv, NextIInv, PTL DEF Spec

\* For any events, workers, posts and retries: all state of the delivery
\* keeps its type, and no message is delivered more often than MaxRetries.
THEOREM DeliveryTypes == Spec => []TypeOK
<1>1. IInv => TypeOK
  BY DEF IInv
<1> QED
  BY <1>1, Invariant, PTL

\* An event takes effect at most once, whatever is posted, delivered or
\* retried twice and wherever the process stops, and a row that says
\* processed tells the truth.
THEOREM AppliedOnceAlways == Spec => []AppliedOnce
<1>1. IInv => AppliedOnce
  BY DEF IInv, RowInv, AppliedOnce
<1> QED
  BY <1>1, Invariant, PTL

\* HandleWebhook's 200 is a promise: the event waits, is dead-lettered or
\* has its row in webhook_events.
THEOREM AnsweredKept == Spec => []AnsweredIsKept
<1>1. IInv => AnsweredIsKept
  <2> SUFFICES ASSUME IInv, NEW e \in Events, answer[e] = "ok"
               PROVE  \/ inbox[e] # "absent"
                      \/ \E m \in Messages : m[1] = e /\ message[m] \in {"queued", "leased", "dead"}
    BY DEF AnsweredIsKept
  <2>1. PICK m \in Messages : m[1] = e /\ message[m] # "none"
    BY Types DEF MessageInv
  <2>2. message[m] \in MessageState
    BY Types
  <2> QED
    BY <2>1, <2>2, Types DEF MessageInv, MessageState
<1> QED
  BY <1>1, Invariant, PTL

=============================================================================
