--------------------------- MODULE WebhookDelivery ---------------------------
(***************************************************************************)
(* Webhooks over Pub/Sub: HandleWebhook publishes what a PSP posts and     *)
(* answers, the workers of StartWebhookSubscriber pull the messages and    *)
(* ack or nack them by what IngestWebhook returns, and a message that is   *)
(* nacked MaxRetries times goes to the dead-letter topic.  Pub/Sub         *)
(* delivers at least once; the table webhook_events is what keeps an event *)
(* from being processed twice.  WebhookService has the payments and the    *)
(* books behind Process.                                                   *)
(***************************************************************************)
EXTENDS Naturals

CONSTANTS
    Events,       \* webhook payloads, each with its idempotency key
    Workers,      \* messages that are handled at a time
    NoMessage,    \* the message of an idle worker
    MaxSends,     \* bound on the posts of one event
    MaxRetries,   \* Config.MaxRetries: deliveries before a message is dead
    MaxFaults     \* bound on errors, lost answers, expired leases and crashes

Messages == Events \X (1..MaxSends)

ASSUME RetriesAssumption == MaxRetries \in Nat \ {0} /\ MaxSends \in Nat \ {0}
ASSUME WorkerAssumption == NoMessage \notin Messages
ASSUME FaultsAssumption == MaxFaults \in Nat

VARIABLES
    sent,       \* sent[e]: posts of the event so far
    answer,     \* answer[e]: what the last post was answered
    stale,      \* stale[e]: the event is more than webhookMaxAge old
    message,    \* message[m]: state of the message in the webhook subscription
    attempts,   \* attempts[m]: deliveries of the message
    inbox,      \* inbox[e]: webhook_events.status of the row with the event's key
    applied,    \* applied[e]: times the event's effects were committed
    worker,     \* worker[w]: program counter, message, whether its lease holds, result
    faults      \* faults so far

pspVars == <<sent, answer, stale>>
queueVars == <<message, attempts>>
storeVars == <<inbox, applied>>
vars == <<pspVars, queueVars, storeVars, worker, faults>>

Idle == [pc |-> "idle", msg |-> NoMessage, leased |-> FALSE, ok |-> FALSE]

Init ==
    /\ sent = [e \in Events |-> 0]
    /\ answer = [e \in Events |-> "none"]
    /\ stale = [e \in Events |-> FALSE]
    /\ message = [m \in Messages |-> "none"]
    /\ attempts = [m \in Messages |-> 0]
    /\ inbox = [e \in Events |-> "absent"]
    /\ applied = [e \in Events |-> 0]
    /\ worker = [w \in Workers |-> Idle]
    /\ faults = 0

-----------------------------------------------------------------------------

At(w, label) == worker[w].pc = label
EventOf(w) == worker[w].msg[1]
Go(w, label) == worker' = [worker EXCEPT ![w].pc = label]

Fault == faults < MaxFaults /\ faults' = faults + 1

\* The PSP posts an event until it is answered 200.
Posting(e) ==
    /\ answer[e] # "ok" /\ sent[e] < MaxSends
    /\ sent' = [sent EXCEPT ![e] = @ + 1]

Enqueue(e) == message' = [message EXCEPT ![<<e, sent[e] + 1>>] = "queued"]

\* HandleWebhook answers 200 once Pub/Sub has the message.
Post(e) ==
    /\ Posting(e)
    /\ Enqueue(e)
    /\ answer' = [answer EXCEPT ![e] = "ok"]
    /\ UNCHANGED <<stale, attempts, storeVars, worker, faults>>

\* Mutant: HandleWebhook does not wait for the result of Publish.
PostFails_Fires(e) ==
    /\ Posting(e)
    /\ Fault
    /\ \/ Enqueue(e)
       \/ UNCHANGED message
    /\ answer' = [answer EXCEPT ![e] = "ok"]
    /\ UNCHANGED <<stale, attempts, storeVars, worker>>

\* PublishWebhook returns an error, or the answer is lost; the message may be there all the same.
PostFails(e) ==
    /\ Posting(e)
    /\ Fault
    /\ \/ Enqueue(e)
       \/ UNCHANGED message
    /\ answer' = [answer EXCEPT ![e] = "error"]
    /\ UNCHANGED <<stale, attempts, storeVars, worker>>

\* Five minutes pass.
Age(e) ==
    /\ ~stale[e]
    /\ stale' = [stale EXCEPT ![e] = TRUE]
    /\ UNCHANGED <<sent, answer, queueVars, storeVars, worker, faults>>

-----------------------------------------------------------------------------

\* Mutant: MaxRetries counts the deliveries after the first.
AfterFailure_OneMore(m) == IF attempts[m] > MaxRetries THEN "dead" ELSE "queued"

\* Where Pub/Sub puts a message whose delivery has come to nothing.
AfterFailure(m) == IF attempts[m] >= MaxRetries THEN "dead" ELSE "queued"

\* The result of the callback counts only while the lease holds.
Settle(w, to) ==
    /\ message' = IF worker[w].leased THEN [message EXCEPT ![worker[w].msg] = to] ELSE message
    /\ worker' = [worker EXCEPT ![w] = Idle]

Ack(w) == Settle(w, "acked")
Nack(w) == Settle(w, AfterFailure(worker[w].msg))

Deliver(w, m) ==
    /\ At(w, "idle") /\ message[m] = "queued"
    /\ message' = [message EXCEPT ![m] = "leased"]
    /\ attempts' = [attempts EXCEPT ![m] = @ + 1]
    /\ worker' = [worker EXCEPT ![w] = [pc |-> "check", msg |-> m, leased |-> TRUE, ok |-> FALSE]]
    /\ UNCHANGED <<pspVars, storeVars, faults>>

\* Mutant: The callback returns on a stale event without a nack.
Check_NoNack(w) ==
    /\ At(w, "check")
    /\ IF stale[EventOf(w)] THEN worker' = [worker EXCEPT ![w] = Idle] /\ UNCHANGED message
       ELSE IF inbox[EventOf(w)] # "absent" THEN Ack(w)
       ELSE Go(w, "insert") /\ UNCHANGED message
    /\ UNCHANGED <<pspVars, attempts, storeVars, faults>>

\* validateWebhookFreshness and the SELECT by idempotency key.
Check(w) ==
    /\ At(w, "check")
    /\ IF stale[EventOf(w)] THEN Nack(w)
       ELSE IF inbox[EventOf(w)] # "absent" THEN Ack(w)
       ELSE Go(w, "insert") /\ UNCHANGED message
    /\ UNCHANGED <<pspVars, attempts, storeVars, faults>>

\* One of the SELECTs fails.
CheckFails(w) ==
    /\ At(w, "check") /\ ~stale[EventOf(w)]
    /\ Fault
    /\ Nack(w)
    /\ UNCHANGED <<pspVars, attempts, storeVars>>

\* Mutant: The idempotency key is not unique.
Insert_NotUnique(w) ==
    /\ At(w, "insert")
    /\ inbox' = [inbox EXCEPT ![EventOf(w)] = "processing"]
    /\ Go(w, "process")
    /\ UNCHANGED <<pspVars, queueVars, applied, faults>>

\* The INSERT with the unique idempotency key: a worker that came second gets an error.
Insert(w) ==
    /\ At(w, "insert")
    /\ IF inbox[EventOf(w)] = "absent"
       THEN /\ inbox' = [inbox EXCEPT ![EventOf(w)] = "processing"]
            /\ Go(w, "process")
            /\ UNCHANGED message
       ELSE /\ Nack(w)
            /\ UNCHANGED inbox
    /\ UNCHANGED <<pspVars, attempts, applied, faults>>

\* The INSERT returns another error; the row may be there all the same.
InsertFails(w) ==
    /\ At(w, "insert")
    /\ Fault
    /\ \/ /\ inbox[EventOf(w)] = "absent"
          /\ inbox' = [inbox EXCEPT ![EventOf(w)] = "processing"]
       \/ UNCHANGED inbox
    /\ Nack(w)
    /\ UNCHANGED <<pspVars, attempts, applied>>

\* The transaction of the event commits, or it returns an error and leaves nothing.
Process(w) ==
    /\ At(w, "process")
    /\ \E ok \in BOOLEAN :
        /\ worker' = [worker EXCEPT ![w].pc = "finish", ![w].ok = ok]
        /\ applied' = IF ok THEN [applied EXCEPT ![EventOf(w)] = @ + 1] ELSE applied
    /\ UNCHANGED <<pspVars, queueVars, inbox, faults>>

\* The commit is carried out and its answer lost.
ProcessUnsure(w) ==
    /\ At(w, "process")
    /\ Fault
    /\ worker' = [worker EXCEPT ![w].pc = "finish", ![w].ok = FALSE]
    /\ applied' = [applied EXCEPT ![EventOf(w)] = @ + 1]
    /\ UNCHANGED <<pspVars, queueVars, inbox>>

\* IngestWebhook returns processErr whatever becomes of the row's status.
Return(w) == IF worker[w].ok THEN Ack(w) ELSE Nack(w)

Finish(w) ==
    /\ At(w, "finish")
    /\ inbox' = [inbox EXCEPT ![EventOf(w)] = IF worker[w].ok THEN "processed" ELSE "failed"]
    /\ Return(w)
    /\ UNCHANGED <<pspVars, attempts, applied, faults>>

\* The UPDATE of the status fails, which is only logged.
FinishUnmarked(w) ==
    /\ At(w, "finish")
    /\ Fault
    /\ Return(w)
    /\ UNCHANGED <<pspVars, attempts, storeVars>>

\* A lease ends under a worker that goes on, or a nack or an ack does not arrive.
LeaseExpires(w) ==
    /\ worker[w].leased
    /\ Fault
    /\ message' = [message EXCEPT ![worker[w].msg] = AfterFailure(worker[w].msg)]
    /\ worker' = [worker EXCEPT ![w].leased = FALSE]
    /\ UNCHANGED <<pspVars, attempts, storeVars>>

\* The process stops and starts again.
Crash ==
    /\ Fault
    /\ worker' = [w \in Workers |-> Idle]
    /\ message' = [m \in Messages |->
                       IF message[m] = "leased" THEN AfterFailure(m) ELSE message[m]]
    /\ UNCHANGED <<pspVars, attempts, storeVars>>

-----------------------------------------------------------------------------

Handle(w) ==
    \/ Check(w) \/ CheckFails(w) \/ Insert(w) \/ InsertFails(w)
    \/ Process(w) \/ ProcessUnsure(w) \/ Finish(w) \/ FinishUnmarked(w)

Next ==
    \/ \E e \in Events : Post(e) \/ PostFails(e) \/ Age(e)
    \/ \E w \in Workers : Handle(w) \/ LeaseExpires(w) \/ \E m \in Messages : Deliver(w, m)
    \/ Crash

Spec == Init /\ [][Next]_vars

\* Receive keeps pulling while it has a free slot, and every callback returns.
Fairness ==
    /\ \A m \in Messages : WF_vars(\E w \in Workers : Deliver(w, m))
    /\ \A w \in Workers : WF_vars(Handle(w))

FairSpec == Spec /\ Fairness

-----------------------------------------------------------------------------

\* Every part of the state has its type.
TypeOK ==
    /\ sent \in [Events -> 0..MaxSends]
    /\ answer \in [Events -> {"none", "ok", "error"}]
    /\ stale \in [Events -> BOOLEAN]
    /\ message \in [Messages -> {"none", "queued", "leased", "acked", "dead"}]
    /\ attempts \in [Messages -> 0..MaxRetries]
    /\ inbox \in [Events -> {"absent", "processing", "processed", "failed"}]
    /\ applied \in [Events -> Nat]
    /\ worker \in [Workers -> [pc : {"idle", "check", "insert", "process", "finish"},
                               msg : Messages \cup {NoMessage}, leased : BOOLEAN, ok : BOOLEAN]]
    /\ faults \in 0..MaxFaults

\* HandleWebhook's 200: an event whose post was answered 200, and which the PSP will not post again,
\* is in a message that is waiting, is dead-lettered, or left a row in webhook_events.
AnsweredIsKept ==
    \A e \in Events : answer[e] = "ok" =>
        \/ inbox[e] # "absent"
        \/ \E m \in Messages : m[1] = e /\ message[m] \in {"queued", "leased", "dead"}

\* The idempotency key: whatever is posted, delivered or retried twice, an event takes effect once,
\* and one whose row says processed has.
AppliedOnce ==
    \A e \in Events :
        /\ applied[e] <= 1
        /\ inbox[e] = "processed" => applied[e] = 1

\* Every message that Pub/Sub has taken is acked or dead-lettered in the end.
EveryMessageSettles ==
    \A m \in Messages : message[m] = "queued" ~> message[m] \in {"acked", "dead"}

=============================================================================
