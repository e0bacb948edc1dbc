---------------------------- MODULE DeadLetters ----------------------------
(***************************************************************************)
(* The dead letter queue: a Redis list that DLQService pushes to, retries  *)
(* from by index, and purges.  A retry is four Redis and webhook calls,    *)
(* and nothing holds the list still between them.                          *)
(***************************************************************************)
EXTENDS Naturals, SequencesExt

CONSTANTS
    Clients,     \* calls of Enqueue, Retry and Purge, each made once
    Entries,     \* failed webhooks
    MaxLen,      \* dlqMaxLen
    MaxFaults    \* bound on Redis errors and interrupted calls

ASSUME BoundsAssumption == MaxLen \in Nat \ {0} /\ MaxFaults \in Nat

VARIABLES
    list,           \* dlq:webhooks, newest first
    client,         \* client[c]: program counter and what a retry has read
    enqueued,       \* entries ever pushed
    reprocessed,    \* entries whose IngestWebhookRetry returned nil
    dropped,        \* entries trimmed or purged
    faults,         \* faults so far
    overlapped      \* whether the list changed under a retry

vars == <<list, client, enqueued, reprocessed, dropped, faults, overlapped>>

Labels == {"idle", "trim", "ingest", "mark", "sweep", "done"}

\* __DELETED__
Tombstone == [kind |-> "tombstone"]
Entry(e) == [kind |-> "entry", id |-> e]

InList == {e \in Entries : Contains(list, Entry(e))}

Idle == [pc |-> "idle", index |-> 0, entry |-> Tombstone]

Init ==
    /\ list = <<>>
    /\ client = [c \in Clients |-> Idle]
    /\ enqueued = {}
    /\ reprocessed = {}
    /\ dropped = {}
    /\ faults = 0
    /\ overlapped = FALSE

-----------------------------------------------------------------------------

At(c, label) == client[c].pc = label

Goto(c, label) == client' = [client EXCEPT ![c].pc = label]

Fault == faults < MaxFaults /\ faults' = faults + 1

\* Others are in the middle of a retry when c changes the list.
Disturbs(c) ==
    overlapped' = (overlapped \/ \E d \in Clients \ {c} : client[d].pc \in {"ingest", "mark", "sweep"})

\* Mutant: The entry is pushed without being marshalled.
Push_Untyped(c) ==
    /\ At(c, "idle")
    /\ \E e \in Entries \ enqueued :
        /\ list' = <<e>> \o list
        /\ enqueued' = enqueued \cup {e}
    /\ Goto(c, "trim")
    /\ Disturbs(c)
    /\ UNCHANGED <<reprocessed, dropped, faults>>

\* Enqueue: LPush of the pipeline.
Push(c) ==
    /\ At(c, "idle")
    /\ \E e \in Entries \ enqueued :
        /\ list' = <<Entry(e)>> \o list
        /\ enqueued' = enqueued \cup {e}
    /\ Goto(c, "trim")
    /\ Disturbs(c)
    /\ UNCHANGED <<reprocessed, dropped, faults>>

\* LTrim of the pipeline, which is no transaction.
Trim(c) ==
    /\ At(c, "trim")
    /\ list' = IF Len(list) > MaxLen THEN SubSeq(list, 1, MaxLen) ELSE list
    /\ dropped' = dropped \cup {e \in InList : ~Contains(list', Entry(e))}
    /\ Goto(c, "done")
    /\ Disturbs(c)
    /\ UNCHANGED <<enqueued, reprocessed, faults>>

TrimFails(c) ==
    /\ At(c, "trim")
    /\ Fault
    /\ Goto(c, "done")
    /\ UNCHANGED <<list, enqueued, reprocessed, dropped, overlapped>>

\* Retry: LIndex, and Unmarshal, which fails on a tombstone.
Fetch(c) ==
    /\ At(c, "idle")
    /\ \E i \in 0..MaxLen :
        client' = [client EXCEPT ![c] =
            IF i < Len(list) /\ list[i + 1] # Tombstone
            THEN [pc |-> "ingest", index |-> i, entry |-> list[i + 1]]
            ELSE [Idle EXCEPT !.pc = "done"]]
    /\ UNCHANGED <<list, enqueued, reprocessed, dropped, faults, overlapped>>

\* IngestWebhookRetry
Ingest(c) ==
    /\ At(c, "ingest")
    /\ \/ Goto(c, "mark") /\ reprocessed' = reprocessed \cup {client[c].entry.id}
       \/ Goto(c, "done") /\ UNCHANGED reprocessed
    /\ UNCHANGED <<list, enqueued, dropped, faults, overlapped>>

\* Mutant: The entry after the one that was retried is marked.
Mark_OffByOne(c) ==
    LET i == client[c].index + 1
    IN  /\ At(c, "mark")
        /\ list' = IF i < Len(list) THEN [list EXCEPT ![i + 1] = Tombstone] ELSE list
        /\ Goto(c, "sweep")
        /\ Disturbs(c)
        /\ UNCHANGED <<enqueued, reprocessed, dropped, faults>>

\* LSet, whose error for an index out of range is ignored.
Mark(c) ==
    LET i == client[c].index
    IN  /\ At(c, "mark")
        /\ list' = IF i < Len(list) THEN [list EXCEPT ![i + 1] = Tombstone] ELSE list
        /\ Goto(c, "sweep")
        /\ Disturbs(c)
        /\ UNCHANGED <<enqueued, reprocessed, dropped, faults>>

\* LRem of one tombstone, the first from the head.
Sweep(c) ==
    /\ At(c, "sweep")
    /\ list' = RemoveFirst(list, Tombstone)
    /\ Goto(c, "done")
    /\ Disturbs(c)
    /\ UNCHANGED <<enqueued, reprocessed, dropped, faults>>

\* LSet or LRem is not carried out; its error is ignored.
RemoveFails(c) ==
    /\ client[c].pc \in {"mark", "sweep"}
    /\ Fault
    /\ Goto(c, IF At(c, "mark") THEN "sweep" ELSE "done")
    /\ UNCHANGED <<list, enqueued, reprocessed, dropped, overlapped>>

\* Purge: Del
Purge(c) ==
    /\ At(c, "idle")
    /\ list' = <<>>
    /\ dropped' = dropped \cup InList
    /\ Goto(c, "done")
    /\ Disturbs(c)
    /\ UNCHANGED <<enqueued, reprocessed, faults>>

Next ==
    \E c \in Clients :
        \/ Push(c) \/ Trim(c) \/ TrimFails(c) \/ Fetch(c) \/ Ingest(c)
        \/ Mark(c) \/ Sweep(c) \/ RemoveFails(c) \/ Purge(c)

Spec == Init /\ [][Next]_vars

-----------------------------------------------------------------------------

\* Every part of the state has its type.
TypeOK ==
    /\ list \in Seq({Tombstone} \cup {Entry(e) : e \in Entries})
    /\ client \in [Clients -> [pc : Labels, index : 0..MaxLen,
                               entry : {Tombstone} \cup {Entry(e) : e \in Entries}]]
    /\ enqueued \subseteq Entries
    /\ reprocessed \subseteq enqueued
    /\ dropped \subseteq enqueued
    /\ faults \in 0..MaxFaults
    /\ overlapped \in BOOLEAN

\* Entries that left the list and were neither reprocessed nor trimmed nor purged.
Lost == enqueued \ (InList \cup reprocessed \cup dropped)

\* A retry that nobody disturbs removes no entry but the one it retried, also when earlier
\* retries have left tombstones behind.
UndisturbedLosesNothing == ~overlapped => Lost = {}

=============================================================================
