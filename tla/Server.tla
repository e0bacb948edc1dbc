------------------------------- MODULE Server --------------------------------
(***************************************************************************)
(* cmd/server/main.go: the life of a process from its start to its         *)
(* graceful end, and what is under way inside it: payment requests that    *)
(* pass through the metrics middleware and hand events to Pub/Sub, the     *)
(* workers of the webhook subscriber, and readers of the dashboard.        *)
(*                                                                         *)
(* main waits for SIGTERM, lets the requests end, flushes the publishers   *)
(* and closes the pool; os.Exit skips everything that is deferred.  The    *)
(* subscriber gets a context that nobody ever cancels: only the closed     *)
(* pool stops it.                                                          *)
(***************************************************************************)
EXTENDS Metrics, Dashboard

CONSTANT Workers    \* goroutines of the webhook subscriber

ASSUME RequestsAreWriters == Requests = Writers

VARIABLES
    phase,      \* how far main has got
    exit,       \* how the process ended
    worker,     \* worker[w]: which statement of a webhook it is at
    event       \* event[p]: the event about the outcome of payment p at the PSP

processVars == <<phase, exit, worker, event>>
serverVars == <<metricVars, dashVars, processVars>>

\* An event is due once its commit is answered, and there is none when that answer is an error; it is
\* settled when Pub/Sub has taken it or the publisher has given up.
Events == {"none", "due", "unsure", "buffered", "settled"}

Phases == {"starting", "subscribed", "serving", "draining", "flushing", "closing", "exited"}

\* IngestWebhook takes a connection for each of its three parts and works between them without one.
NextLabel == [inserted |-> "processing", processed |-> "updating"]
AfterRelease == [inserting |-> "inserted", processing |-> "processed", updating |-> "idle"]
Unconnected == DOMAIN NextLabel
Connected == DOMAIN AfterRelease

ServerInit ==
    /\ MetricsInit /\ DashInit
    /\ phase = "starting"
    /\ exit = "running"
    /\ worker = [w \in Workers |-> "idle"]
    /\ event = [p \in Writers |-> "none"]

Phase(from, to) == phase = from /\ phase' = to

Exit(result) == phase' = "exited" /\ exit' = result

-----------------------------------------------------------------------------
(* main *)

\* Migrations, PostgreSQL and Pub/Sub are there; the subscriber starts.
Subscribe ==
    /\ Phase("starting", "subscribed")
    /\ UNCHANGED <<metricVars, dashVars, exit, worker, event>>

Serve ==
    /\ Phase("subscribed", "serving")
    /\ UNCHANGED <<metricVars, dashVars, exit, worker, event>>

\* One of them is not, there are no API keys in production, or the port is taken: the subscriber is at
\* work by then.
StartFails ==
    /\ phase \in {"starting", "subscribed"}
    /\ Exit("error")
    /\ UNCHANGED <<metricVars, dashVars, worker, event>>

Signal ==
    /\ Phase("serving", "draining")
    /\ UNCHANGED <<metricVars, dashVars, exit, worker, event>>

\* Mutant: srv.Close instead of srv.Shutdown.
Drained_NoWait ==
    /\ Phase("draining", "flushing")
    /\ UNCHANGED <<metricVars, dashVars, exit, worker, event>>

\* srv.Shutdown returns when no request is inside.
Drained ==
    /\ At(Inside) = {}
    /\ Phase("draining", "flushing")
    /\ UNCHANGED <<metricVars, dashVars, exit, worker, event>>

\* Mutant: srv.Shutdown gets a context without a deadline.
ShutdownTimesOut_Never == FALSE /\ UNCHANGED serverVars

\* It gives up after ten seconds, a third of what a request may take.
ShutdownTimesOut ==
    /\ phase = "draining" /\ At(Inside) # {}
    /\ Exit("error")
    /\ UNCHANGED <<metricVars, dashVars, worker, event>>

\* pubsubClient.Close: Stop returns when the publishers have nothing left to send.
Flushed ==
    /\ \A p \in Writers : event[p] # "buffered"
    /\ Phase("flushing", "closing")
    /\ UNCHANGED <<metricVars, dashVars, exit, worker, event>>

\* dbPool.Close returns when every connection is back.
PoolClosed ==
    /\ phase = "closing"
    /\ \A w \in Workers : worker[w] \notin Connected
    /\ Exit("graceful")
    /\ UNCHANGED <<metricVars, dashVars, worker, event>>

\* The process is killed.
Kill ==
    /\ phase # "exited"
    /\ Exit("error")
    /\ UNCHANGED <<metricVars, dashVars, worker, event>>

Main == Subscribe \/ Serve \/ Signal \/ Drained \/ ShutdownTimesOut \/ Flushed \/ PoolClosed

-----------------------------------------------------------------------------
(* What is under way. *)

Alive == phase # "exited"
Handling(p) == Alive /\ http[p] = "serving"

\* The event about p goes from one state to the next.
Event(p, from, to) == event[p] = from /\ event' = [event EXCEPT ![p] = to]

\* A request is accepted until the signal comes, and is then carried through the middleware.  Nothing
\* that could panic is between a commit and the event about it.
Request(p) ==
    /\ \/ phase = "serving" /\ Enter(p)
       \/ Alive /\ (Count(p) \/ Observe(p) \/ Leave(p))
       \/ Alive /\ event[p] # "due" /\ Panic(p)
    /\ UNCHANGED <<dashVars, processVars>>

\* CreatePayment: the INSERT, the commit of the outcome at the PSP, and the event about it.
Create(p) ==
    /\ Handling(p)
    /\ Stamp(p) \/ Insert(p)
    /\ UNCHANGED <<metricVars, processVars>>

\* The commit takes effect.  It may return an error all the same, its reply lost or its context over:
\* updatePaymentState returns before it publishes.
Conclude(p) ==
    /\ Handling(p)
    /\ status[p] = "created"
    /\ \E s \in {"authorized", "failed"} : status' = [status EXCEPT ![p] = s]
    /\ \E answer \in {"due", "unsure"} : Event(p, "none", answer)
    /\ UNCHANGED <<metricVars, stamped, stats, pages, known, phase, exit, worker>>

HandOver(p) ==
    /\ Handling(p)
    /\ Event(p, "due", "buffered")
    /\ UNCHANGED <<metricVars, dashVars, phase, exit, worker>>

\* The handler returns, early if a statement fails or the 30 seconds of the request are over, but
\* with no event left to hand over.
Answer(p) ==
    /\ Handling(p)
    /\ event[p] # "due"
    /\ Return(p)
    /\ UNCHANGED <<dashVars, processVars>>

\* The publisher sends in the background, and in the end either succeeds or logs an error.
Send(p) ==
    /\ Alive
    /\ Event(p, "buffered", "settled")
    /\ UNCHANGED <<metricVars, dashVars, phase, exit, worker>>

Step(w, label) == worker' = [worker EXCEPT ![w] = label]

Pull(w) ==
    /\ phase \in Phases \ {"starting", "closing", "exited"}
    /\ worker[w] = "idle"
    /\ Step(w, "inserting")
    /\ UNCHANGED <<metricVars, dashVars, phase, exit, event>>

\* A pool that is being closed gives out no connection: IngestWebhook returns its error.
Acquire(w) ==
    /\ Alive
    /\ worker[w] \in Unconnected
    /\ Step(w, IF phase = "closing" THEN "idle" ELSE NextLabel[worker[w]])
    /\ UNCHANGED <<metricVars, dashVars, phase, exit, event>>

\* The middle one of the three is the transaction that may move the payment.
Release(w) ==
    /\ Alive
    /\ worker[w] \in Connected
    /\ Step(w, AfterRelease[worker[w]])
    /\ \/ worker[w] = "processing" /\ \E p \in Writers : MovePayment(p)
       \/ UNCHANGED dashVars
    /\ UNCHANGED <<metricVars, phase, exit, event>>

Read(r) ==
    /\ phase = "serving"
    /\ GetStats(r) \/ GetRecentPayments(r)
    /\ UNCHANGED <<metricVars, processVars>>

-----------------------------------------------------------------------------

ServerNext ==
    \/ Main \/ StartFails \/ Kill
    \/ \E p \in Writers :
          Request(p) \/ Create(p) \/ Conclude(p) \/ HandOver(p) \/ Answer(p) \/ Send(p)
    \/ \E w \in Workers : Pull(w) \/ Acquire(w) \/ Release(w)
    \/ \E r \in Readers : Read(r)

ServerSpec == ServerInit /\ [][ServerNext]_serverVars

\* main does not wait for anything but what its guards say, and ten seconds pass; the publisher gives
\* up on an event in the end, and every statement ends.  Nothing is asked of requests and workers.
ServerFairness ==
    /\ WF_serverVars(Main)
    /\ \A p \in Writers : WF_serverVars(Send(p))
    /\ \A w \in Workers : WF_serverVars(Release(w))

ServerFairSpec == ServerSpec /\ ServerFairness

-----------------------------------------------------------------------------
(* Properties *)

ServerTypeOK ==
    /\ MetricsTypeOK /\ DashTypeOK
    /\ phase \in Phases
    /\ exit \in {"running", "graceful", "error"}
    /\ worker \in [Workers -> Unconnected \cup Connected \cup {"idle"}]
    /\ event \in [Writers -> Events]

\* A process that says it stopped gracefully has answered every request and has
\* cut off no webhook inside a transaction.  It has brought to an end the event
\* about every outcome at a PSP, one that was committed or handed over after the
\* signal too, unless the commit of the outcome itself returned an error.
GracefulLosesNothing ==
    exit = "graceful" =>
        /\ At(Inside) = {}
        /\ \A p \in Writers : status[p] \notin {NoStatus, "created"} => event[p] \in {"settled", "unsure"}
        /\ \A w \in Workers : worker[w] \notin Connected

\* After the signal the process ends, although the subscriber never stops of
\* itself and main waits for its connections.
Terminates == phase = "draining" ~> phase = "exited"

=============================================================================
