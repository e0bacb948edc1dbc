# Verification of the settlement orchestrator

TLA+ modules of the payment orchestrator in `src/`, the TLC configurations that check them on small
instances, and theorems about them that TLAPS checks for every value of the constants.
`PROJECT.json` lists the components, the runs, the mutants each property is tested with, the source
lines of every definition, the findings and the hazards.

## 1. Inventory

| Component | State it keeps | Operations | What makes it correct |
|---|---|---|---|
| State machine (`service/statemachine.go`, `models/payment.go`) | none | `ValidateTransition`, `IsTerminal` | every writer of `payments.status` goes through the table |
| Payment service (`service/payment.go`, `handler/payment.go`) | tables `payments`, `payment_state_transitions`; the row lock of `SELECT ... FOR UPDATE` | `CreatePayment`, `CapturePayment`, `RefundPayment`, `CancelPayment`, `GetPayment`, `updatePaymentState` | audit trail is a path of the table and ends in the row's status; refunds stay within the amount; the rows say what the PSP did |
| Webhook service (`service/webhook.go`, `handler/webhook.go`) | table `webhook_events`, the ledger tables, the payment rows | `ingestWebhookInternal`, the three `process...Webhook`, `postEntryInTx` | an event is processed once; status, audit record and books change together |
| Ledger (`service/ledger.go`) | `ledger_accounts`, `ledger_transactions`, `ledger_entries` | `PostLedgerTransaction` (no caller), balances | debits equal credits; `running_balance` is a chain; no lock cycle leaves a half-posted transaction |
| Router (`service/router.go`) | rules, adapters, a breaker per adapter | `Route`, `RecordSuccess`, `RecordFailure`, `LoadRules` | a PSP whose breaker is open is not chosen; one that recovers is used again |
| Circuit breaker (`pkg/circuitbreaker`) | state, two counters, time of opening, a mutex | `Allow`, `RecordSuccess`, `RecordFailure` | counters are those of the present phase although outcomes come late |
| Retry (`pkg/retry`) | none | `Do` | stops at the first success |
| Idempotency middleware (`middleware/idempotency.go`) | a Redis key per merchant and key: marker or cached response, 24 h | claim, replay, cache or release | one request per key at a time; a success is not executed again |
| Pub/Sub (`pubsub/`) | topics, subscriptions, dead letters | publish, ingest and ack or nack; pull and retry dead letters (no callers) | an event that was answered 200 is not lost, and none takes effect twice |
| Dead letter queue (`service/dlq.go`) | a Redis list of at most 10 000 entries | `Enqueue` (no caller), `List`, `Retry`, `Purge` | a retry removes the entry it retried |
| Reconciliation (`service/reconciliation.go`) | batches and discrepancies | `RunBatchReconciliation` | a batch ends complete or failed and names each mismatch |
| Rate limiter, API keys (`middleware/`) | a bucket per address; failures per address | allow, clean up | a burst and a rate that no span of time exceeds; a lockout that holds, and ends |
| PSP adapters (`adapter/`) | at the provider | authorize, capture, refund, cancel, `GetPaymentStatus`, verify | the caller can tell what became of its call |
| Dashboard (`service/dashboard.go`) | none | `GetStats` (six SELECTs), `GetRecentPayments` (a page), three single SELECTs | the figures of one answer fit together; the pages show every payment |
| Metrics (`pkg/metrics`) | a gauge, a counter, a histogram | `HTTPMetrics` around each request | what is counted in three places agrees, also after a panic |
| Process (`cmd/server/main.go`) | how far start or shutdown has got; the publisher's buffer; the connection pool | start, serve, drain, flush, close | the process ends after the signal, and a graceful end has answered every request and ended every event that was due |
| HTTP plumbing, tracing, configuration, deployment | none of their own | | formatting, wiring |

How they interact. An API request passes the middleware (rate limit, key, idempotency) and calls the
payment service, which asks the router for an adapter, calls the PSP through `retry.Do` (creation) or
once (the rest), writes the row and its audit record in one transaction, and publishes an event after
the commit. A webhook comes in over HTTP or from the Pub/Sub subscriber (also by a DLQ retry),
and `ingestWebhookInternal` moves the same row and posts to the ledger. The two services share nothing
in memory: they meet in PostgreSQL, in the row locks and in the `UPDATE ... WHERE status = $n`.

What is hard. Each request and each delivery is a goroutine, and the server runs in several replicas.
`CapturePayment` and `RefundPayment` hold a row lock over a PSP call; `CancelPayment` and
`CreatePayment` call the PSP without a lock and update optimistically. A PSP call may be carried out
and its answer lost. Any handler can be cut off by its context or by a crash between two statements.
Webhooks are delivered late, early, twice and concurrently. A breaker learns the outcome of a call long
after it let the call through. A process that is told to stop still has requests, unsent events and
webhook workers inside, and the workers are never told. The complete list, with lines, is `hazards` in `PROJECT.json`.

## 2. Modules

| Module | Models | State |
|---|---|---|
| `PaymentStatus` | `PaymentStatus`, `validTransitions` | - |
| `PaymentStore` | payment rows, audit trail, row locks; the properties of any writer | `rows`, `trail`, `rowLock` |
| `Adapters` | how each adapter's calls can end for the caller, how each PSP names a status | - |
| `PaymentService` | the API handlers, the PSP, the published events | `req`, `psp`, `published`, `faults` |
| `LedgerBook` | chart of accounts, sign of an account type, posting one entry, as a value | - |
| `WebhookService` | one call of `ingestWebhookInternal` per delivery | `wh`, `inbox`, `book`, `posted` |
| `Settlement` | both services on one database, and the PSP that sends the webhooks; implements `PaymentLife` | all of the above |
| `PaymentLife` | what both services promise: each status change, with refund total and posting, one atomic step | `payment`, `ledger` |
| `CircuitBreaker` | the methods of one breaker, as functions of its fields | - |
| `Routing` | preference and rules of a request: the PSPs that `Route` tries, in order | - |
| `Router` | `Route` and the calls of `CreatePayment` around it, on shared breakers | `breakers`, `client`, `healthy` |
| `OnceCell` | what an idempotency key promises: an abstract cell | `cell`, `answer` |
| `Idempotency` | the middleware on Redis, each command a step; implements `OnceCell` | `store`, `req`, three counters |
| `LedgerSpec` | what the ledger promises: atomic postings | `book`, `result` |
| `Ledger` | `PostLedgerTransaction`, account lock by account lock; implements `LedgerSpec` | `book`, `lock`, `posting` |
| `WebhookDelivery` | `HandleWebhook`, the Pub/Sub topic and subscription, the workers around `IngestWebhook` | `message`, `attempts`, `inbox`, `applied`, `worker`, the PSP's side |
| `DeadLetters` | the Redis list: `Enqueue`, `Retry`, `Purge`, each command a step | `list`, `client`, what became of entries |
| `Admission` | `RateLimiter` and `authFailureTracker` of one client address, through the time | `now`, `bucket`, `failure`, `req`, two histories |
| `Reconciliation` | `RunBatchReconciliation` against payments that move meanwhile | `row`, `world`, `batch`, `record`, `report` |
| `Metrics` | `HTTPMetrics`, one update after the other | `http`, `active`, `total`, `hist` |
| `Dashboard` | `GetStats` SELECT by SELECT, paging through `GetRecentPayments` | `stats`, `pages`, `known`, the payments they read |
| `Server` | `main` from start to exit, around `Metrics`, `Dashboard`, the publisher and the subscriber's workers | `phase`, `exit`, `worker`, `event` |
| `MC...` | instances for TLC | |
| `SettlementProofs`, `AdmissionProofs`, `WebhookDeliveryProofs`, `IdempotencyProofs`, `LedgerProofs`, `DeadLetterProofs`, `ReconciliationProofs` | theorems and lemmas about the module they are named after | |
| `ProcessProofs` | the same about `Router` with its breakers and about `Server` with `Metrics` and `Dashboard`: what one process keeps in memory | |

Correspondence with the code.

* A request (`req[r]`) and a delivery (`wh[d]`) are at a *label*, a point where others can run: the
  boundary of a transaction, of a lock or of a PSP call. The statements between two labels are one
  action, because PostgreSQL makes them one: `CaptureLock` is `BeginTx`, the `SELECT ... FOR UPDATE`
  and the status check; `CapturePsp` is the adapter call; `CaptureCommit` the `UPDATE`, the audit
  `INSERT`, the commit and the event. In `CreatePayment` the retries are a step each.
* `Free(p)` is what a locking statement waits for. `updatePaymentState` waits for it too, since an
  `UPDATE` blocks on a locked row and evaluates its `WHERE` afterwards.
* `Loads(p)`: `psp_payment_id` is NULL until `CreatePayment` succeeds, and scanning NULL into a Go
  `string` is an error. A payment in `created`, or one that `failed`, cannot be loaded by any handler.
* The PSP accepts a call and answers, accepts it and the answer is lost, or refuses it. `psp` counts
  what it carried out. No idempotency key is passed to it, so a repeated call is a new effect.
* `Abort` and `WebhookCrash` are all the early ends that are not decisions of the code: an error of the
  database, a cancelled context, a crash. The open transaction is rolled back and its lock released.
* `Reject` is every check that turns a request away before an effect. `Receive` may refuse a delivery
  (signature, timestamp).
* `inbox[e]` is the row of `webhook_events` with the idempotency key of payload `e`. `LookUp` only
  finds a payment once `rows[p].pspId` is the id the PSP reports; on an error other than `ErrNoRows`
  the code goes on with no payment, which is `LookUpFails`.
* `Dispatch` is one transaction. It locks the payment and then accounts in a fixed order per event type
  and calls nobody meanwhile, so nothing can be observed inside it.
* In `Router`, a goroutine checks one PSP at a time (`TryNamed` for the preference and the matched
  rules, `TryAny` for the last resort in map order), since `Route` holds only a read lock. `Record` is
  the outcome after all attempts; `NotCalled` is the failed `INSERT` after which nothing is recorded.
  The time since a breaker opened is one Boolean, set by `Elapse`.
* In `Idempotency` a Redis command is a step that may fail, or be carried out and its reply lost, in
  which case go-redis sends it again: SET NX then finds its own marker (`ClaimFails`), and DEL may hit
  the claim of the next request (`Resend`). `outcome` tells a failure before an effect from one after
  it (`half`), which the code cannot tell. A marker carries who set it; no action reads that.
* In `Ledger` a posting writes into a draft, its transaction, and `Commit` publishes it. `Fail` is an
  error ahead of the `COMMIT`, which the deferred `Rollback` answers. `CommitUnsure` is an error of
  `tx.Commit` itself (its reply is lost, or the context is over): the database has committed or it has
  not, and the caller is told `unsure`. A caller may have its error before the database decides; as the
  locks are held until then and the posting does nothing more, its return is put at the decision.
  `Victim` is PostgreSQL's deadlock detection, external.
* `WebhookDelivery` has the whole of `ingestWebhookInternal` in four labels; `Process` stands for the
  transaction that `WebhookService` models. A refused signature and a refused timestamp take the same
  path, `stale[e]`. The ack of a worker whose lease has ended is ignored.
* In `Admission` each method of the two maps is a step, as it holds the mutex; between `isBlocked` and
  `recordFailure` other requests run. An address is `RemoteAddr` as `RealIPFromTrustedProxy` leaves it,
  which for a direct connection includes the port; entries of different addresses never meet, so one
  is modelled. `APIKeyAuth` makes a tracker per route group, of which one is modelled. `admitted` and
  `guessed` are histories for the properties; no guard reads them.
* `Reconciliation` keeps two facts the code does not have, which rows were behind at the SELECT
  (`apart`) and which payments moved since (`moved`), for the properties. `GetPaymentStatus` (of
  `Adapters`) is how the PSP names a status and `normalizePSPStatus` the code's way back. Payments move
  along the transition table only. `Cancel` is the 30 s limit of the router: the adapters ignore their
  context, the database does not.
* `Adapters` reduces a call to what its caller can know: carried out and answered, carried out and the
  answer lost, refused, and (`CancelPayment` of Razorpay) answered without being tried. The mock, the
  only adapter that `main.go` registers, loses no answers; the runs take the Stripe adapter, whose
  outcomes include the mock's.
* In `Routing` a rule that matches is tried in the order of loading, with its fallback directly after
  its primary. `Priority` and the countries of a rule are read by no code, so they are not there.
* In `PaymentLife` a refund that was asked for counts towards the total and one that the PSP reports
  does not, as in the code; the run `refund_total` is about that. A payment before its `INSERT` has
  the status `NoStatus`.
* In `Server`, `phase` is the statement of `main` that is next: `draining` is `srv.Shutdown`, `flushing`
  is `pubsubClient.Close`, `closing` is `dbPool.Close`. After a failed `Shutdown`, `os.Exit(1)` skips
  everything that is deferred: that is `ShutdownTimesOut`. A worker of the subscriber is at a label at
  which it holds a connection (`Connected`) or is about to take the next one (`Unconnected`). `event`
  follows the event about the outcome of a payment at the PSP. `Conclude` is the commit of the outcome
  that takes effect: the event is `due`, or `unsure` when the commit returns an error all the same, after
  which `updatePaymentState` returns before it publishes. (A commit that does not take effect is no step.)
  `HandOver` is `PublishPaymentEvent`; a signal, a kill or any other step may come between the two, but the
  handler does not return with an event due. `Send` is the publisher's own goroutine.
* In `Dashboard`, `stamped` is the order of `created_at`, which `CreatePayment` takes before its
  `INSERT`; a row may therefore appear below rows that a reader has already seen. A page holds one
  payment, and `offset` counts what the client has read; `Ahead(p)` are the rows that `ORDER BY
  created_at DESC` puts before `p`, so the page at `offset` is the row with so many ahead.
* `GetStats` runs one SELECT per step. The range of time is what it selects: a reader chooses a set of
  payments out of `Ranges`, which the first five SELECTs share, and the sixth has the day on which it
  runs, `Today[r]`. Counts are `With(window, statuses)`, sums `Volume(window)` of each payment's `Amount`.
  A `GROUP BY currency` or `psp` is kept as the sum over its groups: `volume` is the amounts of all
  currencies together, which is what `total_revenue` of the first SELECT is to be compared with, `psps` a
  count. The average and `today_revenue` come from the SELECTs of the total and of `today`; they are not
  kept. Rates are: `success` and `failure` are what they divide.
* In `Metrics`, the deferred `Dec` also runs after a panic, which skips the histogram.

## 3. Runs

| Run | Question | Instance |
|---|---|---|
| `settlement` | Do API requests and webhooks keep trail, books, events, row and PSP consistent, and do they implement `PaymentLife`? | 1 payment of 2 units, 3 requests, 2 deliveries, 5 events (2 captures that differ in payload only, refunds of 1 and 2, a failure), 2 attempts, 1 fault |
| `settlement_live` | Is everyone answered? | 2 requests, 2 deliveries, 3 events incl. a refund without amount and an unknown type, 1 fault |
| `router` | Do late outcomes disturb a breaker, and does a PSP that is up again get traffic? | 2 PSPs, 2 goroutines, a preference, two rules whose ranges meet in one amount, one with an unregistered primary, thresholds 1 and 2 |
| `idempotency` | What does a key guarantee when everything fails, and is the middleware a cell until a DEL is sent twice? | 4 requests, 2 keys, 2 faults, 1 DEL sent twice, 1 expiry of each key |
| `ledger` | Are postings atomic, also when a commit returns an error, and do they return? | 3 postings out of 4 good and 6 bad requests, 1 fault |
| `delivery` | Are webhooks lost, or applied twice, between PSP and database? | 2 events, 2 posts of each, 2 workers, 2 deliveries per message, 1 fault |
| `dead_letters` | What does a retry remove? | 5 calls, 3 entries, limit 2, 1 fault |
| `reconciliation` | Does a report say what is the case? | a batch over 3 Stripe payments, one with another amount at the PSP, one unknown to it; 2 faults |
| `admission` | How much does an address get, and is it refused only for a recent cause? | 2 requests, times 0 to 6, 1 token per 2, burst 2, cleanup after 4; lockout after 1 wrong key, for 2 |
| `server` | What does a graceful exit guarantee, does the process end, and what do metrics, statistics and pages show meanwhile? | 2 requests of amounts 2 and 1, the second of today; 1 worker, 1 reader that asks for both or for today's, 1 latency bucket |
| `webhook_nil`, `refund_total` | What the repository says and the code does not do (section 6) | as `settlement` |

Why the bounds suffice. All state but the account balances is per payment, and the balances are only
added to, so one payment shows every interleaving; several payments are covered by the theorems. An
amount of 2 has a first and a last partial refund and a full one, asked for or reported. Three requests
are a creation and two racing operations. Two
deliveries are enough for any race between duplicate check, insert and dispatch, and two capture
payloads for a second capture event that is not a duplicate. A fault (`MaxFaults`) is a lost answer,
an abort, or a failed webhook statement; with one fault each handler is cut off at each label, and
an effect is repeated. `MaxAttempts` is 2 instead of 3: a first attempt, and one that repeats
it and is the last. The smaller models follow the same rule: enough actors for a race of two and a third who sees the
outcome, enough faults to cut each actor off once at each label. In `delivery` a message is dead after
2 deliveries instead of 5, which makes every count from the first to the last occur. In `admission` the
time is long enough for a bucket to be forgotten and filled again and for two lockouts; both bounds are
reached, so no smaller ones would hold. In `server` two requests are one that creates a payment while
another is counted, paged over or panics; of the two ranges one is within the day of the last SELECT
and one is not, and the amounts differ, so that no sum passes for a count. `MCServer` bounds the product
of the parts: where a reader has asked, the phase is `serving`, both requests are still in their handlers
and no event has been handed over, since reading depends on the rows alone (the theorems of section 5
are about `ServerSpec`, without this bound). Requests,
deliveries, payload ids, clients and entries are symmetric; runs with a liveness property or with the
refinement to `LedgerSpec` use no symmetry.

Deadlock is checked in every run but `ledger` and `delivery`, where the calls are finite in number and
the liveness properties say that each ends, and `server`, where the process stops. Elsewhere `Quiescent`
and its likes in the MC modules let a behaviour end only when
every request is answered and no delivery can arrive, so a wait that nobody ends would be reported.
In `admission` a request can always come in.

Each property of a passing run has a mutant: a change of one definition, of the kind a mistake in the
code would be (no `FOR UPDATE`, no `WHERE status`, no UNIQUE constraint, no rollback, an event before
the commit, a wrong comparison), under which the same run refutes it.

## 4. Properties

* `TrailSound`: nobody slips a status change between another's read and write (shared by both services).
* `ImplementsPaymentLife`: whatever runs in several transactions, around PSP calls and row locks, comes
  down to lives of payments in which status, refund total and ledger transaction change together.
* `PspAgreesWithRows`, `EffectsPerFault`: what the row says against what the PSP did. The first is
  about behaviours without a fault; the second bounds repeated captures and authorizations by the number
  of faults, so it also says something of the others.
* `PublishedCommitted`: consumers never hear of a step that was rolled back.
* `CaptureBookedOnce`, `TrialBalance`: exactly-once effects of webhooks that come any number of times.
* `RowsMonotone` (no step takes a refund back, exceeds the amount or replaces a PSP id),
  `CreateUncontested` (`CreatePayment` calls the PSP without a lock and is still never raced) and
  `EventClaimedOnce` (one delivery at most works on an event) are theorems only, as section 5 proves
  them for every instance.
* `AllAnswered`, `Recovers`: liveness. `CountersOfPhase`: breakers under late outcomes.
* `OneInFlight`, `OneSuccessPerLife`, `ReplaySound`, `ImplementsOnceCell`: a key runs one request at a
  time, at most one success in its life, and replays that one. Only a DEL that is sent twice, counted
  in `resends`, can break into it; the refinement speaks of the steps before that happens.
* `AdmissionBound`, `GuessBound`, `RefusedForAReason`: an upper bound in every span of time, also when
  requests pass `isBlocked` together and buckets are forgotten, and no refusal without a recent cause.
* `RunningChain`, `ImplementsLedgerSpec`, `AllReturn`: entry-by-entry postings
  are as good as atomic ones, including a posting that names an account twice. The answer tells what
  became of a posting unless it is the error of the commit; then it was posted as a whole or not at all.
* `AnsweredIsKept`, `AppliedOnce`, `EveryMessageSettles`: after the 200 the PSP forgets the event, so the
  message or the row must be there; the unique key holds against redelivery under a running worker.
* `UndisturbedLosesNothing`: retry by index, on a list with tombstones of earlier retries.
* `AccusedForAReason`, `LostCaptureFound`: whom a report accuses, and what it cannot miss.
* `MetricsAgree`: gauge, counter and histogram at every moment, through panics and the signal.
* `StatsAgree`: what a reader may conclude from SELECTs of different moments and two windows. A later
  SELECT of the range has at least the payments and the amounts of an earlier one, whatever moves in
  between; a failed payment stays in its place of the breakdown, and a success is there as captured or
  refunded. Counts are compared with counts, sums with sums, and the day's count with the range's only
  when the range is within the day. `PagesComplete`: the same for pages.
* `GracefulLosesNothing`, `Terminates`: a clean exit has answered every request, cut off no open
  transaction and ended the event about every outcome whose commit was answered, and the process does
  end although its workers never stop.

Fairness. `FairSpec` of `Settlement` is weak fairness of each request's and each delivery's own steps:
a goroutine runs until its handler returns, PostgreSQL queues waiters for a row lock, every holder ends
its transaction (commit, or the deferred rollback), and a PSP call ends with the time limit of its HTTP client at the latest (the adapters ignore their context).
Nothing is assumed of faults. `FairSpec` of `Router` assumes that the clock runs, that goroutines run,
that requests of every plan keep arriving, and that infinitely many of those routed to a PSP get as far
as the call, which is what strong fairness of `Record` says; the code itself never probes a PSP of its
own accord. `Fairness` of `Ledger`: a posting goes on while it can, and the database breaks a cycle of
waiting transactions. `Fairness` of `WebhookDelivery`: `Receive` pulls each waiting message again and
again, and every callback returns. `ServerFairness`: `main` goes on when what it waits for is
there, and its ten seconds pass; the publisher sends an event or gives it up; a statement on a
connection ends. Nothing is asked of requests, which may hang, nor of workers between statements.

## 5. Proofs

TLAPS checks, for every value of the constants:

| Theorem | Says |
|---|---|
| `SettlementProofs!TypeCorrect` | `TypeOK` of the composition |
| `SettlementProofs!TrailCorrect` | `TrailSound` |
| `SettlementProofs!CreateAlone` | `CreateUncontested` |
| `SettlementProofs!ClaimCorrect` | `EventClaimedOnce` |
| `SettlementProofs!CaptureOnce` | `CaptureBookedOnce` |
| `SettlementProofs!BooksBalance` | `TrialBalance` |
| `SettlementProofs!RowsOnlyGrow` | `RowsMonotone`, an action property |
| `SettlementProofs!Refinement` | `ImplementsPaymentLife`, the refinement |
| `SettlementProofs!EventsCommitted` | `PublishedCommitted` |
| `SettlementProofs!PspAgrees` | `PspAgreesWithRows` |
| `SettlementProofs!FaultsBoundEffects` | `EffectsPerFault` |
| `ProcessProofs!TypeCorrect`, `CountersCorrect` | `TypeOK`, `CountersOfPhase`, of `Router` |
| `ProcessProofs!ServerTypes` | `ServerTypeOK` of the process with its metrics and its dashboard |
| `ProcessProofs!MetricsCorrect` | `MetricsAgree` |
| `ProcessProofs!StatsCorrect`, `PagesCorrect` | `StatsAgree`, `PagesComplete` |
| `ProcessProofs!GracefulExit` | `GracefulLosesNothing` |
| `AdmissionProofs!TypeCorrect`, `IdleIsAdmitted` | `TypeOK`, and `RefusedAfterRequest`, the first half of `RefusedForAReason` |
| `AdmissionProofs!AdmissionsBounded`, `GuessesBounded`, `RefusalsJustified` | `AdmissionBound`, `GuessBound`, `RefusedForAReason` |
| `WebhookDeliveryProofs!DeliveryTypes`, `AppliedOnceAlways`, `AnsweredKept` | `TypeOK`, `AppliedOnce`, `AnsweredIsKept` |
| `IdempotencyProofs!IdempotencyTypes`, `OneInFlightAlways`, `SuccessPerLife`, `ReplaysSound` | `TypeOK`, `OneInFlight`, `OneSuccessPerLife`, `ReplaySound` |
| `IdempotencyProofs!OnceRefined` | `ImplementsOnceCell`, the refinement |
| `LedgerProofs!LedgerTypes`, `ChainsUnbroken` | `TypeOK`, `RunningChain` |
| `LedgerProofs!PostingsAtomic` | `ImplementsLedgerSpec`, the refinement |
| `DeadLetterProofs!DeadLetterTypes`, `RetriesLoseNothing` | `TypeOK`, `UndisturbedLosesNothing` |
| `ReconciliationProofs!ReconciliationTypes`, `AccusationsSound`, `LostCapturesFound` | `TypeOK`, `AccusedForAReason`, `LostCaptureFound` |

Assumptions: the amounts are positive (`AmountAssumption`); a request is not the owner of a free lock
(`OwnerAssumption`) and the missing payment no payment (`UnmatchedAssumption`), and likewise
for the values that mean nobody or nothing in the other modules; events have a known
type, a payment, a PSP id that is not NULL and a natural amount (`EventAssumption`); attempts and
faults are numbers (`AttemptsAssumption`, `FaultsAssumption`); in `Router`, plans are sequences of
PSPs (`PlanAssumption`) and thresholds positive (`ThresholdAssumption`); in `Ledger`, a request is a
sequence of entries with integer amounts of any sign (`RequestsAssumption`); in `Admission`, rate, interval and burst
are positive (`LimiterAssumption`), a bucket that cleanup deletes would be full (`StaleAssumption`: with
the values of `main.go` it is full after 2 s and deleted after 10 min), and `None` is no entry
(`NoneAssumption`). Two sets are assumed finite, because a property counts them: the requests of an
address that are in the server at a time, which are also not none (`Admission!RequestsAssumption`), and
the payments of a day (`Reconciliation!PaymentsAssumption`). Everything else may be infinite.

`Psp` is one of the three adapters (`PspAssumption`), and in `Server` every request creates a payment
(`RequestsAreWriters`), there is a number of buckets (`BucketsAssumption`), amounts are natural numbers
(`Dashboard!AmountAssumption`), and ranges and days are any sets of payments (`RangesAssumption`,
`TodayAssumption`). The requests of a
process, its readers and its workers may be infinitely many: only those that have come in are counted,
and only payments with a `created_at` become rows, so at each moment both are finite in number, which
the proofs carry along instead of assuming it.

The argument for `Settlement`. `TrailSound` is not inductive: when `CaptureCommit` writes `captured`
it appends the pair authorized -> captured, and that ends the trail correctly only because the row is
still as `CaptureLock` read it. `Relies(r, k)` states, label by label, what a request counts on: a
capture or refund owns the lock of its row and the row has the status and the total it read; a creation
has an untouched row without PSP id; a cancellation only knows the PSP id, since its update checks the
status again. The proof is rely/guarantee. `StoreStep(a)` is the guarantee of an actor `a`, request or
delivery: it writes no row, or one row, by a `LegalWrite` (a transition of the table, the refund total
not lowered and within the amount, the PSP id kept once stored), which nobody else has locked or is
creating. `OthersKeep` shows that a `StoreStep` of one actor preserves what all others rely on,
`StoreStepSound` that it preserves `TrailSound`; then each action is shown once to be a `StoreStep` and
to establish what its own actor relies on next (the lemmas `...OK`), and `RequestKeeps` and
`DeliveryKeeps` put the two together. `CaptureBookedOnce` needs `BookedInv` besides: a payment with a
capture in the books has left `authorized` for good (`CapturedStays`), so no second webhook can post.
`EventClaimedOnce` needs `ClaimInv`: a delivery that claimed an event left a row in `inbox`.

`Refinement` rests on the same invariant. A step that writes a row writes one (`WriteLife`), and what its
actor relies on says that the row is as it was read: the refund total that a commit writes is the present
one plus the amount it refunds, so the step is `Refund` and nothing else. Every other step leaves rows
and books alone. That the amount of a refund is positive is part of `Relies` for this reason.

The argument for `Router`. Types and `CountersOfPhase` are inductive only together, as the counter is
bounded by the threshold through the phase it belongs to; `CallingHasPsp` says that a goroutine that
records an outcome has a PSP.

The effects of `Settlement` at the PSP need an account of the faults (`EffectInv`). `PaymentEffects`
says how far the PSP may be ahead of a row: a capture that is neither in the row nor about to be
committed by the owner of the lock is the work of a fault, as is an authorization beyond the first; and
as long as no fault has occurred the PSP's refunds are those of the row, or of the row and the commit
that is under way. `RequestEffects` says the same of a request between its PSP call and its commit. The
bound is inductive only in this form, since the two calls of a repeated capture are made by different
requests, and what one leaves the other finds through the row alone. `PublishedCommitted` needs no more
than that trails only grow and that an event is published by the step that commits its record.

In `WebhookDelivery`, `AppliedOnce` follows an event through its row. The unique key lets one worker
make the row, so at most one worker is past the insert (`OneProcessor`), and the row knows how often
the event took effect (`RowInv`): `processing` and not yet, or once and not yet said so, or `processed`.
`AnsweredIsKept` is the history of a message: none that was sent is forgotten, and it is acked only by
a worker that left or found a row (`MessageInv`).

In `Idempotency` the properties count, and neither count is inductive. `CountInv` counts the chances
for a handler to run: each request that is `Busy` with the key, among them those whose DEL is still on
the way, and one more while the key is free. Only a DEL that is sent again makes a chance out of
nothing. The requests that are `Live`, which have succeeded or still may, are counted in the same way
with the expiries. Each action is shown to take one of the four ways of `KeyCount`, each of which keeps
both counts. While no DEL was sent twice a claim is never taken away (`ClaimInv`: the marker in the key
is that of the request in flight), which is what `OnceRefined` maps to the cell: the cell runs the
request whose marker stands, is blocked when its owner has ended, and is done when a response stands.

In `Ledger`, `RunningChain` holds of the books because it holds of every draft: for an account that a
posting has locked, its draft continues the chain where the books end (`DraftInv`), and nobody else can
lengthen the books of that account before the lock is gone; of all other accounts the draft is empty.

`PostingsAtomic` takes the commit for the step of `LedgerSpec`, also the one that takes effect and returns
an error (`CommitUnsure`, which maps to `Post` or to `Refuse` with the answer `unsure`). `PostingInv` says of every open posting
that it works on a valid request, has locked the accounts of the first n entries, and that the committed
books merged with its draft (`Merges`) are those that the n entries lead to, posted one after the other
from the committed books (`Built`). A further entry extends that row of books by one (`WriteUnderway`).
A commit of another posting changes the books at their start; as it moves no account that is locked,
every book in the row changes in the same accounts (`Over`), and posting an entry of a locked account
commutes with that change (`OverPosted`). At the commit n is the length of the request. `LedgerSpec`
posts it with a fold of the community modules, which is a function on sets of positions that the module
only describes by a recursive equation; `FoldingExists` shows that there is one and `FoldingIsBuilt`
that it follows the row of books, both by the smallest number for which they would fail
(`LeastNumber`).

In `DeadLetters`, a retry works with an index. `RetryInv` says that as long as nobody changed the list
under a retry the index still leads to the entry it read, and that an entry is reprocessed before it is
overwritten. What is then swept is the first tombstone of the list, not always its own, which is why
the lemma on `LREM` speaks of any value that is no entry.

In `Reconciliation`, `Good` relates what a batch remembers to payments that move meanwhile: the status
it read is that of the PSP, for each payment that was up to date at the SELECT and has not moved; what
it matched still matches, unless it moved; and no payment of the SELECT gets lost between the sets, so
at the end each is matched, reported or could not be written. A payment that moves changes `world`,
and `moved` of every batch with it.

In `Admission`, an address whose bucket is empty was let through after its last fill, because only a
request that is let through fills a bucket (`FilledByRequest`); an empty bucket that is not filled now
was filled less than an interval ago. The bound on admissions is a potential (`Paid`): the requests
since time a plus the tokens left are at most a bucket less the token of the request that made it, plus
a refill for each interval begun between a and the last fill. Three cases keep it: the request finds
the bucket refilled (`FilledPays`), draws on what is left (`DrawnPays`), or makes a new bucket after
cleanup forgot the old one (`MadePays`), which by its age was paid for already (`StalePays`). The bound
on wrong keys is per entry of the tracker (`EntryInv`): it counts the keys since it was made, those that
are past `isBlocked` included; a span of one window meets two entries at most, and when it meets two it
began after the first key of the older one, hence the one less in `GuessBound`.

Both are statements about sums over spans of time, which the model takes with a fold of the community
modules. `SumIsCount` shows that the sum of numbers over a finite set of times is the number of cells
<<t, i>> with i up to the number at t; longer spans, split spans and one more at the present then are
facts about cardinalities. The library's induction theorems cannot be used here, as they take an
operator as a parameter; the lemma argues with a smallest set for which the claim would fail, which
exists because the strict subsets of a finite set are well-founded (`SmallestSet`).

In `Server` a step is one of the middleware (`StepOfMetrics`), one of the rows and their readers
(`StepOfDashboard`), or one of `main`, the publisher and the workers, so its invariant `ServerInv` is a
conjunction of parts that are shown to be preserved one by one.

* `MetricsInv` counts. The gauge is the number of requests inside, the counter exceeds the histogram by
  those that were counted and not timed. `GoneOver` says what becomes of such a number when one request
  goes from a stage to another; each action of `HTTPMetrics` then changes its metric by the same amount.
  `ObservedNested` is about the buckets.
* `StampInv`: the time of creation is taken once, and before the row is there. From it follows
  `Onwards`, which every step satisfies: no row goes away, a failed payment stays failed since the table
  has no transition out of `failed`, one that was captured is captured or refunded (`Later`), and what
  has a `created_at` keeps its place.
* `StatsInv` says of an answer, for each number of SELECTs that have run, that its figures are in the
  order of the SELECTs and that the last of each kind is at most what the table holds now for the range
  (`Fits` against `Figures`: rows, failed ones, captured or refunded ones, amounts). Only so is it
  inductive: rows that appear do not disturb it (`FitsLater`), and the next SELECT finds at least as
  many (`FilledFits`). Where the range is within the day, the rows of the range are among the day's
  (`DayCount`). The breakdown is compared with the totals by its sum, a fold of the community modules;
  `BreakdownSum` shows that the sum is the number of rows. A sum of amounts is a number of units
  (`AmountsCount`), so that the sums grow as the counts do. Both identify a fold with the function it
  computes by a smallest set for which they would differ (`FoldIsSum`).
* `PagesInv` is the reason for `PagesComplete`: a payment that was there at the first page and that the
  client has not seen has at least as many rows before it as the client has read. Insertions only put
  rows before it (`AheadGrows`), and the page that is read is another row with another number of rows
  before it (`AheadDiffer`), so one more page is one less to go. No row has as many rows before it
  as there are rows, hence at the end nothing is left to see.
* `EndInv` follows `main` through its three waits. Past `Drained` nobody is inside, and since requests
  enter only while the phase is `serving` nobody comes in again; so no event is handed over any more,
  and past `Flushed` none is buffered. `EventInv`: every payment with an outcome (`Decided`) has an event
  that is due, buffered, settled, or unsure, a webhook included, which moves only payments that have one;
  and the request of an event that is due is still in its handler, so that none is due once nobody is
  inside. Workers are still at work when the pool is closed, and what `PoolClosed` waits for is all that
  holds of them.

What stays with TLC: liveness (`AllAnswered`, `Recovers`, `AllReturn`, `EveryMessageSettles`,
`Terminates`), which rests on fairness and is out of the provers' reach. Every invariant, every action
property and every refinement that a passing run checks is a theorem.

## 6. Findings

Two disagreements are runs that TLC must find violated.

* `webhook_nil`: the duplicate check takes a row in any status for "already processed". A webhook that
  failed is answered with nil on redelivery, against the comments that rely on the PSP's retry. Over
  Pub/Sub it is acked on the second attempt and never reaches the dead-letter topic.
* `refund_total`: a refund webhook leaves `total_refunded` alone, so `RefundPayment` can refund again.

The models admit further behaviour that a reader of the comments would not expect. It has no run of its
own; where a property comes close, its statement leaves room for it, as named here.

* `CapturePayment` posts nothing to the ledger, and the later capture webhook returns before it posts;
  a refund webhook then reverses an entry that is not there. In `PaymentLife` `Move` therefore captures
  without a posting and `ReportCapture` with one.
* The credit to REFUND_EXP, an expense account, lowers its balance; `service/webhook.go:378` says it
  increases.
* A capture whose answer or commit is lost is repeated by the next request: `EffectsPerFault` allows
  one per fault, and `service/payment.go:276` promises none.
* A half-open breaker lets every request through; `circuitbreaker.go:15` says "limited".
* A request that fails after its effect at the PSP frees its idempotency key, and an interrupted one
  blocks it for 24 hours with 409: `OneSuccessPerLife` counts successes, and `OnceCell` has `Drop`.
* `DLQService.Retry` uses its index again after the reprocessing; when an enqueue or another retry has
  shifted the list, it removes another entry. `UndisturbedLosesNothing` excludes this.
* A Stripe refund that the row does not know is not found, since the PaymentIntent still says
  `succeeded`; and a refunded payment on which both agree is reported (`Unmapped` in
  `AccusedForAReason`). `LostCaptureFound` is about captures for this reason.
* Every error of `GetPaymentStatus` is recorded as `missing_in_psp`, and `missing_internal` is never
  recorded: the batch does not ask the PSP for payments of its own.
* A message that waits in Pub/Sub for more than five minutes is refused on all further attempts.
* The subscriber's context is never cancelled. A graceful exit can end a webhook between its statements,
  which leaves the event `processing`, and a redelivery is then answered as a duplicate (`webhook_nil`);
  `GracefulLosesNothing` speaks of open transactions. An exit after the ten seconds of `Shutdown` also
  drops the payment events that the publisher has not sent.
* A commit that took effect may return an error: its reply is lost, or the context of the request is over.
  `updatePaymentState` then publishes nothing (`payment.go:236`), so a payment has an outcome that no event
  tells of; `GracefulLosesNothing` exempts it. `PostLedgerTransaction` answers such a commit with an error
  (`ledger.go:143`) although the entries are posted, and a caller that repeats the call posts them twice;
  `LedgerSpec` has the answer `unsure` for it.
* The SELECTs of `GetStats` run in no transaction: payments that are inserted after the first one and
  captured before the second let the success rate exceed 100 per cent, and one that is refunded before
  the third is a success that the breakdown has under `refunded`. `today_payments` has a window of its
  own: for a range beyond the day it says nothing about the other figures. `StatsAgree` says what remains.
* `Observe` (`metrics.go:112`) keeps each bucket cumulative and `writeHistogram` (`metrics.go:228`) adds
  the buckets up once more, so the text output shows buckets beyond the count. `MetricsAgree` is about
  the histogram, not the text.
* `GetRecentPayments` orders by `created_at` alone: payments of the same moment may change places between
  two pages. `PagesComplete` is stated of payments of different moments.

## 7. Not modelled, and the plan

Assumed of the outside: the id that `CreatePayment` stores is the one the PSP's webhooks report. The
Razorpay adapter returns an order id where webhooks and the payment operations of Razorpay use a payment
id, so there no webhook matches. The status "settled" of the README's diagram does not exist in the code.

Every component with state of its own and logic worth checking is modelled, and every property of the
runs but the five of liveness is proved.

Left out for good: header and logging code, tracing, reading the configuration, migrations, deployment
files, the wire formats and the computation of signatures of the adapters, `PullDLQEntries` and
`RetryDLQMessage`, which nothing calls, and `GetDailyVolume`, `GetPSPHealth` and `GetActivityFeed`, each
a single SELECT that changes nothing. The backoff times of `retry.Do` and the breaker statistics
influence no property.
