------------------------------- MODULE Router -------------------------------
(***************************************************************************)
(* service/router.go and the calls of CreatePayment around it: a request   *)
(* is routed past the breakers, calls the PSP it was given, and records    *)
(* the outcome of all its attempts on the breaker of that PSP.  Route only *)
(* holds a read lock, so other requests open and close breakers between    *)
(* its checks, and the outcome is recorded long after Allow was asked.     *)
(***************************************************************************)
EXTENDS CircuitBreaker, Sequences, FiniteSets

CONSTANTS
    Psps,       \* the registered adapters; each has a breaker
    Clients,    \* goroutines that serve create requests, one after the other
    Plans       \* what the preference and the matching rules of a request name:
                \* preferred PSP, then primary and fallback of each rule

ASSUME PlanAssumption == Plans \subseteq Seq(Psps \cup {"unregistered"})

VARIABLES
    breakers,   \* PaymentRouter.breakers
    client,     \* what each goroutine is doing
    healthy     \* the PSPs that answer calls now

vars == <<breakers, client, healthy>>

Waiting == [pc |-> "idle", plan |-> <<>>, left |-> {}, psp |-> "none"]

Init ==
    /\ breakers = [x \in Psps |-> New]
    /\ client = [c \in Clients |-> Waiting]
    /\ healthy \in SUBSET Psps

Start(c, plan) ==
    /\ client[c].pc = "idle"
    /\ client' = [client EXCEPT ![c].pc = "routing", ![c].plan = plan, ![c].left = Psps]
    /\ UNCHANGED <<breakers, healthy>>

\* isAvailable let the request through: it goes to the PSP.
Select(c, x) ==
    /\ Allows(breakers[x])
    /\ breakers' = [breakers EXCEPT ![x] = AfterAllow(@)]
    /\ client' = [client EXCEPT ![c] =
                    [Waiting EXCEPT !.pc = "calling", !.psp = x]]

\* The next PSP that the preference or a rule names.  One that is not
\* registered has no breaker to refuse it but no adapter either: it is skipped.
TryNamed(c) ==
    /\ client[c].pc = "routing"
    /\ client[c].plan # <<>>
    /\ LET x == Head(client[c].plan)
       IN  \/ x \in Psps /\ Select(c, x)
           \/ /\ x \in Psps => ~Allows(breakers[x])
              /\ client' = [client EXCEPT ![c].plan = Tail(@)]
              /\ UNCHANGED breakers
    /\ UNCHANGED healthy

\* The last resort: the adapters, in the order the map yields them.
TryAny(c) ==
    /\ client[c].pc = "routing"
    /\ client[c].plan = <<>>
    /\ \E x \in client[c].left :
         \/ Select(c, x)
         \/ /\ ~Allows(breakers[x])
            /\ client' = [client EXCEPT ![c].left = @ \ {x}]
            /\ UNCHANGED breakers
    /\ UNCHANGED healthy

Unavailable(c) ==
    /\ client[c].pc = "routing"
    /\ client[c].plan = <<>>
    /\ client[c].left = {}
    /\ client' = [client EXCEPT ![c] = Waiting]
    /\ UNCHANGED <<breakers, healthy>>

\* The outcome after all attempts, recorded on the breaker.
Record(c) ==
    LET x == client[c].psp
    IN  /\ client[c].pc = "calling"
        /\ breakers' = [breakers EXCEPT ![x] =
                          IF x \in healthy THEN RecordSuccess(@) ELSE RecordFailure(@)]
        /\ client' = [client EXCEPT ![c] = Waiting]
        /\ UNCHANGED healthy

\* The payment row could not be inserted: the PSP is not called, and no
\* outcome is recorded for the request that Allow let through.
NotCalled(c) ==
    /\ client[c].pc = "calling"
    /\ client' = [client EXCEPT ![c] = Waiting]
    /\ UNCHANGED <<breakers, healthy>>

\* OpenTimeout passes.
Elapse(x) ==
    /\ breakers[x].state = "open"
    /\ ~breakers[x].elapsed
    /\ breakers' = [breakers EXCEPT ![x].elapsed = TRUE]
    /\ UNCHANGED <<client, healthy>>

\* A PSP goes down or comes back.
Turn(x) ==
    /\ healthy' = IF x \in healthy THEN healthy \ {x} ELSE healthy \cup {x}
    /\ UNCHANGED <<breakers, client>>

Route(c) == TryNamed(c) \/ TryAny(c) \/ Unavailable(c)

Next ==
    \/ \E c \in Clients : (\E plan \in Plans : Start(c, plan)) \/ Route(c) \/ Record(c) \/ NotCalled(c)
    \/ \E x \in Psps : Elapse(x) \/ Turn(x)

Spec == Init /\ [][Next]_vars

\* The clock runs, goroutines run, merchants keep sending requests of every
\* plan, and the database does not turn away every request for a PSP.
FairSpec ==
    /\ Spec
    /\ \A x \in Psps : WF_vars(Elapse(x))
    /\ \A c \in Clients :
        /\ WF_vars(Route(c))
        /\ \A x \in Psps : SF_vars(Record(c) /\ client[c].psp = x)
        /\ \A plan \in Plans : SF_vars(Start(c, plan))

-----------------------------------------------------------------------------
(* Properties *)

\* Every breaker and every goroutine has its type.
TypeOK ==
    /\ breakers \in [Psps -> Breaker]
    /\ client \in [Clients -> [pc : {"idle", "routing", "calling"},
                               plan : Seq(Psps \cup {"unregistered"}), left : SUBSET Psps,
                               psp : Psps \cup {"none"}]]
    /\ healthy \subseteq Psps

\* The counters are those of the present phase, however late an outcome from
\* an earlier phase is recorded: a closed breaker still has a failure to go
\* before it opens, a half-open one a success before it closes.
CountersOfPhase ==
    \A x \in Psps :
        /\ breakers[x].state = "closed" => breakers[x].fails < FailureThreshold
        /\ breakers[x].state = "half_open" => breakers[x].ok < SuccessThreshold

\* A PSP that stays up is not shut out: its breaker is closed again, though
\* only requests that happen to be routed to it can probe it.
Recovers == \A x \in Psps : <>[](x \in healthy) => []<>(breakers[x].state = "closed")

=============================================================================
