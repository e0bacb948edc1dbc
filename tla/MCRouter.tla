------------------------------ MODULE MCRouter ------------------------------
(***************************************************************************)
(* Small instances of Router: two PSPs, and rules whose ranges of amounts  *)
(* meet in one amount.                                                     *)
(***************************************************************************)
EXTENDS Router, TLC

CONSTANTS x1, x2

R == INSTANCE Routing

Rule(min, max, currency, primary, fallback) ==
    [min |-> min, max |-> max, currency |-> currency, primary |-> primary, fallback |-> fallback]

MCRules == <<Rule(R!AnyAmount, 2, R!AnyCurrency, "unregistered", x2),
             Rule(2, R!AnyAmount, "INR", x1, R!NoPsp)>>

\* A preference that no rule backs, and an amount that both rules cover; whatever is refused goes to
\* the last resort.
MCCreates == {[amount |-> 3, currency |-> "USD", preferred |-> x1],
              [amount |-> 2, currency |-> "INR", preferred |-> R!NoPsp]}

MCPlans == {R!Named(create, MCRules) : create \in MCCreates}

ASSUME NamedAsMeant == MCPlans = {<<x1>>, <<"unregistered", x2, x1>>}
=============================================================================
