------------------------------- MODULE Routing -------------------------------
(***************************************************************************)
(* The part of service/router.go that depends on the request alone: which  *)
(* PSPs its preference and the rules name, in the order in which Route     *)
(* tries them.  Rules are tried as they were loaded; their priority and    *)
(* their conditions on the country are never looked at.                    *)
(*                                                                         *)
(* A condition without a bound or a currency has AnyAmount or AnyCurrency  *)
(* there; a rule without a fallback and a request without a preference     *)
(* have NoPsp.                                                             *)
(***************************************************************************)
EXTENDS Integers, SequencesExt

AnyAmount == -1
AnyCurrency == "any"
NoPsp == ""

\* Both bounds belong to the range.
matches(cond, create) ==
    /\ cond.min = AnyAmount \/ create.amount >= cond.min
    /\ cond.max = AnyAmount \/ create.amount <= cond.max
    /\ cond.currency \in {AnyCurrency, create.currency}

\* The PSPs of one rule, the fallback last.
Targets(rule) == SelectSeq(<<rule.primary, rule.fallback>>, LAMBDA x : x # NoPsp)

\* The preference comes first, then every rule that matches.
Named(create, rules) ==
    LET matching == SelectSeq(rules, LAMBDA rule : matches(rule, create))
    IN  SelectSeq(<<create.preferred>>, LAMBDA x : x # NoPsp)
        \o FlattenSeq([i \in DOMAIN matching |-> Targets(matching[i])])

=============================================================================
