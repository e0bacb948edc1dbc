---------------------------- MODULE MCSettlement ----------------------------
(***************************************************************************)
(* Small instances of Settlement: one payment of amount 2.                 *)
(***************************************************************************)
EXTENDS Settlement, TLC

CONSTANTS Ids       \* payloads that differ in nothing the service looks at

MCAmount == [p \in Payments |-> 2]

Ev(i, t, k, n) ==
    [id |-> i, type |-> t, payment |-> CHOOSE p \in Payments : TRUE, pspId |-> k, amount |-> n]

\* A capture per payload, a partial and a full refund, a failure.
MCEvents == {Ev(i, "capture", 1, 0) : i \in Ids}
            \cup {Ev(0, "refund", 1, 1), Ev(0, "refund", 1, 2), Ev(0, "failure", 1, 0)}

\* For the liveness run: a capture, a refund without an amount, no known type.
MCOddEvents == {Ev(0, "capture", 1, 0), Ev(0, "refund", 1, 0), Ev(0, "other", 1, 0)}

MCSymmetry == Permutations(Requests) \cup Permutations(Deliveries) \cup Permutations(Ids)

=============================================================================
