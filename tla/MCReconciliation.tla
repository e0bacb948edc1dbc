------------------------- MODULE MCReconciliation --------------------------
(***************************************************************************)
(* Instances of Reconciliation for TLC: payment p1 is an ordinary one, p2  *)
(* is reported by the PSP with another amount, p3 is not known to it.      *)
(***************************************************************************)
EXTENDS Reconciliation, TLC

CONSTANTS p1, p2, p3

MCAmount == [p \in Payments |-> 2]
MCPspAmount == [p \in Payments |-> IF p = p2 THEN 1 ELSE 2]

Symmetry == Permutations(Batches)

\* A behaviour may end when every batch has ended.
Ended == (\A b \in Batches : batch[b].pc = "done") /\ UNCHANGED vars

MCSpec == Init /\ [][Next \/ Ended]_vars
=============================================================================
