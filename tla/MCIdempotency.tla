--------------------------- MODULE MCIdempotency ---------------------------
(***************************************************************************)
(* Instances of Idempotency for TLC.                                       *)
(***************************************************************************)
EXTENDS Idempotency, TLC

Symmetry == Permutations(Requests) \cup Permutations(Keys)

\* A behaviour may end when every request has its answer.
Answered == (\A r \in Requests : At(r, "done")) /\ UNCHANGED vars

MCSpec == Init /\ [][Next \/ Answered]_vars
=============================================================================
