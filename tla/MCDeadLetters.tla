--------------------------- MODULE MCDeadLetters ---------------------------
(***************************************************************************)
(* Instances of DeadLetters for TLC.                                       *)
(***************************************************************************)
EXTENDS DeadLetters

Symmetry == Permutations(Clients) \cup Permutations(Entries)

\* A behaviour may end when every call has returned.
Returned == (\A c \in Clients : At(c, "done")) /\ UNCHANGED vars

MCSpec == Init /\ [][Next \/ Returned]_vars
=============================================================================
