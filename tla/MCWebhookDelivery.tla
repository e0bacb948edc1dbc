------------------------- MODULE MCWebhookDelivery --------------------------
(***************************************************************************)
(* Instances of WebhookDelivery for TLC.                                   *)
(***************************************************************************)
EXTENDS WebhookDelivery, TLC

Symmetry == Permutations(Events) \cup Permutations(Workers)

\* A behaviour may end when nobody has anything to do.
Quiet == (\A w \in Workers : At(w, "idle")) /\ UNCHANGED vars

MCSpec == Init /\ [][Next \/ Quiet]_vars
MCFairSpec == MCSpec /\ Fairness
=============================================================================
