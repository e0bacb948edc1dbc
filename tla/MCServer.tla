------------------------------ MODULE MCServer -------------------------------
(***************************************************************************)
(* Instances of Server for TLC.                                            *)
(***************************************************************************)
EXTENDS Server

CONSTANTS p1, p2

MCAmount == [p \in Writers |-> IF p = p1 THEN 2 ELSE 1]

\* p1 is of yesterday, or the clock of the process passed midnight between the two.
MCToday == [r \in Readers |-> {p2}]

Unread == \A r \in Readers : stats[r] = NoStats /\ pages[r] = <<>>

\* Bound: in a behaviour in which a reader asks, payments are created and move, but no event about them
\* is handed over, no request ends and no signal comes.
Undisturbed ==
    /\ phase = "serving"
    /\ At({"out", "entered", "serving"}) = Requests
    /\ \A p \in Writers : event[p] \in {"none", "due"}

MCNext == ServerNext /\ (Unread \/ Undisturbed)'

MCSpec == ServerInit /\ [][MCNext]_serverVars /\ ServerFairness
=============================================================================
