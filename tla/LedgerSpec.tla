----------------------------- MODULE LedgerSpec -----------------------------
(***************************************************************************)
(* What the ledger promises: a posting is one atomic step on the books, or *)
(* none at all, and its caller is told which unless the commit itself      *)
(* fails.                                                                  *)
(***************************************************************************)
EXTENDS LedgerBook, SequencesExt

CONSTANTS
    Postings,    \* calls of PostLedgerTransaction
    Requests     \* sequences of entries they may be called with

VARIABLES
    book,        \* the books, see LedgerBook
    result       \* result[t]: what posting t returned

vars == <<book, result>>

Total(request, side) == FoldLeft(LAMBDA sum, e : sum + e[side], 0, request)

\* The double-entry principle.
Balanced(request) ==
    /\ Len(request) >= 2
    /\ \A i \in DOMAIN request :
        /\ request[i].debit >= 0 /\ request[i].credit >= 0
        /\ request[i].debit = 0 \/ request[i].credit = 0
    /\ Total(request, "debit") = Total(request, "credit")

\* What the schema asks on top: known accounts, and no entry without an amount.
Storable(request) ==
    \A i \in DOMAIN request :
        request[i].account \in Accounts /\ request[i].debit + request[i].credit > 0

PostAll(b, request) ==
    FoldLeft(LAMBDA c, e : PostEntry(c, e.account, e.debit, e.credit), b, request)

Init ==
    /\ book = EmptyBook
    /\ result = [t \in Postings |-> "pending"]

Return(t, r) ==
    /\ result[t] = "pending"
    /\ result' = [result EXCEPT ![t] = r]

\* A caller that is told "unsure" does not know whether its request was posted.
Post(t) ==
    /\ \E r \in {"posted", "unsure"} : Return(t, r)
    /\ \E request \in Requests :
        /\ Balanced(request) /\ Storable(request)
        /\ book' = PostAll(book, request)

Refuse(t) ==
    /\ \E r \in {"error", "unsure"} : Return(t, r)
    /\ UNCHANGED book

Next == \E t \in Postings : Post(t) \/ Refuse(t)

Spec == Init /\ [][Next]_vars
=============================================================================
