------------------------------ MODULE Dashboard ------------------------------
(***************************************************************************)
(* service/dashboard.go: what a reader of the dashboard is shown while     *)
(* payments are created and move.  GetStats runs its SELECTs one by one    *)
(* and in no transaction, each on the rows as they are by then; a client   *)
(* that turns the pages of GetRecentPayments calls it once per page.       *)
(*                                                                         *)
(* The other queries are one SELECT each.  Of created_at, the order and    *)
(* the windows of GetStats that it falls into are kept; no two payments    *)
(* have the same one.  Currencies and PSPs are left out: a GROUP BY on one *)
(* of them is kept as the sum over its groups.                             *)
(***************************************************************************)
EXTENDS PaymentStatus, Naturals, Sequences, SequencesExt, FiniteSets

CONSTANTS
    Writers,    \* requests that create a payment; each stands for its payment too
    Readers,    \* clients that ask for the statistics or turn the pages
    Amount,     \* Amount[p]: the amount of a payment
    Ranges,     \* which payments are created in a range of time that a reader may ask for
    Today       \* Today[r]: the payments that are created on the day on which r is answered

ASSUME AmountAssumption == Amount \in [Writers -> Nat]
ASSUME RangesAssumption == Ranges \subseteq SUBSET Writers
ASSUME TodayAssumption == Today \in [Readers -> SUBSET Writers]

VARIABLES
    stamped,    \* payments in the order of their created_at
    status,     \* status[p]: the column of the row, NoStatus before the INSERT
    stats,      \* stats[r]: DashboardStats as far as GetStats has filled it in
    pages,      \* pages[r]: the payments on the pages that r has read so far
    known       \* known[r]: the payments that existed when r read its first page

dashVars == <<stamped, status, stats, pages, known>>

\* The number of SELECTs that GetStats runs.
Selects == 6

\* volume and psps are the sums over the groups of the breakdowns by currency and by PSP.
NoStats == [done |-> 0, period |-> {}, total |-> 0, revenue |-> 0, success |-> 0, failure |-> 0,
            breakdown |-> [s \in Status |-> 0], volume |-> 0, psps |-> 0, today |-> 0]

DashInit ==
    /\ stamped = <<>>
    /\ status = [p \in Writers |-> NoStatus]
    /\ stats = [r \in Readers |-> NoStats]
    /\ pages = [r \in Readers |-> <<>>]
    /\ known = [r \in Readers |-> {}]

Rows == {p \in Writers : status[p] # NoStatus}

\* created_at of q is later than that of p.
Newer(q, p) == \E i, j \in DOMAIN stamped : i > j /\ stamped[i] = q /\ stamped[j] = p

\* Mutant: ORDER BY updated_at DESC, where a payment that moves comes first.
Ahead_Updated(p) ==
    {q \in Rows : IF (status[q] = "created") = (status[p] = "created")
                  THEN Newer(q, p)
                  ELSE status[p] = "created"}

\* ORDER BY created_at DESC: the rows that come before p.
Ahead(p) == {q \in Rows : Newer(q, p)}

-----------------------------------------------------------------------------

\* CreatePayment takes the time before it inserts the row, so rows need not appear in this order.
Stamp(p) ==
    /\ p \notin ToSet(stamped)
    /\ stamped' = Append(stamped, p)
    /\ UNCHANGED <<status, stats, pages, known>>

Insert(p) ==
    /\ p \in ToSet(stamped) /\ p \notin Rows
    /\ status' = [status EXCEPT ![p] = "created"]
    /\ UNCHANGED <<stamped, stats, pages, known>>

\* A webhook moves a payment that has a PSP id.
MovePayment(p) ==
    /\ p \in Rows /\ status[p] # "created"
    /\ \E s \in validTransitions[status[p]] \ {"cancelled"} : status' = [status EXCEPT ![p] = s]
    /\ UNCHANGED <<stamped, stats, pages, known>>

\* COUNT(*) of the rows in a window of created_at that have one of the statuses
With(window, statuses) == Cardinality({p \in window : status[p] \in statuses})

\* SUM(amount) of the rows in a window
Volume(window) == MapThenSumSet(LAMBDA p : Amount[p], {p \in window : status[p] \in Status})

\* The k-th SELECT, which fills in its part of the answer.
Query(r, k, answer) ==
    /\ stats[r].done = k - 1
    /\ stats' = [stats EXCEPT ![r] = [answer EXCEPT !.done = k]]

\* Mutant: the total is counted once more along with the amounts per currency.
GetStats_TotalAgain(r) ==
    /\ pages[r] = <<>>
    /\ LET a == stats[r]
           range == a.period
       IN  \/ \E chosen \in Ranges :
                  Query(r, 1, [a EXCEPT !.period = chosen, !.total = With(chosen, Status),
                                        !.revenue = Volume(chosen)])
           \/ Query(r, 2, [a EXCEPT !.success = With(range, {"captured"}),
                                    !.failure = With(range, {"failed"})])
           \/ Query(r, 3, [a EXCEPT !.breakdown = [s \in Status |-> With(range, {s})]])
           \/ Query(r, 4, [a EXCEPT !.volume = Volume(range), !.total = With(range, Status)])
           \/ Query(r, 5, [a EXCEPT !.psps = With(range, Status)])
           \/ Query(r, 6, [a EXCEPT !.today = With(Today[r], Status)])
    /\ UNCHANGED <<stamped, status, pages, known>>

\* The range is the same for the first five; the last one looks at the day on which it runs.
GetStats(r) ==
    /\ pages[r] = <<>>
    /\ LET a == stats[r]
           range == a.period
       IN  \/ \E chosen \in Ranges :
                  Query(r, 1, [a EXCEPT !.period = chosen, !.total = With(chosen, Status),
                                        !.revenue = Volume(chosen)])
           \/ Query(r, 2, [a EXCEPT !.success = With(range, {"captured"}),
                                    !.failure = With(range, {"failed"})])
           \/ Query(r, 3, [a EXCEPT !.breakdown = [s \in Status |-> With(range, {s})]])
           \/ Query(r, 4, [a EXCEPT !.volume = Volume(range)])
           \/ Query(r, 5, [a EXCEPT !.psps = With(range, Status)])
           \/ Query(r, 6, [a EXCEPT !.today = With(Today[r], Status)])
    /\ UNCHANGED <<stamped, status, pages, known>>

\* The next page, of one payment: offset is the number of payments read so far.
GetRecentPayments(r) ==
    LET offset == Len(pages[r])
    IN  /\ stats[r] = NoStats
        /\ \E p \in Rows :
            /\ Cardinality(Ahead(p)) = offset
            /\ pages' = [pages EXCEPT ![r] = Append(@, p)]
        /\ known' = IF offset = 0 THEN [known EXCEPT ![r] = Rows] ELSE known
        /\ UNCHANGED <<stamped, status, stats>>

-----------------------------------------------------------------------------
(* Properties *)

DashTypeOK ==
    /\ stamped \in Seq(Writers)
    /\ status \in [Writers -> Status \cup {NoStatus}]
    /\ stats \in [Readers -> [done : 0 .. Selects, period : SUBSET Writers, total : Nat, revenue : Nat,
                              success : Nat, failure : Nat, breakdown : [Status -> Nat],
                              volume : Nat, psps : Nat, today : Nat]]
    /\ pages \in [Readers -> Seq(Writers)]
    /\ known \in [Readers -> SUBSET Writers]

\* The figures of one answer of GetStats may be of different moments, but
\* they differ one way only.  A later SELECT leaves out no payment of the range
\* and no amount that an earlier one has added up; a payment counted as failed
\* is in the breakdown as failed, and one counted as a success is there as
\* captured or as refunded since.  The day of today, a window of its own, has
\* every payment of the range when the range is within that day.
StatsAgree ==
    \A r \in Readers : stats[r].done = Selects =>
        LET a == stats[r]
        IN  /\ a.total <= SumFunction(a.breakdown)
            /\ SumFunction(a.breakdown) <= a.psps
            /\ a.revenue <= a.volume
            /\ a.failure <= a.breakdown["failed"]
            /\ a.success <= a.breakdown["captured"] + a.breakdown["partially_refunded"]
                              + a.breakdown["refunded"]
            /\ a.period \subseteq Today[r] => a.psps <= a.today

\* A client that has turned the pages to the end has seen every payment that
\* was there at the first page, whatever was created meanwhile.
PagesComplete ==
    \A r \in Readers : Len(pages[r]) >= Cardinality(Rows) => known[r] \subseteq ToSet(pages[r])

=============================================================================
