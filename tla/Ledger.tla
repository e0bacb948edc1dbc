------------------------------- MODULE Ledger -------------------------------
(***************************************************************************)
(* LedgerService.PostLedgerTransaction, at the level of its account locks. *)
(* A posting locks the accounts of its entries one after the other, in the *)
(* order of the entries, and holds them until its transaction ends; the    *)
(* postings of the webhooks lock in the same way.                          *)
(***************************************************************************)
EXTENDS LedgerBook, SequencesExt

CONSTANTS
    Postings,    \* calls of PostLedgerTransaction
    Requests,    \* sequences of entries they may be called with
    NoOwner,     \* the owner of an account that is not locked
    MaxFaults    \* bound on database errors and interrupted calls

ASSUME NoOwnerAssumption == NoOwner \notin Postings
ASSUME FaultsAssumption == MaxFaults \in Nat

\* Amounts are integers, of any sign before they are checked.
ASSUME RequestsAssumption ==
    \A request \in Requests :
        /\ request \in Seq({request[i] : i \in DOMAIN request})
        /\ \A i \in DOMAIN request : request[i].debit \in Int /\ request[i].credit \in Int

VARIABLES
    book,        \* ledger_accounts and ledger_entries, as committed
    lock,        \* lock[a]: the posting that has account a FOR UPDATE
    posting,     \* posting[t]: program counter, entries still to write, own writes
    faults       \* faults so far

vars == <<book, lock, posting, faults>>

\* posted, refused or undone, and an error from the commit itself.
Results == {"posted", "error", "unsure"}

Idle == [pc |-> "idle", todo |-> <<>>, draft |-> EmptyBook]

Init ==
    /\ book = EmptyBook
    /\ lock = [a \in Accounts |-> NoOwner]
    /\ posting = [t \in Postings |-> Idle]
    /\ faults = 0

-----------------------------------------------------------------------------

Total(request, side) == FoldLeft(LAMBDA sum, e : sum + e[side], 0, request)

\* The checks ahead of the transaction.
Valid(request) ==
    /\ Len(request) >= 2
    /\ \A i \in DOMAIN request :
        /\ request[i].debit >= 0 /\ request[i].credit >= 0
        /\ ~(request[i].debit > 0 /\ request[i].credit > 0)
    /\ Total(request, "debit") = Total(request, "credit")

Owned(t) == {a \in Accounts : lock[a] = t}

Unlock(t) == lock' = [a \in Accounts |-> IF lock[a] = t THEN NoOwner ELSE lock[a]]

Return(t, result) == posting' = [posting EXCEPT ![t] = [Idle EXCEPT !.pc = result]]

Begin(t) ==
    /\ posting[t].pc = "idle"
    /\ \E request \in Requests :
        IF Valid(request)
        THEN posting' = [posting EXCEPT ![t].pc = "entries", ![t].todo = request]
        ELSE Return(t, "error")
    /\ UNCHANGED <<book, lock, faults>>

\* chk_debit_credit of ledger_entries
Storable(e) == (e.debit > 0 /\ e.credit = 0) \/ (e.credit > 0 /\ e.debit = 0)

\* Mutant: The balance is read without FOR UPDATE.
WriteEntry_NoLock(t) ==
    LET e == Head(posting[t].todo)
        a == e.account
        draft == posting[t].draft
        seen == IF lock[a] = t THEN draft ELSE [draft EXCEPT !.balance[a] = book.balance[a]]
    IN  /\ posting[t].pc = "entries" /\ posting[t].todo # <<>>
        /\ a \in Accounts /\ Storable(e)
        /\ lock' = [lock EXCEPT ![a] = t]
        /\ posting' = [posting EXCEPT ![t].todo = Tail(@),
                                      ![t].draft = PostEntry(seen, a, e.debit, e.credit)]
        /\ UNCHANGED <<book, faults>>

\* Mutant: The balance is read outside the transaction, which does not see its own writes.
WriteEntry_Forgets(t) ==
    LET e == Head(posting[t].todo)
        a == e.account
        seen == [posting[t].draft EXCEPT !.balance[a] = book.balance[a]]
    IN  /\ posting[t].pc = "entries" /\ posting[t].todo # <<>>
        /\ a \in Accounts /\ Storable(e)
        /\ lock[a] \in {NoOwner, t}
        /\ lock' = [lock EXCEPT ![a] = t]
        /\ posting' = [posting EXCEPT ![t].todo = Tail(@),
                                      ![t].draft = PostEntry(seen, a, e.debit, e.credit)]
        /\ UNCHANGED <<book, faults>>

\* One entry: SELECT ... FOR UPDATE waits until the account is free and reads what is committed,
\* or what this transaction has written itself; UPDATE and INSERT go to the transaction.
WriteEntry(t) ==
    LET e == Head(posting[t].todo)
        a == e.account
        draft == posting[t].draft
        seen == IF lock[a] = t THEN draft ELSE [draft EXCEPT !.balance[a] = book.balance[a]]
    IN  /\ posting[t].pc = "entries" /\ posting[t].todo # <<>>
        /\ a \in Accounts /\ Storable(e)
        /\ lock[a] \in {NoOwner, t}
        /\ lock' = [lock EXCEPT ![a] = t]
        /\ posting' = [posting EXCEPT ![t].todo = Tail(@),
                                      ![t].draft = PostEntry(seen, a, e.debit, e.credit)]
        /\ UNCHANGED <<book, faults>>

\* The books once the writes of t are committed.
Committed(t) ==
    LET draft == posting[t].draft
    IN  [balance |-> [a \in Accounts |->
                         IF a \in Owned(t) THEN draft.balance[a] ELSE book.balance[a]],
         entries |-> [a \in Accounts |-> book.entries[a] \o draft.entries[a]]]

Commit(t) ==
    /\ posting[t].pc = "entries" /\ posting[t].todo = <<>>
    /\ book' = Committed(t)
    /\ Unlock(t)
    /\ Return(t, "posted")
    /\ UNCHANGED faults

\* Commit returns an error: its reply is lost, its context is over or the database has refused
\* it.  The database has committed all or nothing, and the caller cannot tell which.  It may be
\* told before the database decides; the locks are held until then and the posting does nothing
\* more, so that its return is put where the decision is.
CommitUnsure(t) ==
    /\ posting[t].pc = "entries" /\ posting[t].todo = <<>>
    /\ faults < MaxFaults
    /\ faults' = faults + 1
    /\ book' \in {book, Committed(t)}
    /\ Unlock(t)
    /\ Return(t, "unsure")

\* Mutant: The deferred Rollback is missing.
Rollback_KeepsLocks(t) ==
    /\ Return(t, "error")
    /\ UNCHANGED <<book, lock>>

\* Mutant: The transaction ends without an error and without a commit.
Rollback_Unlisted(t) ==
    /\ Unlock(t)
    /\ Return(t, "pending")
    /\ UNCHANGED book

\* An error return: the deferred Rollback ends the transaction.
Rollback(t) ==
    /\ Unlock(t)
    /\ Return(t, "error")
    /\ UNCHANGED book

\* No such account, or an entry that the schema refuses once its account is locked.
EntryFails(t) ==
    LET e == Head(posting[t].todo)
    IN  /\ posting[t].pc = "entries" /\ posting[t].todo # <<>>
        /\ \/ e.account \notin Accounts
           \/ e.account \in Accounts /\ lock[e.account] \in {NoOwner, t} /\ ~Storable(e)
        /\ Rollback(t)
        /\ UNCHANGED faults

\* Any other error ahead of the COMMIT, a context that is over by then, or a crash.
Fail(t) ==
    /\ posting[t].pc = "entries" /\ posting[t].todo # <<>>
    /\ faults < MaxFaults
    /\ faults' = faults + 1
    /\ Rollback(t)

\* The posting whose lock t waits for.
WaitsFor(t) ==
    IF posting[t].pc = "entries" /\ posting[t].todo # <<>> /\ Head(posting[t].todo).account \in Accounts
    THEN lock[Head(posting[t].todo).account]
    ELSE NoOwner

\* A set of postings that wait for each other and for nobody else.
Cycle(S) == \A t \in S : WaitsFor(t) \in S \ {t}

\* PostgreSQL finds a cycle of waiting transactions and cancels one of them.
Victim(t) ==
    /\ \E S \in SUBSET Postings : t \in S /\ Cycle(S) /\ {WaitsFor(s) : s \in S} = S
    /\ Rollback(t)
    /\ UNCHANGED faults

Step(t) == WriteEntry(t) \/ Commit(t) \/ EntryFails(t)

Next == \E t \in Postings : Begin(t) \/ Step(t) \/ CommitUnsure(t) \/ Fail(t) \/ Victim(t)

Spec == Init /\ [][Next]_vars

\* A goroutine runs until its call returns; the database resolves deadlocks.
Fairness ==
    /\ \A t \in Postings : WF_vars(Step(t))
    /\ WF_vars(\E t \in Postings : Victim(t))

FairSpec == Spec /\ Fairness

-----------------------------------------------------------------------------

Row == [debit : Nat, credit : Nat, running : Int]

IsBook(b) == b \in [balance : [Accounts -> Int], entries : [Accounts -> Seq(Row)]]

\* Every part of the state has its type.
TypeOK ==
    /\ IsBook(book)
    /\ lock \in [Accounts -> Postings \cup {NoOwner}]
    /\ \A t \in Postings :
        /\ posting[t].pc \in {"idle", "entries"} \cup Results
        /\ IsBook(posting[t].draft)
    /\ faults \in 0..MaxFaults

\* The running balances of an account form a chain that ends in its current balance: no posting
\* computes its balance from a value that another one has replaced.
RunningChain ==
    \A a \in Accounts :
        LET rows == book.entries[a]
            Before(i) == IF i = 1 THEN 0 ELSE rows[i - 1].running
        IN  /\ \A i \in DOMAIN rows :
                rows[i].running = NewBalance(a, Before(i), rows[i].debit, rows[i].credit)
            /\ book.balance[a] = Before(Len(rows) + 1)

Atomic == INSTANCE LedgerSpec WITH
    result <- [t \in Postings |->
        IF posting[t].pc \in Results THEN posting[t].pc ELSE "pending"]

\* A posting that is answered "posted" has taken effect in one step, as a whole, on the books as
\* they were then; one that is refused or undone has no effect; and one whose commit returned an
\* error has the one or the other, never a part of its entries.
ImplementsLedgerSpec == Atomic!Spec

\* Every posting returns, also when postings wait for each other in a circle.
AllReturn == \A t \in Postings : posting[t].pc = "entries" ~> posting[t].pc \in Results
=============================================================================
