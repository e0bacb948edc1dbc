---------------------------- MODULE LedgerProofs ----------------------------
(***************************************************************************)
(* Proofs about Ledger for any number of postings with any entries.        *)
(*                                                                         *)
(* The running balances of the books form chains because the drafts of the *)
(* open transactions do: what a posting has written to an account that it  *)
(* has locked continues the chain of that account in the books, which      *)
(* nobody else can change until the lock is gone.                          *)
(*                                                                         *)
(* A posting takes effect at its commit.  Until then the committed books,  *)
(* merged with its draft, are what its first entries make of them when they *)
(* are posted one after the other; what other postings commit meanwhile is *)
(* in accounts that it has not locked, and commutes with its own entries.  *)
(***************************************************************************)
EXTENDS Ledger, SequenceTheorems, WellFoundedInduction, TLAPS

\* Every entry that a posting may be asked to write.
AllEntries == UNION {{request[i] : i \in DOMAIN request} : request \in Requests}

Book == [balance : [Accounts -> Int], entries : [Accounts -> Seq(Row)]]

PostingRecord ==
    [pc : {"idle", "entries"} \cup Results, todo : Seq(AllEntries), draft : Book]

\* Rows take an account from balance first to balance last.
Before(rows, first, i) == IF i = 1 THEN first ELSE rows[i - 1].running

Chain(a, first, rows, last) ==
    /\ \A i \in 1..Len(rows) :
        rows[i].running = NewBalance(a, Before(rows, first, i), rows[i].debit, rows[i].credit)
    /\ last = Before(rows, first, Len(rows) + 1)

BookInv == \A a \in Accounts : Chain(a, 0, book.entries[a], book.balance[a])

\* A posting holds locks only while its transaction is open; its draft
\* continues the books in the accounts it has locked, and only there.
DraftInv ==
    \A t \in Postings, a \in Accounts :
        IF lock[a] = t
        THEN /\ posting[t].pc = "entries"
             /\ Chain(a, book.balance[a], posting[t].draft.entries[a], posting[t].draft.balance[a])
        ELSE posting[t].draft.entries[a] = <<>>

RecordsOK ==
    /\ book \in Book
    /\ lock \in [Accounts -> Postings \cup {NoOwner}]
    /\ posting \in [Postings -> PostingRecord]
    /\ faults \in 0..MaxFaults

IInv == RecordsOK /\ BookInv /\ DraftInv

-----------------------------------------------------------------------------
(* Chains.                                                                  *)

\* The new balance of an account is a number.
LEMMA NewBalanceType ==
    ASSUME NEW a \in Accounts, NEW b \in Int, NEW debit \in Int, NEW credit \in Int
    PROVE  NewBalance(a, b, debit, credit) \in Int
BY DEF NewBalance

\* No rows leave an account as it is.
LEMMA EmptyChain ==
    ASSUME NEW a \in Accounts, NEW first \in Int
    PROVE  Chain(a, first, <<>>, first)
BY DEF Chain, Before

\* An entry continues a chain.
LEMMA ChainAppend ==
    ASSUME NEW a \in Accounts, NEW first \in Int, NEW rows \in Seq(Row), NEW last \in Int,
           Chain(a, first, rows, last), NEW row \in Row,
           row.running = NewBalance(a, last, row.debit, row.credit)
    PROVE  Append(rows, row) \in Seq(Row) /\ Chain(a, first, Append(rows, row), row.running)
<1> DEFINE new == Append(rows, row)
<1> DEFINE n == Len(rows)
<1>1. /\ new \in Seq(Row) /\ Len(new) = n + 1 /\ n \in Nat
      /\ \A i \in 1..n : new[i] = rows[i]
      /\ new[n + 1] = row
  BY AppendProperties, LenProperties
<1> HIDE DEF new, n
<1>2. \A i \in 1..(n + 1) : Before(new, first, i) = Before(rows, first, i)
  BY <1>1 DEF Before
<1>3. last = Before(rows, first, n + 1)
  BY DEF Chain, n
<1>4. ASSUME NEW i \in 1..(n + 1)
      PROVE  new[i].running = NewBalance(a, Before(new, first, i), new[i].debit, new[i].credit)
  <2>1. CASE i = n + 1
    BY <1>1, <1>2, <1>3, <2>1
  <2>2. CASE i # n + 1
    <3>1. i \in 1..n
      BY <1>1, <2>2
    <3> QED
      BY <1>1, <1>2, <3>1 DEF Chain, n
  <2> QED
    BY <2>1, <2>2
<1>5. Before(new, first, n + 2) = row.running
  BY <1>1 DEF Before
<1> QED
  BY <1>1, <1>4, <1>5 DEF Chain, new, n

\* Two chains that meet are one.
LEMMA ChainConcat ==
    ASSUME NEW a \in Accounts, NEW first \in Int, NEW old \in Seq(Row), NEW mid \in Int,
           NEW new \in Seq(Row), NEW last \in Int,
           Chain(a, first, old, mid), Chain(a, mid, new, last)
    PROVE  old \o new \in Seq(Row) /\ Chain(a, first, old \o new, last)
<1> DEFINE m == Len(old)
<1> DEFINE n == Len(new)
<1> DEFINE all == old \o new
<1>1. /\ all \in Seq(Row) /\ Len(all) = m + n /\ m \in Nat /\ n \in Nat
      /\ \A i \in 1..(m + n) : all[i] = IF i <= m THEN old[i] ELSE new[i - m]
  BY ConcatProperties, LenProperties
<1> HIDE DEF all, m, n
<1>2. ASSUME NEW i \in 1..(m + 1)
      PROVE  Before(all, first, i) = Before(old, first, i)
  <2>1. CASE i = 1
    BY <2>1 DEF Before
  <2>2. CASE i # 1
    <3>1. i - 1 \in 1..m /\ i - 1 \in 1..(m + n)
      BY <1>1, <2>2
    <3>2. all[i - 1] = old[i - 1]
      BY <1>1, <3>1
    <3> QED
      BY <2>2, <3>2 DEF Before
  <2> QED
    BY <2>1, <2>2
<1>3. mid = Before(all, first, m + 1)
  BY <1>1, <1>2 DEF Chain, m
<1>4. ASSUME NEW j \in 1..(n + 1)
      PROVE  Before(all, first, m + j) = Before(new, mid, j)
  <2>1. CASE j = 1
    BY <1>3, <2>1 DEF Before
  <2>2. CASE j # 1
    <3>1. /\ m + j - 1 \in 1..(m + n) /\ ~(m + j - 1 <= m) /\ (m + j - 1) - m = j - 1
          /\ m + j # 1 /\ m + j - 1 = (m + j) - 1
      BY <1>1, <2>2
    <3>2. all[m + j - 1] = new[j - 1]
      BY <1>1, <3>1
    <3> QED
      BY <2>2, <3>1, <3>2 DEF Before
  <2> QED
    BY <2>1, <2>2
<1>5. ASSUME NEW i \in 1..(m + n)
      PROVE  all[i].running = NewBalance(a, Before(all, first, i), all[i].debit, all[i].credit)
  <2>1. CASE i <= m
    <3>1. i \in 1..m /\ i \in 1..(m + 1) /\ all[i] = old[i]
      BY <1>1, <2>1
    <3> QED
      BY <1>2, <3>1 DEF Chain, m
  <2>2. CASE ~(i <= m)
    <3>1. PICK j \in 1..n : i = m + j
      <4>1. i - m \in 1..n /\ i = m + (i - m)
        BY <1>1, <2>2
      <4> QED
        BY <4>1
    <3>2. all[i] = new[j]
      <4>1. i - m = j
        BY <1>1, <3>1
      <4> QED
        BY <1>1, <2>2, <4>1
    <3>3. Before(all, first, i) = Before(new, mid, j)
      BY <1>1, <1>4, <3>1
    <3> QED
      BY <3>2, <3>3 DEF Chain, n
  <2> QED
    BY <2>1, <2>2
<1>6. last = Before(all, first, m + n + 1)
  <2>1. n + 1 \in 1..(n + 1) /\ m + (n + 1) = m + n + 1
    BY <1>1
  <2>2. last = Before(new, mid, n + 1)
    BY DEF Chain, n
  <2> QED
    BY <1>4, <2>1, <2>2
<1> QED
  BY <1>1, <1>5, <1>6 DEF Chain, all, m, n

-----------------------------------------------------------------------------
(* The parts of the state.                                                  *)

\* What the other proofs take from the invariant.
LEMMA Types ==
    ASSUME IInv
    PROVE  /\ book \in Book /\ lock \in [Accounts -> Postings \cup {NoOwner}]
           /\ posting \in [Postings -> PostingRecord] /\ faults \in 0..MaxFaults
           /\ BookInv /\ DraftInv /\ MaxFaults \in Nat /\ NoOwner \notin Postings
BY FaultsAssumption, NoOwnerAssumption DEF IInv, RecordsOK

\* EmptyBook is a book without rows.
LEMMA EmptyBookType ==
    /\ EmptyBook \in Book
    /\ \A a \in Accounts : EmptyBook.balance[a] = 0 /\ EmptyBook.entries[a] = <<>>
BY EmptySeq DEF EmptyBook, Book

\* Every request is a sequence of entries with integers in them.
LEMMA RequestTypes ==
    /\ \A request \in Requests : request \in Seq(AllEntries)
    /\ \A e \in AllEntries : e.debit \in Int /\ e.credit \in Int
<1>1. ASSUME NEW request \in Requests
      PROVE  request \in Seq(AllEntries)
  <2>1. /\ request \in Seq({request[i] : i \in DOMAIN request})
        /\ {request[i] : i \in DOMAIN request} \subseteq AllEntries
    BY RequestsAssumption DEF AllEntries
  <2> QED
    BY <2>1, SeqMonotonic
<1>2. ASSUME NEW e \in AllEntries
      PROVE  e.debit \in Int /\ e.credit \in Int
  BY RequestsAssumption DEF AllEntries
<1> QED
  BY <1>1, <1>2

\* A posting with nothing to do is a record of the right type.
LEMMA IdleType ==
    ASSUME NEW pc \in {"idle", "entries"} \cup Results
    PROVE  /\ [Idle EXCEPT !.pc = pc] \in PostingRecord
           /\ [Idle EXCEPT !.pc = pc].pc = pc /\ [Idle EXCEPT !.pc = pc].draft = EmptyBook
BY EmptyBookType, EmptySeq DEF Idle, PostingRecord

\* One posting changes, to u.
Becomes(t, u) == u \in PostingRecord /\ posting' = [posting EXCEPT ![t] = u]

\* The postings after one of them has changed.
LEMMA PostingNext ==
    ASSUME IInv, NEW t \in Postings, NEW u, Becomes(t, u)
    PROVE  /\ posting' \in [Postings -> PostingRecord]
           /\ posting'[t] = u
           /\ \A s \in Postings \ {t} : posting'[s] = posting[s]
BY Types DEF Becomes

\* A posting returns: it has nothing left that is not committed.
LEMMA ReturnBecomes ==
    ASSUME IInv, NEW t \in Postings, NEW result \in Results, Return(t, result)
    PROVE  \E u : Becomes(t, u) /\ u.pc = result /\ u.draft = EmptyBook
BY IdleType DEF Return, Becomes

\* What a call may return.
LEMMA ResultNames ==
    /\ "posted" \in Results /\ "error" \in Results /\ "unsure" \in Results
    /\ "idle" \notin Results /\ "entries" \notin Results /\ "pending" \notin Results
BY DEF Results

\* The locks after a posting has released its own.
LEMMA UnlockType ==
    ASSUME IInv, NEW t \in Postings, Unlock(t)
    PROVE  /\ lock' \in [Accounts -> Postings \cup {NoOwner}]
           /\ \A a \in Accounts : lock'[a] = IF lock[a] = t THEN NoOwner ELSE lock[a]
BY Types DEF Unlock

-----------------------------------------------------------------------------
(* The actions.                                                             *)

\* Empty books, no locks and no drafts.
LEMMA InitInv == Init => IInv
<1> SUFFICES ASSUME Init PROVE IInv
  OBVIOUS
<1>1. Idle \in PostingRecord /\ Idle.draft = EmptyBook
  BY EmptyBookType, EmptySeq DEF Idle, PostingRecord
<1>2. RecordsOK
  BY <1>1, EmptyBookType, FaultsAssumption DEF Init, RecordsOK
<1>3. BookInv
  <2>1. ASSUME NEW a \in Accounts
        PROVE  Chain(a, 0, book.entries[a], book.balance[a])
    <3>1. book.entries[a] = <<>> /\ book.balance[a] = 0
      BY EmptyBookType DEF Init
    <3> QED
      BY <3>1, EmptyChain
  <2> QED
    BY <2>1 DEF BookInv
<1>4. DraftInv
  BY <1>1, EmptyBookType, NoOwnerAssumption DEF Init, DraftInv
<1> QED
  BY <1>2, <1>3, <1>4 DEF IInv

\* A call that gets past the checks has an open transaction and an empty
\* draft, one that does not has returned.
LEMMA BeginInv ==
    ASSUME IInv, NEW t \in Postings, Begin(t)
    PROVE  IInv'
<1>1. UNCHANGED <<book, lock, faults>> /\ posting[t].pc = "idle"
  BY DEF Begin
<1>2. posting[t] \in PostingRecord /\ \A a \in Accounts : lock[a] # t
  BY <1>1, Types DEF DraftInv
<1>3. \A a \in Accounts : posting[t].draft.entries[a] = <<>>
  BY <1>2, Types DEF DraftInv
<1>4. PICK u : Becomes(t, u) /\ \A a \in Accounts : u.draft.entries[a] = <<>>
  <2>1. PICK request \in Requests :
          IF Valid(request)
          THEN posting' = [posting EXCEPT ![t].pc = "entries", ![t].todo = request]
          ELSE Return(t, "error")
    BY DEF Begin
  <2>2. CASE Valid(request)
    <3> DEFINE v == [posting[t] EXCEPT !.pc = "entries", !.todo = request]
    <3>1. v \in PostingRecord /\ v.draft = posting[t].draft
      BY <1>2, RequestTypes DEF PostingRecord
    <3>2. posting' = [posting EXCEPT ![t] = v]
      BY <2>1, <2>2, Types
    <3> QED
      BY <1>3, <3>1, <3>2 DEF Becomes
  <2>3. CASE ~Valid(request)
    BY <2>1, <2>3, ReturnBecomes, EmptyBookType, ResultNames
  <2> QED
    BY <2>2, <2>3
<1>5. RecordsOK'
  BY <1>1, <1>4, PostingNext, Types DEF RecordsOK
<1>6. BookInv'
  BY <1>1, Types DEF BookInv
<1>7. DraftInv'
  BY <1>1, <1>2, <1>4, PostingNext, Types DEF DraftInv
<1> QED
  BY <1>5, <1>6, <1>7 DEF IInv

\* The row that is written continues the draft of a locked account, or
\* starts it from the balance in the books when the lock is new.
LEMMA WriteEntryInv ==
    ASSUME IInv, NEW t \in Postings, WriteEntry(t)
    PROVE  IInv'
<1> DEFINE draft == posting[t].draft
<1>1. PICK e : e = Head(posting[t].todo)
  OBVIOUS
<1>2. PICK a : a = e.account
  OBVIOUS
<1>3. PICK seen : seen = IF lock[a] = t THEN draft ELSE [draft EXCEPT !.balance[a] = book.balance[a]]
  OBVIOUS
<1>4. /\ posting[t].pc = "entries" /\ posting[t].todo # <<>>
      /\ a \in Accounts /\ Storable(e)
      /\ lock[a] \in {NoOwner, t}
      /\ lock' = [lock EXCEPT ![a] = t]
      /\ posting' = [posting EXCEPT ![t].todo = Tail(@),
                                    ![t].draft = PostEntry(seen, a, e.debit, e.credit)]
      /\ book' = book /\ faults' = faults
  BY <1>1, <1>2, <1>3 DEF WriteEntry
<1>5. posting[t] \in PostingRecord /\ draft \in Book /\ posting[t].todo \in Seq(AllEntries)
  BY Types DEF PostingRecord
<1>6. e \in AllEntries /\ Tail(posting[t].todo) \in Seq(AllEntries)
  BY <1>1, <1>4, <1>5, HeadTailProperties
<1>7. e.debit \in Nat /\ e.credit \in Nat
  BY <1>4, <1>6, RequestTypes DEF Storable
<1> HIDE DEF draft
<1>8. /\ seen \in Book /\ seen.entries = draft.entries
      /\ \A b \in Accounts \ {a} : seen.balance[b] = draft.balance[b]
      /\ seen.balance[a] = IF lock[a] = t THEN draft.balance[a] ELSE book.balance[a]
  BY <1>3, <1>4, <1>5, Types DEF Book
<1>9. Chain(a, book.balance[a], seen.entries[a], seen.balance[a])
  <2>1. CASE lock[a] = t
    BY <1>4, <1>8, <2>1, Types DEF DraftInv, draft
  <2>2. CASE lock[a] # t
    <3>1. seen.entries[a] = <<>> /\ seen.balance[a] = book.balance[a] /\ book.balance[a] \in Int
      BY <1>4, <1>8, <2>2, Types DEF DraftInv, draft, Book
    <3> QED
      BY <1>4, <3>1, EmptyChain
  <2> QED
    BY <2>1, <2>2
<1>10. PICK nb : nb = NewBalance(a, seen.balance[a], e.debit, e.credit)
  OBVIOUS
<1>11. PICK row : row = [debit |-> e.debit, credit |-> e.credit, running |-> nb]
  OBVIOUS
<1>12. seen.balance[a] \in Int /\ seen.entries[a] \in Seq(Row) /\ book.balance[a] \in Int
  BY <1>4, <1>8, Types DEF Book
<1>13. nb \in Int /\ row \in Row /\ row.running = nb /\ row.debit = e.debit /\ row.credit = e.credit
  <2>1. nb \in Int
    BY <1>4, <1>7, <1>10, <1>12, NewBalanceType
  <2> QED
    BY <1>7, <1>11, <2>1 DEF Row
<1>14. /\ Append(seen.entries[a], row) \in Seq(Row)
       /\ Chain(a, book.balance[a], Append(seen.entries[a], row), nb)
  BY <1>4, <1>9, <1>10, <1>12, <1>13, ChainAppend
<1>15. PICK new : new = PostEntry(seen, a, e.debit, e.credit)
  OBVIOUS
<1>16. new = [balance |-> [seen.balance EXCEPT ![a] = nb],
              entries |-> [seen.entries EXCEPT ![a] = Append(@, row)]]
  BY <1>10, <1>11, <1>15 DEF PostEntry
<1>17. /\ new \in Book
       /\ new.balance[a] = nb /\ new.entries[a] = Append(seen.entries[a], row)
       /\ \A b \in Accounts \ {a} : /\ new.balance[b] = draft.balance[b]
                                    /\ new.entries[b] = draft.entries[b]
  BY <1>4, <1>8, <1>13, <1>14, <1>16 DEF Book
<1>18. PICK u : u = [posting[t] EXCEPT !.todo = Tail(@), !.draft = new]
  OBVIOUS
<1>19. u \in PostingRecord /\ u.pc = "entries" /\ u.draft = new
  BY <1>4, <1>5, <1>6, <1>17, <1>18 DEF PostingRecord
<1>20. Becomes(t, u)
  BY <1>4, <1>15, <1>18, <1>19, Types DEF Becomes
<1>21. /\ lock' \in [Accounts -> Postings \cup {NoOwner}] /\ lock'[a] = t
       /\ \A b \in Accounts \ {a} : lock'[b] = lock[b]
  BY <1>4, Types
<1>22. RecordsOK'
  BY <1>4, <1>20, <1>21, PostingNext, Types DEF RecordsOK
<1>23. BookInv'
  BY <1>4, Types DEF BookInv
<1>24. DraftInv'
  <2>1. ASSUME NEW s \in Postings, NEW b \in Accounts, lock'[b] = s
        PROVE  /\ posting'[s].pc = "entries"
               /\ Chain(b, book'.balance[b], posting'[s].draft.entries[b], posting'[s].draft.balance[b])
    <3>1. CASE b = a
      <4>1. s = t /\ posting'[s] = u
        BY <1>20, <1>21, <2>1, <3>1, PostingNext
      <4>2. /\ posting'[s].pc = "entries"
            /\ posting'[s].draft.entries[b] = Append(seen.entries[a], row)
            /\ posting'[s].draft.balance[b] = nb /\ book'.balance[b] = book.balance[a]
        BY <1>4, <1>17, <1>19, <3>1, <4>1
      <4> QED
        BY <1>14, <3>1, <4>2
    <3>2. CASE b # a
      <4>1. lock[b] = s /\ posting'[s].pc = posting[s].pc
        BY <1>4, <1>19, <1>20, <1>21, <2>1, <3>2, PostingNext
      <4>2. /\ posting'[s].draft.entries[b] = posting[s].draft.entries[b]
            /\ posting'[s].draft.balance[b] = posting[s].draft.balance[b]
        BY <1>17, <1>19, <1>20, <3>2, PostingNext DEF draft
      <4> QED
        BY <1>4, <4>1, <4>2, Types DEF DraftInv
    <3> QED
      BY <3>1, <3>2
  <2>2. ASSUME NEW s \in Postings, NEW b \in Accounts, lock'[b] # s
        PROVE  posting'[s].draft.entries[b] = <<>>
    <3>1. lock[b] # s
      BY <1>4, <1>21, <2>2, NoOwnerAssumption
    <3>2. posting[s].draft.entries[b] = <<>>
      BY <3>1, Types DEF DraftInv
    <3>3. s = t => b # a
      BY <1>21, <2>2
    <3> QED
      BY <1>17, <1>19, <1>20, <3>2, <3>3, PostingNext DEF draft
  <2> QED
    BY <2>1, <2>2 DEF DraftInv
<1> QED
  BY <1>22, <1>23, <1>24 DEF IInv

\* A transaction ends, and its posting returns.
Ends(t, result) ==
    /\ t \in Postings /\ result \in Results
    /\ Unlock(t) /\ Return(t, result)
    /\ faults' \in 0..MaxFaults

\* It is committed, or it leaves nothing behind.
Commits(t, result) == Ends(t, result) /\ book' = Committed(t)
Undoes(t, result) == Ends(t, result) /\ book' = book

\* How the actions end a transaction.
LEMMA EndCases ==
    ASSUME IInv, NEW t \in Postings
    PROVE  /\ Commit(t) => Commits(t, "posted")
           /\ EntryFails(t) \/ Fail(t) \/ Victim(t) => Undoes(t, "error")
           /\ CommitUnsure(t) => Commits(t, "unsure") \/ Undoes(t, "unsure")
<1>1. Commit(t) => Commits(t, "posted")
  BY ResultNames, Types DEF Commit, Commits, Ends
<1>2. EntryFails(t) \/ Fail(t) \/ Victim(t) => Undoes(t, "error")
  BY ResultNames, Types DEF EntryFails, Fail, Victim, Rollback, Undoes, Ends
<1>3. CommitUnsure(t) => Commits(t, "unsure") \/ Undoes(t, "unsure")
  BY ResultNames, Types DEF CommitUnsure, Commits, Undoes, Ends
<1> QED
  BY <1>1, <1>2, <1>3

\* The draft of an account that was locked goes on where the books end.
LEMMA CommitInv ==
    ASSUME IInv, NEW t \in Postings, NEW result, Commits(t, result)
    PROVE  IInv'
<1> DEFINE draft == posting[t].draft
<1>1. /\ book' = [balance |-> [a \in Accounts |->
                                  IF a \in Owned(t) THEN draft.balance[a] ELSE book.balance[a]],
                  entries |-> [a \in Accounts |-> book.entries[a] \o draft.entries[a]]]
      /\ Unlock(t) /\ Return(t, result) /\ faults' \in 0..MaxFaults /\ result \in Results
  BY DEF Commits, Ends, Committed
<1>2. draft \in Book
  BY Types DEF PostingRecord
<1> HIDE DEF draft
<1>3. ASSUME NEW a \in Accounts
      PROVE  /\ book'.balance[a] = IF lock[a] = t THEN draft.balance[a] ELSE book.balance[a]
             /\ book'.entries[a] = book.entries[a] \o draft.entries[a]
             /\ book'.balance[a] \in Int /\ book'.entries[a] \in Seq(Row)
             /\ lock[a] # t => book'.entries[a] = book.entries[a]
             /\ Chain(a, 0, book'.entries[a], book'.balance[a])
  <2>1. /\ book'.balance[a] = IF lock[a] = t THEN draft.balance[a] ELSE book.balance[a]
        /\ book'.entries[a] = book.entries[a] \o draft.entries[a]
    BY <1>1 DEF Owned
  <2>2. /\ book.balance[a] \in Int /\ book.entries[a] \in Seq(Row)
        /\ draft.balance[a] \in Int /\ draft.entries[a] \in Seq(Row)
        /\ Chain(a, 0, book.entries[a], book.balance[a])
    BY <1>2, Types DEF Book, BookInv
  <2>3. CASE lock[a] = t
    <3>1. Chain(a, book.balance[a], draft.entries[a], draft.balance[a])
      BY <2>3, Types DEF DraftInv, draft
    <3> QED
      BY <2>1, <2>2, <2>3, <3>1, ChainConcat
  <2>4. CASE lock[a] # t
    <3>1. draft.entries[a] = <<>>
      BY <2>4, Types DEF DraftInv, draft
    <3>2. book.entries[a] \o draft.entries[a] = book.entries[a]
      BY <2>2, <3>1, ConcatEmptySeq
    <3> QED
      BY <2>1, <2>2, <2>4, <3>2
  <2> QED
    BY <2>3, <2>4, <2>1
<1>4. book' \in Book
  <2>1. /\ book'.balance \in [Accounts -> Int] /\ book'.entries \in [Accounts -> Seq(Row)]
        /\ book' = [balance |-> book'.balance, entries |-> book'.entries]
    BY <1>1, <1>3
  <2> QED
    BY <2>1 DEF Book
<1>5. PICK u : Becomes(t, u) /\ u.draft = EmptyBook
  BY <1>1, ReturnBecomes
<1>6. RecordsOK'
  BY <1>1, <1>4, <1>5, PostingNext, UnlockType, Types DEF RecordsOK
<1>7. BookInv'
  BY <1>3 DEF BookInv
<1>8. DraftInv'
  <2>1. ASSUME NEW s \in Postings, NEW b \in Accounts, s # t
        PROVE  IF lock'[b] = s
               THEN /\ posting'[s].pc = "entries"
                    /\ Chain(b, book'.balance[b], posting'[s].draft.entries[b], posting'[s].draft.balance[b])
               ELSE posting'[s].draft.entries[b] = <<>>
    <3>1. posting'[s] = posting[s] /\ (lock'[b] = s <=> lock[b] = s)
      BY <1>1, <1>5, <2>1, PostingNext, UnlockType, NoOwnerAssumption
    <3>2. lock[b] = s => book'.balance[b] = book.balance[b]
      BY <1>3, <2>1
    <3> QED
      BY <3>1, <3>2, Types DEF DraftInv
  <2>2. ASSUME NEW b \in Accounts
        PROVE  lock'[b] # t /\ posting'[t].draft.entries[b] = <<>>
    BY <1>1, <1>5, PostingNext, UnlockType, NoOwnerAssumption, EmptyBookType
  <2> QED
    BY <2>1, <2>2 DEF DraftInv
<1> QED
  BY <1>6, <1>7, <1>8 DEF IInv

\* A transaction that is rolled back leaves nothing behind.
LEMMA RollbackInv ==
    ASSUME IInv, NEW t \in Postings, NEW result, Undoes(t, result)
    PROVE  IInv'
<1>1. /\ Unlock(t) /\ Return(t, result) /\ book' = book
      /\ faults' \in 0..MaxFaults /\ result \in Results
  BY DEF Undoes, Ends
<1>2. PICK u : Becomes(t, u) /\ u.draft = EmptyBook
  BY <1>1, ReturnBecomes
<1>3. RecordsOK'
  BY <1>1, <1>2, PostingNext, UnlockType, Types DEF RecordsOK
<1>4. BookInv'
  BY <1>1, Types DEF BookInv
<1>5. DraftInv'
  <2>1. ASSUME NEW s \in Postings, NEW b \in Accounts, s # t
        PROVE  posting'[s] = posting[s] /\ (lock'[b] = s <=> lock[b] = s)
    BY <1>1, <1>2, <2>1, PostingNext, UnlockType, NoOwnerAssumption
  <2>2. ASSUME NEW b \in Accounts
        PROVE  lock'[b] # t /\ posting'[t].draft.entries[b] = <<>>
    BY <1>1, <1>2, PostingNext, UnlockType, NoOwnerAssumption, EmptyBookType
  <2> QED
    BY <1>1, <2>1, <2>2, Types DEF DraftInv
<1> QED
  BY <1>3, <1>4, <1>5 DEF IInv

\* Every step keeps the invariant.
LEMMA StepInv == IInv /\ [Next]_vars => IInv'
<1> SUFFICES ASSUME IInv, [Next]_vars PROVE IInv'
  OBVIOUS
<1>1. ASSUME NEW t \in Postings, Begin(t) \/ Step(t) \/ CommitUnsure(t) \/ Fail(t) \/ Victim(t)
      PROVE  IInv'
  <2>1. CASE Commit(t) \/ EntryFails(t) \/ Fail(t) \/ Victim(t) \/ CommitUnsure(t)
    BY <2>1, EndCases, CommitInv, RollbackInv
  <2> QED
    BY <1>1, <2>1, BeginInv, WriteEntryInv DEF Step
<1>2. CASE UNCHANGED vars
  BY <1>2 DEF vars, IInv, RecordsOK, BookInv, DraftInv
<1> QED
  BY <1>1, <1>2 DEF Next

\* The invariant holds in every state.
LEMMA Invariant == Spec => []IInv
BY InitInv, StepInv, PTL DEF Spec

-----------------------------------------------------------------------------

\* Books, locks and drafts keep their types.
THEOREM LedgerTypes == Spec => []TypeOK
<1>1. IInv => TypeOK
  BY DEF IInv, RecordsOK, TypeOK, IsBook, Book, PostingRecord
<1> QED
  BY <1>1, Invariant, PTL

\* The running balances that PostLedgerTransaction writes with its entries
\* are those of the books, whichever postings lock, wait, fail, are chosen
\* as the victim of a deadlock and commit in between.
THEOREM ChainsUnbroken == Spec => []RunningChain
<1>1. ASSUME IInv
      PROVE  RunningChain
  <2>1. ASSUME NEW a \in Accounts
        PROVE  /\ DOMAIN book.entries[a] = 1..Len(book.entries[a])
               /\ Chain(a, 0, book.entries[a], book.balance[a])
    <3>1. book.entries[a] \in Seq(Row)
      BY <1>1, Types DEF Book
    <3> QED
      BY <1>1, <3>1, LenProperties, Types DEF BookInv
  <2> QED
    BY <2>1 DEF RunningChain, Chain, Before
<1> QED
  BY <1>1, Invariant, PTL

-----------------------------------------------------------------------------
(* Entries posted one after the other.                                       *)

Posted(b, e) == PostEntry(b, e.account, e.debit, e.credit)

\* f folds the entries es over each set of their positions, in order.
Folding(f, base, es, S) ==
    f = [s \in SUBSET S |-> IF s = {} THEN base ELSE Posted(f[s \ {Max(s)}], es[Max(s)])]

\* The fold that LedgerSpec posts a request with is one of these functions.
LEMMA FoldOfFolding ==
    ASSUME NEW es, NEW base
    PROVE Atomic!PostAll(base, es) = (CHOOSE f : Folding(f, base, es, DOMAIN es))[DOMAIN es]
BY DEF Atomic!PostAll, Atomic!FoldLeft, Atomic!MapThenFoldSet, Folding, Atomic!Max, Max, Posted, PostEntry, NewBalance, AccountType, Atomic!PostEntry, Atomic!NewBalance, Atomic!AccountType

\* The code and LedgerSpec add up a request in the same way.
LEMMA SameTotal == \A request, side : Total(request, side) = Atomic!Total(request, side)
BY DEF Total, Atomic!Total, FoldLeft, Atomic!FoldLeft, MapThenFoldSet, Atomic!MapThenFoldSet, Max, Atomic!Max

Less == {ss \in Nat \X Nat : ss[1] < ss[2]}

\* A set of numbers that is not empty has a least one.
LEMMA LeastNumber ==
    ASSUME NEW T \in SUBSET Nat, T # {}
    PROVE  \E n \in T : \A m \in T : n <= m
<1>1. IsWellFoundedOn(OpToRel(<, Nat), Nat)
  BY NatLessThanWellFounded
<1>2. IsWellFoundedOn(Less, Nat)
  BY <1>1, Zenon DEF OpToRel, Less
<1>3. PICK n \in T : \A m \in T : ~ (<<m, n>> \in Less)
  BY <1>2, WFMin
<1>4. ASSUME NEW m \in T
      PROVE  n <= m
  <2>1. n \in Nat /\ m \in Nat
    OBVIOUS
  <2>2. <<m, n>> \in Less <=> m < n
    BY <2>1 DEF Less
  <2> QED
    BY <1>3, <2>1, <2>2
<1> QED
  BY <1>4

\* books leads from base through the first n entries, one posted after the other.
Built(books, base, es, n) ==
    /\ books \in [0..n -> Book]
    /\ books[0] = base
    /\ \A i \in 1..n : books[i] = Posted(books[i - 1], es[i])

\* A set of the first n + 1 numbers with the last one has it as its maximum.
LEMMA MaxOfInterval ==
    ASSUME NEW n \in Nat, NEW s \in SUBSET (1..(n + 1)), n + 1 \in s
    PROVE  Max(s) = n + 1
<1>1. \A y \in s : n + 1 >= y
  OBVIOUS
<1>2. Max(s) \in s /\ \A y \in s : Max(s) >= y
  BY <1>1 DEF Max
<1>3. PICK m : m = Max(s)
  OBVIOUS
<1>4. m \in 1..(n + 1) /\ m >= n + 1
  BY <1>2, <1>3
<1> QED
  BY <1>3, <1>4

\* There is a fold over any number of entries.
LEMMA FoldingExists ==
    ASSUME NEW base, NEW es, NEW n \in Nat
    PROVE  \E f : Folding(f, base, es, 1..n)
<1> DEFINE T == {m \in Nat : ~ \E f : Folding(f, base, es, 1..m)}
<1> SUFFICES ASSUME T # {}
             PROVE  FALSE
  OBVIOUS
<1>1. PICK m \in T : \A k \in T : m <= k
  BY LeastNumber
<1>2. CASE m = 0
  <2> DEFINE f == [s \in SUBSET (1..0) |-> base]
  <2>1. \A s \in SUBSET (1..0) : s = {}
    OBVIOUS
  <2>2. f = [s \in SUBSET (1..0) |-> IF s = {} THEN base ELSE Posted(f[s \ {Max(s)}], es[Max(s)])]
    BY <2>1
  <2> HIDE DEF f
  <2>3. Folding(f, base, es, 1..0)
    BY <2>2 DEF Folding
  <2> QED
    BY <1>1, <1>2, <2>3
<1>3. CASE m # 0
  <2>1. PICK k \in Nat : m = k + 1
    <3>1. m - 1 \in Nat /\ m = (m - 1) + 1
      BY <1>1, <1>3
    <3> QED
      BY <3>1
  <2>2. k \notin T
    BY <1>1, <2>1
  <2>3. PICK f : Folding(f, base, es, 1..k)
    BY <2>2
  <2> DEFINE g == [s \in SUBSET (1..(k + 1)) |->
                     IF k + 1 \in s THEN Posted(f[s \ {k + 1}], es[k + 1]) ELSE f[s]]
  <2> DEFINE h(s) == IF s = {} THEN base ELSE Posted(g[s \ {Max(s)}], es[Max(s)])
  <2>4. ASSUME NEW s \in SUBSET (1..(k + 1))
        PROVE  g[s] = h(s)
    <3>1. ASSUME NEW z \in SUBSET (1..k)
          PROVE  g[z] = f[z]
      <4>1. z \in SUBSET (1..(k + 1)) /\ k + 1 \notin z
        OBVIOUS
      <4> QED
        BY <4>1
    <3>2. CASE k + 1 \in s
      <4>1. Max(s) = k + 1 /\ s # {} /\ s \ {k + 1} \in SUBSET (1..k)
        BY <3>2, MaxOfInterval
      <4>2. g[s \ {k + 1}] = f[s \ {k + 1}]
        BY <3>1, <4>1
      <4>3. g[s] = Posted(f[s \ {k + 1}], es[k + 1])
        BY <3>2
      <4> HIDE DEF g
      <4> QED
        BY <4>1, <4>2, <4>3
    <3>3. CASE k + 1 \notin s
      <4>1. s \in SUBSET (1..k) /\ s \ {Max(s)} \in SUBSET (1..k)
        <5>1. \A i \in s : i \in 1..(k + 1) /\ i # k + 1
          BY <3>3
        <5>2. s \in SUBSET (1..k)
          BY <5>1
        <5> QED
          BY <5>2
      <4>2. g[s] = f[s] /\ g[s \ {Max(s)}] = f[s \ {Max(s)}]
        BY <3>1, <4>1
      <4>3. f[s] = IF s = {} THEN base ELSE Posted(f[s \ {Max(s)}], es[Max(s)])
        BY <2>3, <4>1 DEF Folding
      <4> HIDE DEF g
      <4> QED
        BY <4>2, <4>3
    <3> QED
      BY <3>2, <3>3
  <2>5. g = [s \in SUBSET (1..(k + 1)) |-> g[s]]
    OBVIOUS
  <2> HIDE DEF g
  <2>6. g = [s \in SUBSET (1..(k + 1)) |-> h(s)]
    BY <2>4, <2>5
  <2>7. Folding(g, base, es, 1..(k + 1))
    BY <2>6 DEF Folding
  <2> QED
    BY <1>1, <2>1, <2>7
<1> QED
  BY <1>2, <1>3

\* A fold goes through the books that lead to its result.
LEMMA FoldingIsBuilt ==
    ASSUME NEW base, NEW es, NEW n \in Nat, NEW books, Built(books, base, es, n),
           NEW f, Folding(f, base, es, 1..n)
    PROVE  f[1..n] = books[n]
<1> DEFINE T == {m \in 0..n : f[1..m] # books[m]}
<1>1. T = {}
  <2> SUFFICES ASSUME T # {}
               PROVE  FALSE
    OBVIOUS
  <2>1. PICK m \in T : \A k \in T : m <= k
    <3>1. T \in SUBSET Nat
      OBVIOUS
    <3> QED
      BY <3>1, LeastNumber
  <2>2. m \in 0..n /\ f[1..m] # books[m]
    OBVIOUS
  <2>3. 1..m \in SUBSET (1..n)
    BY <2>2
  <2>4. f[1..m] = IF 1..m = {} THEN base ELSE Posted(f[(1..m) \ {Max(1..m)}], es[Max(1..m)])
    BY <2>3 DEF Folding
  <2>5. CASE m = 0
    <3>1. 1..m = {}
      BY <2>5
    <3> QED
      BY <2>2, <2>4, <2>5, <3>1 DEF Built
  <2>6. CASE m # 0
    <3>1. PICK k \in Nat : m = k + 1
      <4>1. m - 1 \in Nat /\ m = (m - 1) + 1
        BY <2>2, <2>6
      <4> QED
        BY <4>1
    <3>2. k \in 0..n /\ k \notin T /\ m \in 1..n /\ m - 1 = k
      BY <2>1, <2>2, <3>1
    <3>3. f[1..k] = books[k]
      BY <3>2
    <3>4. Max(1..m) = m /\ 1..m # {} /\ (1..m) \ {m} = 1..k
      <4>1. k + 1 \in 1..(k + 1)
        BY <3>1
      <4>2. Max(1..(k + 1)) = k + 1
        BY <4>1, MaxOfInterval
      <4>3. (1..(k + 1)) \ {k + 1} = 1..k
        BY <3>1
      <4> QED
        BY <3>1, <4>1, <4>2, <4>3
    <3>5. f[1..m] = Posted(books[k], es[m])
      BY <2>4, <3>3, <3>4
    <3>6. books[m] = Posted(books[k], es[m])
      BY <3>2 DEF Built
    <3> QED
      BY <2>2, <3>5, <3>6
  <2> QED
    BY <2>5, <2>6
<1> QED
  BY <1>1

\* What LedgerSpec makes of the books when it posts a request at once.
LEMMA PostAllIsBuilt ==
    ASSUME NEW base, NEW es, NEW n \in Nat, DOMAIN es = 1..n, NEW books, Built(books, base, es, n)
    PROVE  Atomic!PostAll(base, es) = books[n]
<1>1. PICK f : f = CHOOSE g : Folding(g, base, es, 1..n)
  OBVIOUS
<1>2. Folding(f, base, es, 1..n)
  BY <1>1, FoldingExists
<1>3. Atomic!PostAll(base, es) = f[1..n]
  BY <1>1, FoldOfFolding
<1> QED
  BY <1>2, <1>3, FoldingIsBuilt

-----------------------------------------------------------------------------
(* A posting underway.                                                       *)

\* The row that an entry adds to its account at a balance.
EntryRow(e, balance) ==
    [debit |-> e.debit, credit |-> e.credit,
     running |-> NewBalance(e.account, balance, e.debit, e.credit)]

\* The books y are x with one more row of account a.
Extends(y, x, a, row) ==
    /\ y \in Book
    /\ y.balance[a] = row.running /\ y.entries[a] = Append(x.entries[a], row)
    /\ \A c \in Accounts \ {a} : y.balance[c] = x.balance[c] /\ y.entries[c] = x.entries[c]

\* The books m are b with what posting t has written to the accounts it has
\* locked, its draft d.
Merges(m, b, l, t, d) ==
    /\ m \in Book
    /\ \A a \in Accounts : /\ l[a] = t => m.balance[a] = d.balance[a]
                           /\ l[a] # t => m.balance[a] = b.balance[a]
                           /\ m.entries[a] = b.entries[a] \o d.entries[a]

\* Posting t, which is u, has locked the accounts of the first n entries of
\* request, written them in this order to the books b, and has the others to do.
Underway(b, l, t, u, request, n) ==
    /\ n \in 0..Len(request) /\ Len(u.todo) = Len(request) - n
    /\ \A i \in 1..Len(u.todo) : u.todo[i] = request[n + i]
    /\ \A i \in 1..n : /\ request[i].account \in Accounts /\ l[request[i].account] = t
                       /\ Storable(request[i])
    /\ \E books : Built(books, b, request, n) /\ Merges(books[n], b, l, t, u.draft)

PostingInv ==
    \A t \in Postings : posting[t].pc = "entries" =>
        \E request \in Requests, n \in Nat :
            Valid(request) /\ Underway(book, lock, t, posting[t], request, n)

\* Books with the same balances and rows are the same.
LEMMA SameBook ==
    ASSUME NEW x \in Book, NEW y \in Book,
           \A a \in Accounts : x.balance[a] = y.balance[a] /\ x.entries[a] = y.entries[a]
    PROVE  x = y
<1>1. x.balance = y.balance /\ x.entries = y.entries
  BY DEF Book
<1> QED
  BY <1>1 DEF Book

\* Posting an entry adds its row to its account.
LEMMA PostedExtends ==
    ASSUME NEW x \in Book, NEW e, e.account \in Accounts, e.debit \in Nat, e.credit \in Nat
    PROVE  Extends(Posted(x, e), x, e.account, EntryRow(e, x.balance[e.account]))
<1>1. PICK a : a = e.account
  OBVIOUS
<1>2. PICK nb : nb = NewBalance(a, x.balance[a], e.debit, e.credit)
  OBVIOUS
<1>3. PICK row : row = [debit |-> e.debit, credit |-> e.credit, running |-> nb]
  OBVIOUS
<1>4. x.balance[a] \in Int /\ x.entries[a] \in Seq(Row) /\ a \in Accounts
  BY <1>1 DEF Book
<1>5. nb \in Int /\ row \in Row /\ row.running = nb
  <2>1. nb \in Int
    BY <1>1, <1>2, <1>4, NewBalanceType
  <2> QED
    BY <1>3, <2>1 DEF Row
<1>6. Append(x.entries[a], row) \in Seq(Row)
  BY <1>4, <1>5, AppendProperties
<1>7. PICK y : y = [balance |-> [x.balance EXCEPT ![a] = nb],
                    entries |-> [x.entries EXCEPT ![a] = Append(x.entries[a], row)]]
  OBVIOUS
<1>8. y = Posted(x, e)
  BY <1>1, <1>2, <1>3, <1>7 DEF Posted, PostEntry
<1>9. x.balance \in [Accounts -> Int] /\ x.entries \in [Accounts -> Seq(Row)]
  BY DEF Book
<1>10. Extends(y, x, a, row)
  BY <1>4, <1>5, <1>6, <1>7, <1>9 DEF Book, Extends
<1>11. row = EntryRow(e, x.balance[e.account])
  BY <1>1, <1>2, <1>3 DEF EntryRow
<1> QED
  BY <1>1, <1>8, <1>10, <1>11

\* The books that a commit computes.
LEMMA MergedMerges ==
    ASSUME NEW b \in Book, NEW d \in Book, NEW l, NEW t, NEW m,
           m = [balance |-> [a \in Accounts |-> IF l[a] = t THEN d.balance[a] ELSE b.balance[a]],
                entries |-> [a \in Accounts |-> b.entries[a] \o d.entries[a]]]
    PROVE  Merges(m, b, l, t, d)
<1>1. \A a \in Accounts : /\ b.entries[a] \o d.entries[a] \in Seq(Row)
                          /\ b.balance[a] \in Int /\ d.balance[a] \in Int
  <2> SUFFICES ASSUME NEW a \in Accounts
               PROVE  /\ b.entries[a] \o d.entries[a] \in Seq(Row)
                      /\ b.balance[a] \in Int /\ d.balance[a] \in Int
    OBVIOUS
  <2>1. b.entries[a] \in Seq(Row) /\ d.entries[a] \in Seq(Row) /\ b.balance[a] \in Int /\ d.balance[a] \in Int
    BY DEF Book
  <2> QED
    BY <2>1, ConcatProperties
<1> QED
  BY <1>1 DEF Merges, Book

\* There is one way to merge a draft into the books.
LEMMA MergesUnique ==
    ASSUME NEW b, NEW l, NEW t, NEW d, NEW x, NEW y, Merges(x, b, l, t, d), Merges(y, b, l, t, d)
    PROVE  x = y
<1>1. \A a \in Accounts : x.balance[a] = y.balance[a] /\ x.entries[a] = y.entries[a]
  BY DEF Merges
<1> QED
  BY <1>1, SameBook DEF Merges

\* The books at the start of a request, before it has locked anything.
LEMMA BeginUnderway ==
    ASSUME NEW b \in Book, NEW l, NEW t, NEW u,
           \A a \in Accounts : l[a] # t /\ u.draft.entries[a] = <<>>,
           NEW request \in Seq(AllEntries), u.todo = request
    PROVE  Underway(b, l, t, u, request, 0)
<1>1. \A a \in Accounts : b.entries[a] \o u.draft.entries[a] = b.entries[a]
  <2>1. \A a \in Accounts : b.entries[a] \in Seq(Row)
    BY DEF Book
  <2> QED
    BY <2>1, ConcatEmptySeq
<1>2. Merges(b, b, l, t, u.draft)
  BY <1>1 DEF Merges
<1> DEFINE books == [i \in 0..0 |-> b]
<1>3. Built(books, b, request, 0) /\ books[0] = b
  BY DEF Built
<1> HIDE DEF books
<1>4. Len(request) \in Nat
  BY LenProperties
<1> QED
  BY <1>2, <1>3, <1>4 DEF Underway

\* The books x in the accounts that posting t has locked, c in the others.
Over(x, c, l, t) ==
    [balance |-> [a \in Accounts |-> IF l[a] = t THEN x.balance[a] ELSE c.balance[a]],
     entries |-> [a \in Accounts |-> IF l[a] = t THEN x.entries[a] ELSE c.entries[a]]]

\* These are books.
LEMMA OverFacts ==
    ASSUME NEW x \in Book, NEW c \in Book, NEW l, NEW t
    PROVE  /\ Over(x, c, l, t) \in Book
           /\ \A a \in Accounts :
                /\ l[a] = t => /\ Over(x, c, l, t).balance[a] = x.balance[a]
                               /\ Over(x, c, l, t).entries[a] = x.entries[a]
                /\ l[a] # t => /\ Over(x, c, l, t).balance[a] = c.balance[a]
                               /\ Over(x, c, l, t).entries[a] = c.entries[a]
BY DEF Book, Over

\* e is an entry of an account that posting t has locked.
LockedEntry(e, l, t) ==
    e.account \in Accounts /\ l[e.account] = t /\ e.debit \in Nat /\ e.credit \in Nat

\* An entry of a locked account is posted to them as it is to x.
LEMMA OverPosted ==
    ASSUME NEW x \in Book, NEW c \in Book, NEW l, NEW t,
           NEW e, LockedEntry(e, l, t)
    PROVE  Over(Posted(x, e), c, l, t) = Posted(Over(x, c, l, t), e)
<1>1. PICK y : y = Posted(x, e)
  OBVIOUS
<1>2. PICK z : z = Over(x, c, l, t)
  OBVIOUS
<1>3. PICK w : w = Posted(z, e)
  OBVIOUS
<1>4. PICK v : v = Over(y, c, l, t)
  OBVIOUS
<1>5. PICK a : a = e.account
  OBVIOUS
<1>0. a \in Accounts /\ l[a] = t /\ e.debit \in Nat /\ e.credit \in Nat
  BY <1>5 DEF LockedEntry
<1>6. PICK row : row = EntryRow(e, x.balance[a])
  OBVIOUS
<1>7. Extends(y, x, a, row)
  BY <1>0, <1>1, <1>5, <1>6, PostedExtends
<1>8. /\ z \in Book
      /\ \A i \in Accounts :
          /\ l[i] = t => z.balance[i] = x.balance[i] /\ z.entries[i] = x.entries[i]
          /\ l[i] # t => z.balance[i] = c.balance[i] /\ z.entries[i] = c.entries[i]
  BY <1>2, OverFacts
<1>9. z.balance[a] = x.balance[a] /\ z.entries[a] = x.entries[a]
  BY <1>0, <1>8
<1>10. row = EntryRow(e, z.balance[e.account])
  BY <1>5, <1>6, <1>9
<1>11. Extends(w, z, a, row)
  BY <1>0, <1>3, <1>5, <1>8, <1>10, PostedExtends
<1>12. y \in Book
  BY <1>7 DEF Extends
<1>13. /\ v \in Book
       /\ \A i \in Accounts :
           /\ l[i] = t => v.balance[i] = y.balance[i] /\ v.entries[i] = y.entries[i]
           /\ l[i] # t => v.balance[i] = c.balance[i] /\ v.entries[i] = c.entries[i]
  BY <1>4, <1>12, OverFacts
<1>14. ASSUME NEW i \in Accounts
       PROVE  v.balance[i] = w.balance[i] /\ v.entries[i] = w.entries[i]
  <2>1. CASE i = a
    BY <1>0, <1>7, <1>9, <1>11, <1>13, <2>1 DEF Extends
  <2>2. CASE i # a
    <3>1. /\ y.balance[i] = x.balance[i] /\ y.entries[i] = x.entries[i]
          /\ w.balance[i] = z.balance[i] /\ w.entries[i] = z.entries[i]
      BY <1>7, <1>11, <2>2 DEF Extends
    <3> QED
      BY <1>8, <1>13, <3>1
  <2> QED
    BY <2>1, <2>2
<1>15. v = w
  BY <1>11, <1>13, <1>14, SameBook DEF Extends
<1> QED
  BY <1>1, <1>2, <1>3, <1>4, <1>15

\* Nobody else's commit touches the accounts that a posting has locked.
LEMMA OthersUnderway ==
    ASSUME NEW b \in Book, NEW c \in Book, NEW l, NEW k, NEW t, NEW u,
           \A a \in Accounts : /\ l[a] = t <=> k[a] = t
                               /\ l[a] = t => c.balance[a] = b.balance[a] /\ c.entries[a] = b.entries[a]
                               /\ l[a] # t => u.draft.entries[a] = <<>>,
           NEW request \in Seq(AllEntries), NEW n, Underway(b, l, t, u, request, n)
    PROVE  Underway(c, k, t, u, request, n)
<1>1. PICK books : Built(books, b, request, n) /\ Merges(books[n], b, l, t, u.draft)
  BY DEF Underway
<1>2. n \in Nat /\ n \in 0..Len(request) /\ Len(request) \in Nat
  BY LenProperties DEF Underway
<1>3. Over(b, c, l, t) = c
  <2>1. PICK z : z = Over(b, c, l, t)
    OBVIOUS
  <2>2. /\ z \in Book
        /\ \A i \in Accounts :
            /\ l[i] = t => z.balance[i] = b.balance[i] /\ z.entries[i] = b.entries[i]
            /\ l[i] # t => z.balance[i] = c.balance[i] /\ z.entries[i] = c.entries[i]
    BY <2>1, OverFacts
  <2>3. \A i \in Accounts : z.balance[i] = c.balance[i] /\ z.entries[i] = c.entries[i]
    BY <2>2
  <2> QED
    BY <2>1, <2>2, <2>3, SameBook
<1>4. \A i \in 0..n : books[i] \in Book
  BY <1>1 DEF Built
<1>5. ASSUME NEW i \in 1..n
      PROVE  Over(books[i], c, l, t) = Posted(Over(books[i - 1], c, l, t), request[i])
  <2>1. i - 1 \in 0..n /\ i \in 1..Len(request)
    BY <1>2
  <2>2. PICK x : x = books[i - 1]
    OBVIOUS
  <2>3. PICK e : e = request[i]
    OBVIOUS
  <2>4. x \in Book /\ books[i] = Posted(x, e)
    BY <1>1, <1>4, <2>1, <2>2, <2>3 DEF Built
  <2>5. e \in AllEntries
    BY <2>1, <2>3, ElementOfSeq
  <2>6. e.account \in Accounts /\ l[e.account] = t /\ Storable(e)
    BY <2>3 DEF Underway
  <2>7. LockedEntry(e, l, t)
    BY <2>5, <2>6, RequestTypes DEF Storable, LockedEntry
  <2>8. Over(Posted(x, e), c, l, t) = Posted(Over(x, c, l, t), e)
    BY <2>4, <2>7, OverPosted
  <2> QED
    BY <2>2, <2>3, <2>4, <2>8
<1> DEFINE new == [i \in 0..n |-> Over(books[i], c, l, t)]
<1>6. Built(new, c, request, n)
  <2>1. \A i \in 0..n : Over(books[i], c, l, t) \in Book /\ new[i] = Over(books[i], c, l, t)
    BY <1>4, OverFacts
  <2>2. new \in [0..n -> Book]
    BY <2>1
  <2>3. new[0] = c
    BY <1>1, <1>2, <1>3 DEF Built
  <2>4. \A i \in 1..n : new[i] = Posted(new[i - 1], request[i])
    <3>1. \A i \in 1..n : i \in 0..n /\ i - 1 \in 0..n
      BY <1>2
    <3> HIDE DEF new
    <3> QED
      BY <1>5, <2>1, <3>1
  <2> HIDE DEF new
  <2> QED
    BY <2>2, <2>3, <2>4 DEF Built
<1>7. Merges(new[n], c, k, t, u.draft)
  <2>1. PICK m : m = books[n]
    OBVIOUS
  <2>2. PICK v : v = Over(m, c, l, t)
    OBVIOUS
  <2>3. Merges(m, b, l, t, u.draft)
    BY <1>1, <2>1
  <2>4. /\ v \in Book
        /\ \A i \in Accounts :
            /\ l[i] = t => v.balance[i] = m.balance[i] /\ v.entries[i] = m.entries[i]
            /\ l[i] # t => v.balance[i] = c.balance[i] /\ v.entries[i] = c.entries[i]
    BY <2>2, <2>3, OverFacts DEF Merges
  <2>5. \A i \in Accounts : c.entries[i] \o <<>> = c.entries[i]
    <3>1. \A i \in Accounts : c.entries[i] \in Seq(Row)
      BY DEF Book
    <3> QED
      BY <3>1, ConcatEmptySeq
  <2>6. ASSUME NEW i \in Accounts
        PROVE  /\ k[i] = t => v.balance[i] = u.draft.balance[i]
               /\ k[i] # t => v.balance[i] = c.balance[i]
               /\ v.entries[i] = c.entries[i] \o u.draft.entries[i]
    <3>1. CASE l[i] = t
      BY <2>3, <2>4, <3>1 DEF Merges
    <3>2. CASE l[i] # t
      BY <2>4, <2>5, <3>2
    <3> QED
      BY <3>1, <3>2
  <2>7. Merges(v, c, k, t, u.draft)
    BY <2>4, <2>6 DEF Merges
  <2>8. new[n] = v
    BY <1>2, <2>1, <2>2
  <2> QED
    BY <2>7, <2>8
<1> HIDE DEF new
<1>8. \A i \in 1..n : k[request[i].account] = t
  BY DEF Underway
<1> QED
  BY <1>6, <1>7, <1>8 DEF Underway

\* Rows that follow others may be appended one by one.
LEMMA ConcatAppend ==
    ASSUME NEW s \in Seq(Row), NEW r \in Seq(Row), NEW row \in Row
    PROVE  Append(s \o r, row) = s \o Append(r, row)
<1>1. Append(r, row) = r \o <<row>> /\ <<row>> \in Seq(Row) /\ s \o r \in Seq(Row)
  BY AppendIsConcat, ConcatProperties
<1>2. Append(s \o r, row) = (s \o r) \o <<row>>
  BY <1>1, AppendIsConcat
<1> QED
  BY <1>1, <1>2, ConcatAssociative

\* The posting u, with the locks l, writes its next entry e and is v, with the locks k.
Writes(b, l, k, t, u, v, e) ==
    /\ u.todo \in Seq(AllEntries) /\ u.todo # <<>> /\ e = Head(u.todo)
    /\ e.account \in Accounts /\ Storable(e)
    /\ k[e.account] = t
    /\ \A a \in Accounts \ {e.account} : k[a] = l[a]
    /\ v.todo = Tail(u.todo)
    /\ u.draft \in Book
    /\ l[e.account] # t => u.draft.entries[e.account] = <<>>
    /\ \E seen \in Book :
        /\ l[e.account] = t => seen.balance[e.account] = u.draft.balance[e.account]
        /\ l[e.account] # t => seen.balance[e.account] = b.balance[e.account]
        /\ \A a \in Accounts \ {e.account} : seen.balance[a] = u.draft.balance[a]
        /\ \A a \in Accounts : seen.entries[a] = u.draft.entries[a]
        /\ v.draft = Posted(seen, e)

\* What is written next comes after what is written, and is the next entry.
LEMMA NextEntry ==
    ASSUME NEW b, NEW l, NEW k, NEW t, NEW u, NEW v, NEW e, Writes(b, l, k, t, u, v, e),
           NEW request \in Seq(AllEntries), NEW n, Underway(b, l, t, u, request, n)
    PROVE  /\ n + 1 \in 0..Len(request) /\ e = request[n + 1] /\ n \in Nat
           /\ Len(v.todo) = Len(request) - (n + 1)
           /\ \A i \in 1..Len(v.todo) : v.todo[i] = request[n + 1 + i]
           /\ e.debit \in Nat /\ e.credit \in Nat
<1>1. PICK todo : todo = u.todo
  OBVIOUS
<1>2. PICK rest : rest = v.todo
  OBVIOUS
<1>3. todo \in Seq(AllEntries) /\ todo # <<>> /\ rest = Tail(todo) /\ e = Head(todo) /\ Storable(e)
  BY <1>1, <1>2 DEF Writes
<1>4. /\ Len(request) \in Nat /\ n \in 0..Len(request) /\ Len(todo) = Len(request) - n
      /\ \A i \in 1..Len(todo) : todo[i] = request[n + i]
  BY <1>1, LenProperties DEF Underway
<1>5. /\ Len(todo) \in Nat /\ Len(todo) # 0
      /\ e = todo[1] /\ e \in AllEntries /\ Len(rest) = Len(todo) - 1
      /\ \A i \in 1..Len(rest) : rest[i] = todo[i + 1]
  BY <1>3, HeadTailProperties, LenProperties, EmptySeq
<1>6. e = request[n + 1] /\ n + 1 \in 0..Len(request) /\ n \in Nat /\ Len(rest) = Len(request) - (n + 1)
  BY <1>4, <1>5
<1>7. ASSUME NEW i \in 1..Len(rest)
      PROVE  rest[i] = request[n + 1 + i]
  <2>1. i + 1 \in 1..Len(todo) /\ n + (i + 1) = n + 1 + i
    BY <1>4, <1>5
  <2> QED
    BY <1>4, <1>5, <2>1
<1>8. e.debit \in Nat /\ e.credit \in Nat
  BY <1>3, <1>5, RequestTypes DEF Storable
<1> QED
  BY <1>2, <1>6, <1>7, <1>8

\* Books that lead through n entries go on to the next one.
LEMMA BuiltMore ==
    ASSUME NEW n \in Nat, NEW base, NEW es, NEW books, Built(books, base, es, n),
           NEW y \in Book, y = Posted(books[n], es[n + 1])
    PROVE  \E more : Built(more, base, es, n + 1) /\ more[n + 1] = y
<1> DEFINE more == [i \in 0..(n + 1) |-> IF i = n + 1 THEN y ELSE books[i]]
<1>1. /\ more[n + 1] = y
      /\ \A i \in 0..n : more[i] = books[i] /\ books[i] \in Book
  BY DEF Built
<1>2. more \in [0..(n + 1) -> Book]
  BY DEF Built
<1> HIDE DEF more
<1>3. more[0] = base
  BY <1>1 DEF Built
<1>4. ASSUME NEW i \in 1..(n + 1)
      PROVE  more[i] = Posted(more[i - 1], es[i])
  <2>1. CASE i = n + 1
    <3>1. n \in 0..n /\ i - 1 = n
      BY <2>1
    <3> QED
      BY <1>1, <2>1, <3>1
  <2>2. CASE i # n + 1
    <3>1. i \in 1..n /\ i \in 0..n /\ i - 1 \in 0..n
      BY <2>2
    <3> QED
      BY <1>1, <3>1 DEF Built
  <2> QED
    BY <2>1, <2>2
<1> QED
  BY <1>1, <1>2, <1>3, <1>4 DEF Built

\* What is committed and the draft with one more entry are what they were with that entry.
LEMMA MergesMore ==
    ASSUME NEW b \in Book, NEW l, NEW k, NEW t, NEW u, NEW v, NEW e, Writes(b, l, k, t, u, v, e),
           e.debit \in Nat, e.credit \in Nat, NEW m, Merges(m, b, l, t, u.draft)
    PROVE  Posted(m, e) \in Book /\ Merges(Posted(m, e), b, k, t, v.draft)
<1>1. PICK a : a = e.account
  OBVIOUS
<1>2. PICK d : d = u.draft
  OBVIOUS
<1>3. PICK f : f = v.draft
  OBVIOUS
<1>4. PICK seen \in Book :
        /\ l[a] = t => seen.balance[a] = d.balance[a]
        /\ l[a] # t => seen.balance[a] = b.balance[a]
        /\ \A i \in Accounts \ {a} : seen.balance[i] = d.balance[i]
        /\ \A i \in Accounts : seen.entries[i] = d.entries[i]
        /\ f = Posted(seen, e)
  BY <1>1, <1>2, <1>3 DEF Writes
<1>5. a \in Accounts /\ k[a] = t /\ d \in Book /\ \A i \in Accounts \ {a} : k[i] = l[i]
  BY <1>1, <1>2 DEF Writes
<1>6. /\ m \in Book
      /\ \A i \in Accounts : /\ l[i] = t => m.balance[i] = d.balance[i]
                             /\ l[i] # t => m.balance[i] = b.balance[i]
                             /\ m.entries[i] = b.entries[i] \o d.entries[i]
  BY <1>2 DEF Merges
<1>7. m.balance[a] = seen.balance[a]
  BY <1>4, <1>5, <1>6
<1>8. PICK row : row = EntryRow(e, m.balance[a])
  OBVIOUS
<1>9. PICK y : y = Posted(m, e)
  OBVIOUS
<1>10. Extends(y, m, a, row)
  BY <1>1, <1>5, <1>6, <1>8, <1>9, PostedExtends
<1>11. Extends(f, seen, a, row)
  <2>1. row = EntryRow(e, seen.balance[e.account])
    BY <1>1, <1>7, <1>8
  <2> QED
    BY <1>1, <1>4, <1>5, <2>1, PostedExtends
<1>12. row \in Row
  <2>1. m.balance[a] \in Int
    BY <1>5, <1>6 DEF Book
  <2>2. NewBalance(a, m.balance[a], e.debit, e.credit) \in Int
    BY <1>5, <2>1, NewBalanceType
  <2> QED
    BY <1>1, <1>8, <2>2 DEF Row, EntryRow
<1>13. ASSUME NEW i \in Accounts
       PROVE  /\ k[i] = t => y.balance[i] = f.balance[i]
              /\ k[i] # t => y.balance[i] = b.balance[i]
              /\ y.entries[i] = b.entries[i] \o f.entries[i]
  <2>1. CASE i = a
    <3>1. y.balance[a] = f.balance[a]
      BY <1>10, <1>11 DEF Extends
    <3>2. y.entries[a] = Append(b.entries[a] \o d.entries[a], row) /\ f.entries[a] = Append(d.entries[a], row)
      BY <1>4, <1>5, <1>6, <1>10, <1>11 DEF Extends
    <3>3. b.entries[a] \in Seq(Row) /\ d.entries[a] \in Seq(Row)
      BY <1>5 DEF Book
    <3>4. Append(b.entries[a] \o d.entries[a], row) = b.entries[a] \o Append(d.entries[a], row)
      BY <1>12, <3>3, ConcatAppend
    <3>5. y.entries[a] = b.entries[a] \o f.entries[a]
      BY <3>2, <3>4
    <3> QED
      BY <1>5, <2>1, <3>1, <3>5
  <2>2. CASE i # a
    <3>1. /\ y.balance[i] = m.balance[i] /\ y.entries[i] = m.entries[i]
          /\ f.balance[i] = seen.balance[i] /\ f.entries[i] = seen.entries[i]
      BY <1>10, <1>11, <2>2 DEF Extends
    <3>2. seen.balance[i] = d.balance[i] /\ seen.entries[i] = d.entries[i] /\ k[i] = l[i]
      BY <1>4, <1>5, <2>2
    <3> QED
      BY <1>6, <3>1, <3>2
  <2> QED
    BY <2>1, <2>2
<1>14. y \in Book /\ Merges(y, b, k, t, f)
  BY <1>10, <1>13 DEF Merges, Extends
<1> QED
  BY <1>3, <1>9, <1>14

\* A posting that writes its next entry has one more of them underway.
LEMMA WriteUnderway ==
    ASSUME NEW b \in Book, NEW l, NEW k, NEW t, NEW u, NEW v, NEW e, Writes(b, l, k, t, u, v, e),
           NEW request \in Seq(AllEntries), NEW n, Underway(b, l, t, u, request, n)
    PROVE  Underway(b, k, t, v, request, n + 1)
<1>1. PICK books : Built(books, b, request, n) /\ Merges(books[n], b, l, t, u.draft)
  BY DEF Underway
<1>2. /\ n + 1 \in 0..Len(request) /\ e = request[n + 1] /\ n \in Nat
      /\ Len(v.todo) = Len(request) - (n + 1)
      /\ \A i \in 1..Len(v.todo) : v.todo[i] = request[n + 1 + i]
      /\ e.debit \in Nat /\ e.credit \in Nat
  BY NextEntry
<1>3. PICK m : m = books[n]
  OBVIOUS
<1>4. PICK y : y = Posted(m, e)
  OBVIOUS
<1>5. y \in Book /\ Merges(y, b, k, t, v.draft)
  BY <1>1, <1>2, <1>3, <1>4, MergesMore
<1>6. \E more : Built(more, b, request, n + 1) /\ more[n + 1] = y
  BY <1>1, <1>2, <1>3, <1>4, <1>5, BuiltMore
<1>7. ASSUME NEW i \in 1..(n + 1)
      PROVE  /\ request[i].account \in Accounts /\ k[request[i].account] = t /\ Storable(request[i])
  <2>1. CASE i = n + 1
    BY <1>2, <2>1 DEF Writes
  <2>2. CASE i # n + 1
    <3>1. i \in 1..n
      BY <1>2, <2>2
    <3>2. PICK c : c = request[i].account
      OBVIOUS
    <3>3. c \in Accounts /\ l[c] = t /\ Storable(request[i])
      BY <3>1, <3>2 DEF Underway
    <3>4. k[c] = t
      BY <3>3 DEF Writes
    <3> QED
      BY <3>2, <3>3, <3>4
  <2> QED
    BY <2>1, <2>2
<1> QED
  BY <1>2, <1>5, <1>6, <1>7 DEF Underway

-----------------------------------------------------------------------------
(* Every action keeps what the postings have underway.                       *)

\* A posting keeps what it has underway while others begin, write, commit and return.
LEMMA OtherPosting ==
    ASSUME IInv, PostingInv, NEW s \in Postings, posting'[s] = posting[s], book' \in Book,
           \A a \in Accounts : /\ lock[a] = s <=> lock'[a] = s
                               /\ lock[a] = s => /\ book'.balance[a] = book.balance[a]
                                                 /\ book'.entries[a] = book.entries[a],
           posting'[s].pc = "entries"
    PROVE  \E request \in Requests, n \in Nat :
               Valid(request) /\ Underway(book', lock', s, posting'[s], request, n)
<1>1. PICK request \in Requests, n \in Nat :
        Valid(request) /\ Underway(book, lock, s, posting[s], request, n)
  BY DEF PostingInv
<1>2. PICK u : u = posting[s]
  OBVIOUS
<1>3. PICK c : c = book'
  OBVIOUS
<1>4. PICK k : k = lock'
  OBVIOUS
<1>5. request \in Seq(AllEntries) /\ book \in Book /\ c \in Book
  BY <1>3, RequestTypes, Types
<1>6. \A a \in Accounts :
        /\ lock[a] = s <=> k[a] = s
        /\ lock[a] = s => c.balance[a] = book.balance[a] /\ c.entries[a] = book.entries[a]
        /\ lock[a] # s => u.draft.entries[a] = <<>>
  BY <1>2, <1>3, <1>4, Types DEF DraftInv
<1>7. Underway(c, k, s, u, request, n)
  BY <1>1, <1>2, <1>5, <1>6, OthersUnderway
<1> QED
  BY <1>1, <1>2, <1>3, <1>4, <1>7

\* A call that gets past the checks has its whole request ahead.
LEMMA BeginPosting ==
    ASSUME IInv, PostingInv, NEW t \in Postings, Begin(t)
    PROVE  PostingInv'
<1>1. UNCHANGED <<book, lock, faults>> /\ posting[t].pc = "idle"
  BY DEF Begin
<1>2. posting[t] \in PostingRecord /\ \A a \in Accounts : lock[a] # t
  BY <1>1, Types DEF DraftInv
<1>3. \A a \in Accounts : posting[t].draft.entries[a] = <<>>
  BY <1>2, Types DEF DraftInv
<1>4. PICK u : /\ Becomes(t, u)
               /\ u.pc = "entries" =>
                    \E request \in Requests, n \in Nat :
                        Valid(request) /\ Underway(book, lock, t, u, request, n)
  <2>1. PICK request \in Requests :
          IF Valid(request)
          THEN posting' = [posting EXCEPT ![t].pc = "entries", ![t].todo = request]
          ELSE Return(t, "error")
    BY DEF Begin
  <2>2. CASE Valid(request)
    <3>1. PICK v : v = [posting[t] EXCEPT !.pc = "entries", !.todo = request]
      OBVIOUS
    <3>2. request \in Seq(AllEntries) /\ book \in Book
      BY RequestTypes, Types
    <3>3. v \in PostingRecord /\ v.draft = posting[t].draft /\ v.todo = request
      BY <1>2, <3>1, <3>2 DEF PostingRecord
    <3>4. posting' = [posting EXCEPT ![t] = v]
      BY <2>1, <2>2, <3>1, Types
    <3>5. Underway(book, lock, t, v, request, 0)
      BY <1>2, <1>3, <3>2, <3>3, BeginUnderway
    <3> QED
      BY <2>2, <3>3, <3>4, <3>5 DEF Becomes
  <2>3. CASE ~Valid(request)
    <3>1. PICK v : Becomes(t, v) /\ v.pc = "error"
      BY <2>1, <2>3, ReturnBecomes, ResultNames
    <3> QED
      BY <3>1
  <2> QED
    BY <2>2, <2>3
<1>5. ASSUME NEW s \in Postings, posting'[s].pc = "entries"
      PROVE  \E request \in Requests, n \in Nat :
                 Valid(request) /\ Underway(book', lock', s, posting'[s], request, n)
  <2>1. CASE s = t
    <3>1. posting'[s] = u
      BY <1>4, <2>1, PostingNext
    <3> QED
      BY <1>1, <1>4, <1>5, <2>1, <3>1
  <2>2. CASE s # t
    <3>1. posting'[s] = posting[s]
      BY <1>4, <2>2, PostingNext
    <3> QED
      BY <1>1, <1>5, <3>1 DEF PostingInv
  <2> QED
    BY <2>1, <2>2
<1> QED
  BY <1>5 DEF PostingInv

\* WriteEntry writes the next entry of the request to what the posting sees.
LEMMA WriteEntryPosting ==
    ASSUME IInv, PostingInv, NEW t \in Postings, WriteEntry(t)
    PROVE  PostingInv'
<1>1. PICK u : u = posting[t]
  OBVIOUS
<1>2. PICK e : e = Head(u.todo)
  OBVIOUS
<1>3. PICK a : a = e.account
  OBVIOUS
<1>4. PICK seen : seen = IF lock[a] = t THEN u.draft ELSE [u.draft EXCEPT !.balance[a] = book.balance[a]]
  OBVIOUS
<1>5. /\ u.pc = "entries" /\ u.todo # <<>>
      /\ a \in Accounts /\ Storable(e)
      /\ lock[a] \in {NoOwner, t}
      /\ lock' = [lock EXCEPT ![a] = t]
      /\ posting' = [posting EXCEPT ![t].todo = Tail(@),
                                    ![t].draft = PostEntry(seen, a, e.debit, e.credit)]
      /\ book' = book
  BY <1>1, <1>2, <1>3, <1>4 DEF WriteEntry
<1>6. u \in PostingRecord /\ u.draft \in Book /\ u.todo \in Seq(AllEntries)
  BY <1>1, Types DEF PostingRecord
<1>7. PICK v : v = [u EXCEPT !.todo = Tail(@), !.draft = PostEntry(seen, a, e.debit, e.credit)]
  OBVIOUS
<1>8. v.todo = Tail(u.todo) /\ v.draft = Posted(seen, e)
  BY <1>3, <1>6, <1>7 DEF PostingRecord, Posted
<1>9. posting' = [posting EXCEPT ![t] = v]
  BY <1>1, <1>5, <1>7, Types
<1>10. /\ seen \in Book /\ seen.entries = u.draft.entries
       /\ \A b \in Accounts \ {a} : seen.balance[b] = u.draft.balance[b]
       /\ lock[a] = t => seen.balance[a] = u.draft.balance[a]
       /\ lock[a] # t => seen.balance[a] = book.balance[a]
  BY <1>4, <1>5, <1>6, Types DEF Book
<1>11. PICK k : k = lock'
  OBVIOUS
<1>12. k[a] = t /\ \A b \in Accounts \ {a} : k[b] = lock[b]
  BY <1>5, <1>11, Types
<1>13. lock[a] # t => u.draft.entries[a] = <<>>
  BY <1>1, <1>5, Types DEF DraftInv
<1>14. Writes(book, lock, k, t, u, v, e)
  BY <1>2, <1>3, <1>5, <1>6, <1>8, <1>10, <1>12, <1>13 DEF Writes
<1>15. PICK request \in Requests, n \in Nat : Valid(request) /\ Underway(book, lock, t, u, request, n)
  BY <1>1, <1>5 DEF PostingInv
<1>16. Underway(book, k, t, v, request, n + 1)
  <2>1. request \in Seq(AllEntries) /\ book \in Book
    BY RequestTypes, Types
  <2> QED
    BY <1>14, <1>15, <2>1, WriteUnderway
<1>17. posting'[t] = v /\ \A s \in Postings \ {t} : posting'[s] = posting[s]
  BY <1>9, Types
<1>18. ASSUME NEW s \in Postings, posting'[s].pc = "entries"
       PROVE  \E r \in Requests, m \in Nat :
                  Valid(r) /\ Underway(book', lock', s, posting'[s], r, m)
  <2>1. CASE s = t
    <3>1. Valid(request) /\ n + 1 \in Nat /\ Underway(book', lock', s, posting'[s], request, n + 1)
      BY <1>5, <1>11, <1>15, <1>16, <1>17, <2>1
    <3> QED
      BY <3>1
  <2>2. CASE s # t
    <3>1. posting'[s] = posting[s] /\ book' \in Book
      BY <1>5, <1>17, <2>2, Types
    <3>2. \A b \in Accounts : lock[b] = s <=> lock'[b] = s
      BY <1>5, <1>11, <1>12, <2>2, NoOwnerAssumption
    <3> QED
      BY <1>5, <1>18, <3>1, <3>2, OtherPosting
  <2> QED
    BY <2>1, <2>2
<1> QED
  BY <1>18 DEF PostingInv

\* What a commit makes of the books.
LEMMA CommitMerges ==
    ASSUME IInv, NEW t \in Postings, book' = Committed(t)
    PROVE  /\ Merges(book', book, lock, t, posting[t].draft)
           /\ \A a \in Accounts : lock[a] # t => /\ book'.balance[a] = book.balance[a]
                                                 /\ book'.entries[a] = book.entries[a]
<1>1. PICK d : d = posting[t].draft
  OBVIOUS
<1>2. PICK m : m = book'
  OBVIOUS
<1>3. d \in Book /\ book \in Book
  BY <1>1, Types DEF PostingRecord
<1>4. m = [balance |-> [a \in Accounts |-> IF lock[a] = t THEN d.balance[a] ELSE book.balance[a]],
           entries |-> [a \in Accounts |-> book.entries[a] \o d.entries[a]]]
  BY <1>1, <1>2 DEF Committed, Owned
<1>5. Merges(m, book, lock, t, d)
  BY <1>3, <1>4, MergedMerges
<1>6. ASSUME NEW a \in Accounts, lock[a] # t
      PROVE  m.balance[a] = book.balance[a] /\ m.entries[a] = book.entries[a]
  <2>1. d.entries[a] = <<>> /\ book.entries[a] \in Seq(Row)
    BY <1>1, <1>3, <1>6, Types DEF DraftInv, Book
  <2>2. book.entries[a] \o d.entries[a] = book.entries[a]
    BY <2>1, ConcatEmptySeq
  <2> QED
    BY <1>5, <1>6, <2>2 DEF Merges
<1> QED
  BY <1>1, <1>2, <1>5, <1>6

\* A posting that returns leaves the others what they have underway.
LEMMA ReturnPosting ==
    ASSUME IInv, PostingInv, NEW t \in Postings, NEW result, Ends(t, result), book' \in Book,
           \A a \in Accounts : lock[a] # t => /\ book'.balance[a] = book.balance[a]
                                              /\ book'.entries[a] = book.entries[a]
    PROVE  PostingInv'
<1>0. Unlock(t) /\ Return(t, result) /\ result \in Results
  BY DEF Ends
<1>1. PICK u : Becomes(t, u) /\ u.pc # "entries"
  BY <1>0, ReturnBecomes, ResultNames
<1>2. ASSUME NEW s \in Postings, posting'[s].pc = "entries"
      PROVE  \E r \in Requests, m \in Nat :
                 Valid(r) /\ Underway(book', lock', s, posting'[s], r, m)
  <2>1. s # t /\ posting'[s] = posting[s]
    BY <1>1, <1>2, PostingNext
  <2>2. \A b \in Accounts : lock[b] = s <=> lock'[b] = s
    BY <1>0, <2>1, UnlockType, NoOwnerAssumption
  <2>3. \A b \in Accounts : lock[b] = s => /\ book'.balance[b] = book.balance[b]
                                           /\ book'.entries[b] = book.entries[b]
    BY <2>1
  <2> QED
    BY <1>2, <2>1, <2>2, <2>3, OtherPosting
<1> QED
  BY <1>2 DEF PostingInv

\* Every step keeps what the postings have underway.
LEMMA PostingStep == IInv /\ PostingInv /\ [Next]_vars => PostingInv'
<1> SUFFICES ASSUME IInv, PostingInv, [Next]_vars PROVE PostingInv'
  OBVIOUS
<1>1. ASSUME NEW t \in Postings, Begin(t) \/ Step(t) \/ CommitUnsure(t) \/ Fail(t) \/ Victim(t)
      PROVE  PostingInv'
  <2>1. ASSUME NEW result, Undoes(t, result)
        PROVE  PostingInv'
    BY <2>1, ReturnPosting, Types DEF Undoes
  <2>2. ASSUME NEW result, Commits(t, result)
        PROVE  PostingInv'
    <3>1. Ends(t, result) /\ book' = Committed(t)
      BY <2>2 DEF Commits
    <3>2. /\ book' \in Book
          /\ \A a \in Accounts : lock[a] # t => /\ book'.balance[a] = book.balance[a]
                                                /\ book'.entries[a] = book.entries[a]
      BY <3>1, CommitMerges DEF Merges
    <3> QED
      BY <3>1, <3>2, ReturnPosting
  <2>3. CASE Commit(t) \/ EntryFails(t) \/ Fail(t) \/ Victim(t) \/ CommitUnsure(t)
    BY <2>1, <2>2, <2>3, EndCases
  <2> QED
    BY <1>1, <2>3, BeginPosting, WriteEntryPosting DEF Step
<1>2. CASE UNCHANGED vars
  BY <1>2 DEF vars, PostingInv
<1> QED
  BY <1>1, <1>2 DEF Next

\* Every open posting is underway in every state.
LEMMA PostingInvariant == Spec => []PostingInv
<1>1. Init => PostingInv
  BY DEF Init, Idle, PostingInv
<1> QED
  BY <1>1, PostingStep, Invariant, PTL DEF Spec

-----------------------------------------------------------------------------
(* The refinement.                                                           *)

\* What LedgerSpec sees of the postings.
Outcomes == [t \in Postings |->
    IF posting[t].pc \in Results THEN posting[t].pc ELSE "pending"]

\* A posting that returns gets its result, and no other.
LEMMA OutcomeReturns ==
    ASSUME IInv, NEW t \in Postings, posting[t].pc \in {"idle", "entries"},
           NEW result \in Results, Return(t, result)
    PROVE  Atomic!Return(t, result)
<1>1. PICK u : Becomes(t, u) /\ u.pc = result
  BY ReturnBecomes
<1>2. posting'[t] = u /\ \A s \in Postings \ {t} : posting'[s] = posting[s]
  BY <1>1, PostingNext
<1>3. Outcomes[t] = "pending"
  BY ResultNames DEF Outcomes
<1>4. Outcomes' = [Outcomes EXCEPT ![t] = result]
  BY <1>1, <1>2 DEF Outcomes
<1> QED
  BY <1>3, <1>4 DEF Outcomes, Atomic!Return

\* The checks of the code are the double-entry principle.
LEMMA ValidIsBalanced ==
    ASSUME NEW request \in Requests, Valid(request)
    PROVE  Atomic!Balanced(request)
<1>1. \A i \in DOMAIN request : request[i].debit \in Int /\ request[i].credit \in Int
  BY RequestsAssumption
<1>2. \A i \in DOMAIN request : /\ request[i].debit >= 0 /\ request[i].credit >= 0
                                /\ request[i].debit = 0 \/ request[i].credit = 0
  BY <1>1 DEF Valid
<1>3. Atomic!Total(request, "debit") = Atomic!Total(request, "credit")
  BY SameTotal DEF Valid
<1> QED
  BY <1>2, <1>3 DEF Valid, Atomic!Balanced

\* What a commit adds to the books is the whole request, on the books as they are.
LEMMA CommitPosts ==
    ASSUME IInv, PostingInv, NEW t \in Postings, posting[t].pc = "entries", posting[t].todo = <<>>,
           NEW result \in {"posted", "unsure"}, Commits(t, result)
    PROVE  Atomic!Post(t)
<1>1. PICK u : u = posting[t]
  OBVIOUS
<1>2. /\ u.pc = "entries" /\ u.todo = <<>>
      /\ Return(t, result) /\ result \in Results /\ book' = Committed(t)
  BY <1>1 DEF Commits, Ends
<1>3. PICK request \in Requests, n \in Nat : Valid(request) /\ Underway(book, lock, t, u, request, n)
  BY <1>1, <1>2 DEF PostingInv
<1>4. PICK books : Built(books, book, request, n) /\ Merges(books[n], book, lock, t, u.draft)
  BY <1>3 DEF Underway
<1>5. books[n] = book'
  BY <1>1, <1>2, <1>4, CommitMerges, MergesUnique
<1>6. n = Len(request) /\ DOMAIN request = 1..n
  <2>1. request \in Seq(AllEntries)
    BY RequestTypes
  <2>2. Len(request) \in Nat /\ DOMAIN request = 1..Len(request)
    BY <2>1, LenProperties
  <2>3. Len(u.todo) = 0
    BY <1>2, EmptySeq
  <2>4. n = Len(request)
    BY <1>3, <2>2, <2>3 DEF Underway
  <2> QED
    BY <2>2, <2>4
<1>7. book' = Atomic!PostAll(book, request)
  BY <1>4, <1>5, <1>6, PostAllIsBuilt
<1>8. Atomic!Storable(request)
  <2>1. ASSUME NEW i \in DOMAIN request
        PROVE  request[i].account \in Accounts /\ request[i].debit + request[i].credit > 0
    <3>1. request[i].debit \in Int /\ request[i].credit \in Int
      BY RequestsAssumption
    <3>2. i \in 1..n
      BY <1>6
    <3>3. request[i].account \in Accounts /\ Storable(request[i])
      BY <1>3, <3>2 DEF Underway
    <3> QED
      BY <3>1, <3>3 DEF Storable
  <2> QED
    BY <2>1 DEF Atomic!Storable, Atomic!Accounts, Atomic!AccountType, Accounts, AccountType
<1>9. Atomic!Return(t, result)
  BY <1>1, <1>2, OutcomeReturns
<1> QED
  BY <1>3, <1>7, <1>8, <1>9, ValidIsBalanced DEF Atomic!Post

\* A posting that is the victim of a deadlock has an open transaction.
LEMMA VictimOpen ==
    ASSUME NEW t \in Postings, Victim(t)
    PROVE  posting[t].pc = "entries"
<1>1. PICK S \in SUBSET Postings : t \in S /\ Cycle(S)
  BY DEF Victim
<1>2. WaitsFor(t) \in Postings
  BY <1>1 DEF Cycle
<1> QED
  BY <1>2, NoOwnerAssumption DEF WaitsFor

\* Every step of the ledger is one of LedgerSpec, or none.
LEMMA StepRefines == IInv /\ PostingInv /\ [Next]_vars => [Atomic!Next]_(Atomic!vars)
<1> SUFFICES ASSUME IInv, PostingInv, [Next]_vars PROVE [Atomic!Next]_(Atomic!vars)
  OBVIOUS
<1> DEFINE stays == book' = book /\ Outcomes' = Outcomes
<1>1. ASSUME NEW t \in Postings, Begin(t) \/ Step(t) \/ CommitUnsure(t) \/ Fail(t) \/ Victim(t)
      PROVE  Atomic!Post(t) \/ Atomic!Refuse(t) \/ stays
  <2>1. ASSUME NEW result \in {"error", "unsure"}, Undoes(t, result), posting[t].pc = "entries"
        PROVE  Atomic!Refuse(t)
    <3>1. Return(t, result) /\ result \in Results /\ book' = book
      BY <2>1 DEF Undoes, Ends
    <3>2. Atomic!Return(t, result)
      BY <2>1, <3>1, OutcomeReturns
    <3> QED
      BY <2>1, <3>1, <3>2 DEF Atomic!Refuse
  <2>2. CASE EntryFails(t) \/ Fail(t) \/ Victim(t)
    <3>1. posting[t].pc = "entries"
      BY <2>2, VictimOpen DEF EntryFails, Fail
    <3> QED
      BY <2>1, <2>2, <3>1, EndCases
  <2>3. CASE Commit(t) \/ CommitUnsure(t)
    <3>1. posting[t].pc = "entries" /\ posting[t].todo = <<>>
      BY <2>3 DEF Commit, CommitUnsure
    <3>2. Commits(t, "posted") \/ Commits(t, "unsure") \/ Undoes(t, "unsure")
      BY <2>3, EndCases
    <3>3. CASE Undoes(t, "unsure")
      BY <2>1, <3>1, <3>3
    <3>4. CASE Commits(t, "posted") \/ Commits(t, "unsure")
      BY <3>1, <3>4, CommitPosts
    <3> QED
      BY <3>2, <3>3, <3>4
  <2>4. CASE WriteEntry(t)
    <3>1. book' = book /\ posting' \in [Postings -> PostingRecord]
      BY <2>4, WriteEntryInv, Types DEF WriteEntry, IInv, RecordsOK
    <3>2. \A s \in Postings : posting'[s].pc = posting[s].pc
      BY <2>4, Types DEF WriteEntry, PostingRecord
    <3> QED
      BY <3>1, <3>2 DEF Outcomes
  <2>5. CASE Begin(t)
    <3>1. PICK request \in Requests :
            IF Valid(request)
            THEN posting' = [posting EXCEPT ![t].pc = "entries", ![t].todo = request]
            ELSE Return(t, "error")
      BY <2>5 DEF Begin
    <3>2. book' = book /\ posting[t].pc = "idle"
      BY <2>5 DEF Begin
    <3>3. CASE Valid(request)
      <4>1. posting[t] \in PostingRecord
        BY Types
      <4>2. PICK v : v = [posting[t] EXCEPT !.pc = "entries", !.todo = request]
        OBVIOUS
      <4>3. v.pc = "entries" /\ posting' = [posting EXCEPT ![t] = v]
        BY <3>1, <3>3, <4>1, <4>2, Types DEF PostingRecord
      <4>4. posting'[t] = v /\ \A s \in Postings \ {t} : posting'[s] = posting[s]
        BY <4>3, Types
      <4> QED
        BY <3>2, <4>3, <4>4, ResultNames DEF Outcomes
    <3>4. CASE ~Valid(request)
      BY <3>1, <3>2, <3>4, OutcomeReturns, ResultNames DEF Atomic!Refuse
    <3> QED
      BY <3>3, <3>4
  <2> QED
    BY <1>1, <2>2, <2>3, <2>4, <2>5 DEF Step
<1>2. CASE stays
  BY <1>2 DEF Outcomes, Atomic!vars
<1>3. CASE UNCHANGED vars
  <2>1. stays
    BY <1>3 DEF vars, Outcomes
  <2> QED
    BY <1>2, <2>1
<1>4. CASE Next
  <2>1. PICK t \in Postings : Begin(t) \/ Step(t) \/ CommitUnsure(t) \/ Fail(t) \/ Victim(t)
    BY <1>4 DEF Next
  <2> HIDE DEF stays
  <2>2. Atomic!Post(t) \/ Atomic!Refuse(t) \/ stays
    BY <1>1, <2>1
  <2>3. CASE Atomic!Post(t) \/ Atomic!Refuse(t)
    BY <2>3 DEF Atomic!Next
  <2> QED
    BY <1>2, <2>2, <2>3
<1> QED
  BY <1>3, <1>4

\* A call of PostLedgerTransaction takes effect in one step, its commit, with
\* all its entries on the books as they are then, or it has no effect.  One
\* that returns nil has taken effect and what it posted is balanced; one that
\* returns an error has not, unless the error is that of the commit, after
\* which its entries are in the books all together or not at all.
THEOREM PostingsAtomic == Spec => ImplementsLedgerSpec
<1>1. Init => Atomic!Init
  BY ResultNames
  DEF Init, Idle, Atomic!Init, EmptyBook, Atomic!EmptyBook, Accounts, Atomic!Accounts, AccountType, Atomic!AccountType
<1> QED
  BY <1>1, StepRefines, Invariant, PostingInvariant, PTL DEF Spec, ImplementsLedgerSpec, Atomic!Spec

=============================================================================
