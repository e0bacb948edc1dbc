----------------------------- MODULE LedgerBook -----------------------------
(***************************************************************************)
(* The double-entry books: the chart of accounts, how an entry moves the   *)
(* balance of its account, and the entries and balances as a value.  Both  *)
(* LedgerService.PostLedgerTransaction and WebhookService.postEntryInTx    *)
(* post an entry in this way.                                              *)
(***************************************************************************)
EXTENDS Integers, Sequences

\* The accounts that migration 000002 seeds.
AccountType ==
    [MERCHANT_RECV  |-> "asset",     PSP_SETTLEMENT |-> "asset",
     CUSTOMER_DEP   |-> "liability", MERCHANT_PAY   |-> "liability",
     FEE_PAYABLE    |-> "liability", PLATFORM_FEE   |-> "revenue",
     PROCESSING_FEE |-> "revenue",   PSP_FEE_EXP    |-> "expense",
     REFUND_EXP     |-> "expense"]

Accounts == DOMAIN AccountType

EmptyBook == [balance |-> [a \in Accounts |-> 0],
              entries |-> [a \in Accounts |-> <<>>]]

\* Mutant: the sign of every type but asset is that of a liability.
NewBalance_OnlyAssetsDebit(a, current, debit, credit) ==
    IF AccountType[a] = "asset" THEN current + (debit - credit) ELSE current + (credit - debit)

\* Assets and expenses grow by debits, liabilities and revenue by credits.
NewBalance(a, current, debit, credit) ==
    IF AccountType[a] \in {"asset", "expense"}
    THEN current + (debit - credit)
    ELSE current + (credit - debit)

\* One entry: the account is locked, its balance moved, the entry inserted.
PostEntry(book, a, debit, credit) ==
    LET nb == NewBalance(a, book.balance[a], debit, credit)
    IN  [balance |-> [book.balance EXCEPT ![a] = nb],
         entries |-> [book.entries EXCEPT ![a] =
                        Append(@, [debit |-> debit, credit |-> credit, running |-> nb])]]

=============================================================================
