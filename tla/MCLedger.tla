------------------------------ MODULE MCLedger ------------------------------
(***************************************************************************)
(* Instances of Ledger for TLC.                                            *)
(***************************************************************************)
EXTENDS Ledger

Debit(a, n) == [account |-> a, debit |-> n, credit |-> 0]
Credit(a, n) == [account |-> a, debit |-> 0, credit |-> n]

Symmetry == Permutations(Postings)

\* A behaviour may end when every call has returned.
Returned == (\A t \in Postings : posting[t].pc \in Results) /\ UNCHANGED vars

\* Capture and refund as the webhooks post them, and a payout and a correction that lock in the
\* opposite order and lock one account twice.
GoodRequests ==
    {<<Debit("PSP_SETTLEMENT", 2), Credit("MERCHANT_PAY", 2)>>,
      <<Debit("MERCHANT_PAY", 1), Credit("REFUND_EXP", 1)>>,
      <<Debit("MERCHANT_PAY", 1), Credit("PSP_SETTLEMENT", 1)>>,
      <<Debit("REFUND_EXP", 3), Credit("MERCHANT_PAY", 2), Credit("PSP_SETTLEMENT", 2),
        Debit("MERCHANT_PAY", 1)>>}

BadRequests ==
    {<<Debit("PSP_SETTLEMENT", 2), Credit("MERCHANT_PAY", 1)>>,
      <<Debit("PSP_SETTLEMENT", 1), Credit("NO_SUCH_ACCOUNT", 1)>>,
      <<Debit("MERCHANT_PAY", 0), Credit("PSP_SETTLEMENT", 0)>>,
      <<Debit("PSP_SETTLEMENT", 0)>>,
      <<Debit("PSP_SETTLEMENT", -1), Credit("MERCHANT_PAY", -1)>>,
      <<[account |-> "PSP_SETTLEMENT", debit |-> 1, credit |-> 1],
        [account |-> "MERCHANT_PAY", debit |-> 1, credit |-> 1]>>}

AllRequests == GoodRequests \cup BadRequests

MCSpec == Init /\ [][Next \/ Returned]_vars
MCFairSpec == MCSpec /\ Fairness
=============================================================================
