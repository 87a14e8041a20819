---------------------------- MODULE MCReconRuns ----------------------------
(* Books for ReconRuns: small sets of ledger transactions and statement lines. *)
EXTENDS ReconRuns, Sequences, TLC

CONSTANTS acc, other, usd, approver, analyst

Txn(file, account, amount, date) ==
    [ batch_id |-> file, account |-> account, currency |-> usd, amount |-> amount,
      value_date |-> date ]

Line(account, amount, date, batched) ==
    [ batch_id |-> 1, account |-> account, currency |-> usd, amount |-> amount,
      value_date |-> date, is_batched_settlement |-> batched ]

\* Payments of two days, in two files.  The first and the third compete for
\* the line of the second day, the second one is within one per cent of its
\* line.
MixedTxns == <<Txn(2, acc, 10000, 1), Txn(2, acc, 20000, 1), Txn(3, acc, 10000, 2)>>
MixedLines == <<Line(acc, 10000, 2, FALSE), Line(acc, 20100, 1, FALSE)>>

\* Besides, another account with a settlement of a transaction of each file.
FullTxns == MixedTxns \o <<Txn(2, other, 500, 1), Txn(3, other, 200, 1)>>
FullLines == MixedLines \o <<Line(other, 700, 1, TRUE)>>

OnePercent == {[amount_tolerance |-> 1, date_window_days |-> 1]}

=============================================================================
