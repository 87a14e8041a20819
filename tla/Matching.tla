------------------------------ MODULE Matching ------------------------------
(***************************************************************************)
(* The matching rules of matchingRepository.js as operators: which ledger  *)
(* transactions and statement lines each pass of a run pairs up, given the *)
(* sets txns and lines it still sees unmatched.  The rows are constants:   *)
(* nothing updates or deletes them once they are imported.                 *)
(***************************************************************************)
EXTENDS Integers, FiniteSets, FiniteSetsExt

CONSTANTS
    LedgerTxn,      \* [ledger_txn_id -> row of ledger_transactions]
    StatementLine,  \* [ext_line_id -> row of external_statement_lines]
    ToleranceRules  \* the active TOLERANCE rule as a set: empty or a singleton

TxnIds == DOMAIN LedgerTxn
LineIds == DOMAIN StatementLine

\* Amounts are in cents and positive (the CHECK constraints of the schema),
\* dates are days, a tolerance is in per cent.  The account of a line is the
\* account whose external_ref is its account_ref.
ASSUME MatchingAssumption ==
    /\ TxnIds \subseteq Nat
    /\ LineIds \subseteq Nat
    /\ IsFiniteSet(TxnIds)
    /\ IsFiniteSet(LineIds)
    /\ \A t \in TxnIds :
          /\ LedgerTxn[t].amount \in Nat \ {0}
          /\ LedgerTxn[t].value_date \in Nat
    /\ \A l \in LineIds :
          /\ StatementLine[l].amount \in Nat \ {0}
          /\ StatementLine[l].value_date \in Nat
          /\ StatementLine[l].is_batched_settlement \in BOOLEAN
    /\ Cardinality(ToleranceRules) <= 1
    /\ \A rule \in ToleranceRules :
          /\ rule.amount_tolerance \in Nat
          /\ rule.date_window_days \in Nat

Group(S, l) == [ledger_lines |-> S, external_lines |-> {l}]

Abs(n) == IF n < 0 THEN -n ELSE n

Total(S) == MapThenSumSet(LAMBDA t : LedgerTxn[t].amount, S)

SameAccount(t, l) == LedgerTxn[t].account = StatementLine[l].account

DaysApart(t, l) == Abs(LedgerTxn[t].value_date - StatementLine[l].value_date)

AmountDiff(t, l) == Abs(LedgerTxn[t].amount - StatementLine[l].amount)

Alike(t, l) ==
    /\ SameAccount(t, l)
    /\ LedgerTxn[t].currency = StatementLine[l].currency

-----------------------------------------------------------------------------
(* Candidate pairs with the distance that ranks them. *)

ExactPair(t, l) == Alike(t, l) /\ DaysApart(t, l) <= 2 /\ AmountDiff(t, l) = 0

TolerancePair(rule, t, l) ==
    /\ Alike(t, l)
    /\ DaysApart(t, l) <= rule.date_window_days
    /\ 100 * AmountDiff(t, l) <= rule.amount_tolerance * LedgerTxn[t].amount

Pairs(txns, lines) == {[txn |-> t, line |-> l] : t \in txns, l \in lines}

ExactCandidates(txns, lines) ==
    { [txn |-> p.txn, line |-> p.line, distance |-> DaysApart(p.txn, p.line)] :
          p \in {q \in Pairs(txns, lines) : ExactPair(q.txn, q.line)} }

\* CROSS JOIN active_rule: no rule, no candidates.
ToleranceCandidates(txns, lines) ==
    { [txn |-> p.txn, line |-> p.line, distance |-> AmountDiff(p.txn, p.line)] :
          p \in {q \in Pairs(txns, lines) :
                    \E rule \in ToleranceRules : TolerancePair(rule, q.txn, q.line)} }

\* ROW_NUMBER() OVER (PARTITION BY column ORDER BY distance) = 1: one pair of
\* least distance in each partition.  Among ties any of them may come first,
\* so this is the set of all outcomes.
RankOne(C, column) ==
    { F \in SUBSET C :
        /\ \A p \in C : \E q \in F : q[column] = p[column]
        /\ \A p, q \in F : p[column] = q[column] => p = q
        /\ \A p \in F : \A q \in C : p[column] = q[column] => p.distance <= q.distance }

\* WHERE ledger_rank = 1 AND ext_rank = 1.
MutualBest(C) == {F \cap G : F \in RankOne(C, "txn"), G \in RankOne(C, "line")}

PairGroups(M) == {Group({p.txn}, p.line) : p \in M}

-----------------------------------------------------------------------------
(* Batch settlements: many transactions, one line.  Currency and date of the *)
(* line play no part.                                                        *)

\* SUM OVER (PARTITION BY account_id ORDER BY value_date, ledger_txn_id); the
\* dates are all the run's.
RunningTotal(t, txns) ==
    Total({u \in txns : LedgerTxn[u].account = LedgerTxn[t].account /\ u <= t})

SettlementCandidates(l, txns) ==
    {t \in txns : SameAccount(t, l) /\ RunningTotal(t, txns) <= StatementLine[l].amount}

\* One turn of the loop: the transactions that settle line l, given its
\* candidates and what each line before it was settled with; none if their sum
\* is not the batch total.  The candidates come in no particular order; since
\* the amounts are positive and the running totals fit, adding them up reaches
\* the batch total with the last of them or not at all.
Untaken(l, candidates, settled) ==
    candidates[l] \ UNION {settled[k] : k \in {m \in DOMAIN settled : m < l}}

\* Mutant: the sum may fall short of the batch total.
SettlesInPart(l, candidates, settled) == Untaken(l, candidates, settled)

Settles(l, candidates, settled) ==
    LET subset == Untaken(l, candidates, settled)
    IN  IF Total(subset) = StatementLine[l].amount THEN subset ELSE {}

\* The whole loop: which transactions each batched line takes.  The keys of an
\* object that look like integers are visited in their order, so that this is a
\* single function; a set of one, to choose it with \E.
Settlements(txns, lines) ==
    LET batched    == {l \in lines : StatementLine[l].is_batched_settlement}
        candidates == [l \in batched |-> SettlementCandidates(l, txns)]
    IN  { settled \in [batched -> SUBSET UNION {candidates[l] : l \in batched}] :
            \A l \in batched : settled[l] = Settles(l, candidates, settled) }

SettlementGroups(settled) ==
    {Group(settled[l], l) : l \in {k \in DOMAIN settled : settled[k] # {}}}

=============================================================================
