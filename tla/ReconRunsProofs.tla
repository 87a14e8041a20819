--------------------------- MODULE ReconRunsProofs ---------------------------
(***************************************************************************)
(* Theorems about reconciliation runs, for every book, any number of runs, *)
(* however they overlap with each other, with imports and with assignments. *)
(***************************************************************************)
EXTENDS ReconRuns, FiniteSetTheorems, TLAPS

\* Rows that a run has inserted, committed or not.  The owner of a row is the
\* run that made it.
Made(g)   == g \in match_groups \/ g \in runs[g.run_id].groups
Raised(e) == e \in reconciliation_exceptions \/ e \in runs[e.run_id].exceptions

Disjoint(g, h) ==
    /\ g.ledger_lines \cap h.ledger_lines = {}
    /\ g.external_lines \cap h.external_lines = {}

SameItem(e, f) == e.ledger_txn_id = f.ledger_txn_id /\ e.ext_line_id = f.ext_line_id

-----------------------------------------------------------------------------
(* The parts of the inductive invariant. *)

\* What a run has made and not committed is its own, and it is made by a run in
\* flight, at a stage that makes such rows.  What was before it is over.
OwnRows(r) ==
    /\ \A g \in runs[r].groups \cup runs[r].found : g.run_id = r
    /\ \A e \in runs[r].exceptions : e.run_id = r /\ e.assigned_to = NoUser
    /\ runs[r].groups # {} => InFlight(r)
    /\ runs[r].found # {} => runs[r].stage \in {"tolerance", "settlement", "missing_external"}
    /\ runs[r].exceptions # {} => runs[r].stage \in {"missing_internal", "complete"}
    /\ \A q \in runs[r].after : Completed(q)

\* What is committed was made by completed runs.
Owned ==
    /\ \A g \in match_groups : Completed(g.run_id)
    /\ \A e \in reconciliation_exceptions : Completed(e.run_id)
    /\ \A r \in Runs : OwnRows(r)

\* What a run is about has been imported.
Imported ==
    \A r \in Runs :
        /\ runs[r].due \subseteq DueTxns(r)
        /\ runs[r].stage \notin {"new", "rolled_back"} =>
              \E l \in external_statement_lines : StatementLine[l].batch_id = runs[r].batchId

\* EveryDueItemAccounted as far as a run has got.
Accounted ==
    \A r \in Runs :
        /\ runs[r].stage \in {"missing_internal", "complete", "COMPLETED"} =>
              \A t \in runs[r].due :
                  \/ t \in MatchedTxns(SeenGroups(r))
                  \/ \E e \in reconciliation_exceptions \cup runs[r].exceptions :
                        e.ledger_txn_id = t
        /\ runs[r].stage \in {"complete", "COMPLETED"} =>
              \A l \in BatchLines(r) :
                  StatementLine[l].value_date = runs[r].runDate =>
                      \/ l \in MatchedLines(SeenGroups(r))
                      \/ \E e \in reconciliation_exceptions \cup runs[r].exceptions :
                            e.ext_line_id = l

\* An exception is for a transaction or for a line.
Shaped ==
    \A e \in Exceptions : Raised(e) => (e.ledger_txn_id = NoRow <=> e.ext_line_id # NoRow)

\* Every group adds up, and so does what a query has found.
Balanced ==
    \A r \in Runs :
        /\ \A g \in match_groups : g.run_id = r => Balances(g, runs[r])
        /\ \A g \in runs[r].groups \cup runs[r].found : Balances(g, runs[r])

\* MatchedOnce, for groups that are not committed too.
Exclusive ==
    \A g, h \in Groups : Made(g) /\ Made(h) /\ g # h /\ Before(g.run_id, h.run_id) => Disjoint(g, h)

\* What a query has found is disjoint, and no line of it is in a group that the
\* run has made, or that was there before it.
Found ==
    \A r \in Runs : \A h \in runs[r].found :
        /\ \A g \in runs[r].found : g # h => Disjoint(g, h)
        /\ \A g \in Groups : Made(g) /\ Before(g.run_id, r) =>
              g.external_lines \cap h.external_lines = {}

\* ExceptionsAreUnmatched and ExceptedOnce, for rows that are not committed too.
Unmatched ==
    \A e \in Exceptions, g \in Groups : Raised(e) /\ Made(g) /\ Before(g.run_id, e.run_id) =>
        e.ledger_txn_id \notin g.ledger_lines /\ e.ext_line_id \notin g.external_lines

Once ==
    \A e, f \in Exceptions :
        Raised(e) /\ Raised(f) /\ e # f /\ SameItem(e, f) /\ Before(e.run_id, f.run_id) =>
            e.assigned_to # NoUser

IInv ==
    /\ TypeOK
    /\ Owned
    /\ Imported
    /\ Accounted
    /\ Shaped
    /\ Balanced
    /\ Exclusive
    /\ Found
    /\ Unmatched
    /\ Once

-----------------------------------------------------------------------------
(* The rules of Matching. *)

\* The pairs of a pass are pairs of rows it was given, and no row is in two.
LEMMA PairsAreDisjoint ==
  ASSUME NEW C, NEW M \in MutualBest(C)
  PROVE  /\ \A g \in PairGroups(M) : \E p \in C : g = Group({p.txn}, p.line)
         /\ \A g, h \in PairGroups(M) : g # h => Disjoint(g, h)
<1>1. PICK F \in RankOne(C, "txn"), G \in RankOne(C, "line") : M = F \cap G
  BY DEF MutualBest
<1>2. M \subseteq C
  BY <1>1 DEF RankOne
<1>3. \A p, q \in M : p.txn = q.txn => p = q
  BY <1>1 DEF RankOne
<1>4. \A p, q \in M : p.line = q.line => p = q
  BY <1>1 DEF RankOne
<1>5. \A g \in PairGroups(M) : \E p \in M : g = Group({p.txn}, p.line)
  BY DEF PairGroups
<1>6. ASSUME NEW g \in PairGroups(M), NEW h \in PairGroups(M), g # h
      PROVE  Disjoint(g, h)
  <2>1. PICK p \in M : g = Group({p.txn}, p.line)
    BY <1>5
  <2>2. PICK q \in M : h = Group({q.txn}, q.line)
    BY <1>5
  <2>3. p.txn # q.txn /\ p.line # q.line
    BY <1>3, <1>4, <1>6, <2>1, <2>2
  <2> QED
    BY <2>1, <2>2, <2>3 DEF Disjoint, Group
<1> QED
  BY <1>2, <1>5, <1>6

\* What settles a line is unmatched, of its account, adds up to the cent, and
\* settles no other line.
LEMMA SettlementsAreDisjoint ==
  ASSUME NEW txns, NEW lines \in SUBSET LineIds, NEW settled \in Settlements(txns, lines)
  PROVE  /\ \A g \in SettlementGroups(settled) : \E l \in lines :
               /\ g = Group(settled[l], l)
               /\ settled[l] \subseteq {t \in txns : SameAccount(t, l)}
               /\ Total(settled[l]) = StatementLine[l].amount
         /\ \A g, h \in SettlementGroups(settled) : g # h => Disjoint(g, h)
<1> DEFINE batched == {l \in lines : StatementLine[l].is_batched_settlement}
           candidates == [l \in batched |-> SettlementCandidates(l, txns)]
<1>1. /\ DOMAIN settled = batched
      /\ \A l \in batched : settled[l] = Settles(l, candidates, settled)
  BY DEF Settlements
<1>2. \A l \in batched : settled[l] # {} =>
          /\ settled[l] = Untaken(l, candidates, settled)
          /\ Total(settled[l]) = StatementLine[l].amount
  BY <1>1 DEF Settles
<1>3. ASSUME NEW l \in batched
      PROVE  /\ Untaken(l, candidates, settled) \subseteq SettlementCandidates(l, txns)
             /\ \A k \in batched : k < l => settled[k] \cap Untaken(l, candidates, settled) = {}
  <2>1. candidates[l] = SettlementCandidates(l, txns)
    OBVIOUS
  <2>2. \A k \in batched : k < l =>
            settled[k] \subseteq UNION {settled[m] : m \in {n \in DOMAIN settled : n < l}}
    BY <1>1
  <2> HIDE DEF candidates
  <2> QED
    BY <2>1, <2>2 DEF Untaken
<1>4. \A g \in SettlementGroups(settled) : \E l \in batched :
          g = Group(settled[l], l) /\ settled[l] # {}
  BY <1>1 DEF SettlementGroups
<1>5. \A l \in batched : settled[l] # {} => settled[l] \subseteq {t \in txns : SameAccount(t, l)}
  BY <1>2, <1>3 DEF SettlementCandidates
<1>6. \A k, l \in batched :
          k < l /\ settled[l] # {} => settled[k] \cap settled[l] = {}
  BY <1>2, <1>3
<1>7. \A k, l \in batched :
          k # l /\ settled[k] # {} /\ settled[l] # {} => settled[k] \cap settled[l] = {}
  <2>1. \A k, l \in batched : k # l => k < l \/ l < k
    BY MatchingAssumption
  <2> QED
    BY <1>6, <2>1
<1>8. ASSUME NEW g \in SettlementGroups(settled), NEW h \in SettlementGroups(settled), g # h
      PROVE  Disjoint(g, h)
  <2>1. PICK k \in batched : g = Group(settled[k], k) /\ settled[k] # {}
    BY <1>4
  <2>2. PICK l \in batched : h = Group(settled[l], l) /\ settled[l] # {}
    BY <1>4
  <2>3. k # l
    BY <1>8, <2>1, <2>2
  <2> QED
    BY <1>7, <2>1, <2>2, <2>3 DEF Disjoint, Group
<1> QED
  BY <1>2, <1>4, <1>5, <1>8

-----------------------------------------------------------------------------
(* What a run in flight sees, and what steps that add no row preserve. *)

\* A run in flight sees every group that it, or a run before it, has made, and
\* every exception unless it is assigned; and it is before no other run.
LEMMA SeesItsPast ==
  ASSUME IInv, NEW r \in Runs, InFlight(r)
  PROVE  /\ \A g \in Groups : Made(g) /\ Before(g.run_id, r) => g \in SeenGroups(r)
         /\ \A e \in Exceptions : Raised(e) /\ Before(e.run_id, r) =>
               e \in SeenExceptions(r) \/ e.assigned_to # NoUser
         /\ \A s \in Runs : Before(r, s) => s = r
<1>1. ~Completed(r)
  BY DEF InFlight, Stages, Completed
<1>2. \A q \in Runs : Completed(q) => ~InFlight(q)
  BY DEF InFlight, Stages, Completed
<1>3. ASSUME NEW g \in Groups, Made(g), Before(g.run_id, r)
      PROVE  g \in SeenGroups(r)
  <2>1. g.run_id \in Runs
    BY DEF Groups
  <2>2. CASE g.run_id = r
    BY <1>1, <1>3, <2>2 DEF IInv, Owned, OwnRows, Made, SeenGroups
  <2>3. CASE g.run_id \in runs[r].after
    <3>1. Completed(g.run_id)
      BY <2>3 DEF IInv, Owned, OwnRows
    <3>2. runs[g.run_id].groups = {}
      BY <1>2, <2>1, <3>1 DEF IInv, Owned, OwnRows
    <3> QED
      BY <1>3, <3>2 DEF Made, SeenGroups
  <2> QED
    BY <1>3, <2>2, <2>3 DEF Before
<1>4. ASSUME NEW e \in Exceptions, Raised(e), Before(e.run_id, r), e.assigned_to = NoUser
      PROVE  e \in SeenExceptions(r)
  <2>1. e.run_id \in Runs
    BY DEF Exceptions
  <2>2. CASE e.run_id = r
    BY <1>1, <1>4, <2>2 DEF IInv, Owned, OwnRows, Raised, SeenExceptions
  <2>3. CASE e.run_id \in runs[r].after
    <3>1. Completed(e.run_id)
      BY <2>3 DEF IInv, Owned, OwnRows
    <3>2. runs[e.run_id].exceptions = {}
      BY <2>1, <3>1 DEF IInv, Owned, OwnRows, Completed
    <3> QED
      BY <1>4, <3>2 DEF Raised, SeenExceptions
  <2> QED
    BY <1>4, <2>2, <2>3 DEF Before
<1>5. \A s \in Runs : Before(r, s) => s = r
  BY <1>1 DEF IInv, Owned, OwnRows, Before
<1> QED
  BY <1>3, <1>4, <1>5

\* A step that makes no rows, and leaves the history of the runs that have
\* made some, keeps what is said of two rows.
LEMMA HistoryKept ==
  ASSUME IInv,
         \A g \in Groups : Made(g)' =>
             Made(g) /\ runs'[g.run_id].after = runs[g.run_id].after,
         \A e \in Exceptions : Raised(e)' =>
             Raised(e) /\ runs'[e.run_id].after = runs[e.run_id].after
  PROVE  Exclusive' /\ Shaped' /\ Unmatched' /\ Once'
<1>1. Exclusive'
  BY DEF IInv, Exclusive, Before
<1>2. Shaped'
  BY DEF IInv, Shaped
<1>3. Unmatched'
  BY DEF IInv, Unmatched, Before
<1>4. Once'
  BY DEF IInv, Once, Before
<1> QED
  BY <1>1, <1>2, <1>3, <1>4

\* What a query has found stays apart from other groups until it is inserted.
LEMMA FoundKept ==
  ASSUME IInv,
         \A g \in Groups : Made(g)' => Made(g),
         \A r \in Runs : \/ runs'[r].found = {}
                         \/ /\ runs'[r].found = runs[r].found
                            /\ runs'[r].after = runs[r].after
  PROVE  Found'
BY DEF IInv, Found, Before

\* What a run has accounted for stays accounted for: groups and exceptions may
\* be added and assigned, not taken away.
LEMMA AccountedKept ==
  ASSUME IInv,
         \A r \in Runs : runs'[r].stage \in {"missing_internal", "complete", "COMPLETED"} =>
             /\ runs[r].stage \in {"missing_internal", "complete", "COMPLETED"}
             /\ runs'[r].due = runs[r].due
             /\ SeenGroups(r) \subseteq SeenGroups(r)'
             /\ \A e \in reconciliation_exceptions \cup runs[r].exceptions :
                    \E f \in reconciliation_exceptions' \cup runs'[r].exceptions : SameItem(e, f),
         \A r \in Runs : runs'[r].stage \in {"complete", "COMPLETED"} =>
             /\ runs[r].stage \in {"complete", "COMPLETED"}
             /\ runs'[r].runDate = runs[r].runDate
             /\ BatchLines(r)' = BatchLines(r)
  PROVE  Accounted'
<1>1. ASSUME NEW r \in Runs,
             runs'[r].stage \in {"missing_internal", "complete", "COMPLETED"},
             NEW t \in runs'[r].due
      PROVE  \/ t \in MatchedTxns(SeenGroups(r)')
             \/ \E f \in reconciliation_exceptions' \cup runs'[r].exceptions : f.ledger_txn_id = t
  <2>1. \/ t \in MatchedTxns(SeenGroups(r))
        \/ \E e \in reconciliation_exceptions \cup runs[r].exceptions : e.ledger_txn_id = t
    BY <1>1 DEF IInv, Accounted
  <2>2. CASE t \in MatchedTxns(SeenGroups(r))
    BY <1>1, <2>2 DEF MatchedTxns
  <2> QED
    BY <1>1, <2>1, <2>2 DEF SameItem
<1>2. ASSUME NEW r \in Runs, runs'[r].stage \in {"complete", "COMPLETED"},
             NEW l \in BatchLines(r)', StatementLine[l].value_date = runs'[r].runDate
      PROVE  \/ l \in MatchedLines(SeenGroups(r)')
             \/ \E f \in reconciliation_exceptions' \cup runs'[r].exceptions : f.ext_line_id = l
  <2>1. \/ l \in MatchedLines(SeenGroups(r))
        \/ \E e \in reconciliation_exceptions \cup runs[r].exceptions : e.ext_line_id = l
    BY <1>2 DEF IInv, Accounted
  <2>2. CASE l \in MatchedLines(SeenGroups(r))
    BY <1>2, <2>2 DEF MatchedLines
  <2> QED
    BY <1>2, <2>1, <2>2 DEF SameItem
<1> QED
  BY <1>1, <1>2 DEF Accounted, MatchedTxns, MatchedLines

\* A group balances for any state of its run: date and batch do not change.
LEMMA BalancesKept ==
  ASSUME NEW g, NEW before, NEW after,
         after.runDate = before.runDate, after.batchId = before.batchId,
         Balances(g, before)
  PROVE  Balances(g, after)
BY DEF Balances

-----------------------------------------------------------------------------
(* The rest of the system. *)

\* Imports add rows that no group and no exception is about yet.
LEMMA ImportStep ==
  ASSUME IInv,
         \/ \E b \in LedgerBatches : ImportLedger(b)
         \/ \E b \in Batches : ImportStatement(b)
  PROVE  IInv'
<1>1. /\ UNCHANGED <<match_groups, reconciliation_exceptions, runs>>
      /\ ledger_transactions \subseteq ledger_transactions'
      /\ ledger_transactions' \subseteq TxnIds
      /\ external_statement_lines \subseteq external_statement_lines'
      /\ external_statement_lines' \subseteq LineIds
  BY DEF ImportLedger, ImportStatement, IInv, TypeOK
<1>2. TypeOK'
  BY <1>1 DEF IInv, TypeOK
<1>3. Owned'
  BY <1>1 DEF IInv, Owned, OwnRows, Completed, InFlight
<1>4. Imported'
  BY <1>1 DEF IInv, Imported, DueTxns
<1>5. \A r \in Runs : runs[r].stage \in {"complete", "COMPLETED"} =>
          BatchLines(r)' = BatchLines(r)
  <2> SUFFICES ASSUME NEW r \in Runs, runs[r].stage \in {"complete", "COMPLETED"}
               PROVE  BatchLines(r)' = BatchLines(r)
    OBVIOUS
  <2>1. PICK l \in external_statement_lines : StatementLine[l].batch_id = runs[r].batchId
    BY DEF IInv, Imported
  <2>2. CASE \E b \in LedgerBatches : ImportLedger(b)
    BY <2>2 DEF ImportLedger, BatchLines
  <2>3. ASSUME NEW b \in Batches, ImportStatement(b)
        PROVE  BatchLines(r)' = BatchLines(r)
    <3>1. b # runs[r].batchId
      BY <2>1, <2>3 DEF ImportStatement
    <3> QED
      BY <2>3, <3>1 DEF ImportStatement, BatchLines
  <2> QED
    BY <2>2, <2>3
<1>6. Accounted'
  <2>1. \A r \in Runs : SeenGroups(r)' = SeenGroups(r)
    BY <1>1 DEF SeenGroups
  <2> QED
    BY <1>1, <1>5, <2>1, AccountedKept DEF SameItem
<1>7. Balanced'
  BY <1>1 DEF IInv, Balanced
<1>8. (\A g : Made(g)' <=> Made(g)) /\ (\A e : Raised(e)' <=> Raised(e))
  BY <1>1 DEF Made, Raised
<1>9. Exclusive' /\ Shaped' /\ Unmatched' /\ Once'
  BY <1>1, <1>8, HistoryKept
<1>10. Found'
  BY <1>1, <1>8, FoundKept
<1> QED
  BY <1>2, <1>3, <1>4, <1>6, <1>7, <1>9, <1>10 DEF IInv

\* An assignment replaces an exception by one for the same item.
LEMMA AssignStep ==
  ASSUME IInv, NEW e \in reconciliation_exceptions, NEW u \in Users, Assign(e, u)
  PROVE  IInv'
<1> DEFINE f == [e EXCEPT !.assigned_to = u]
<1>1. /\ UNCHANGED <<ledger_transactions, external_statement_lines, match_groups, runs>>
      /\ reconciliation_exceptions' = (reconciliation_exceptions \ {e}) \cup {f}
  BY DEF Assign
<1>2. /\ e \in Exceptions /\ f \in Exceptions
      /\ f.run_id = e.run_id /\ SameItem(e, f) /\ f.assigned_to = u
      /\ u # NoUser
  BY ReconRunsAssumption DEF IInv, TypeOK, Exceptions, SameItem
<1>3. Raised(e) /\ Completed(e.run_id)
  BY DEF Raised, IInv, Owned, OwnRows
<1>4. \A x : Raised(x)' => x = f \/ (Raised(x) /\ x # e)
  <2> SUFFICES ASSUME NEW x, Raised(x)', x # f
               PROVE  Raised(x) /\ x # e
    OBVIOUS
  <2>1. CASE x \in reconciliation_exceptions'
    BY <1>1, <2>1 DEF Raised
  <2>2. CASE x \in runs[x.run_id].exceptions
    <3>1. runs[e.run_id].exceptions = {}
      BY <1>2, <1>3 DEF IInv, Owned, OwnRows, Completed, Exceptions
    <3> QED
      BY <2>2, <3>1 DEF Raised
  <2> QED
    BY <1>1, <2>1, <2>2 DEF Raised
<1>5. \A g : Made(g)' <=> Made(g)
  BY <1>1 DEF Made
<1>6. TypeOK'
  BY <1>1, <1>2 DEF IInv, TypeOK
<1>7. Owned'
  BY <1>1, <1>2, <1>3 DEF IInv, Owned, OwnRows, Completed, InFlight
<1>8. Imported'
  BY <1>1 DEF IInv, Imported, DueTxns
<1>9. Accounted'
  <2>1. \A r \in Runs : SeenGroups(r)' = SeenGroups(r) /\ BatchLines(r)' = BatchLines(r)
    BY <1>1 DEF SeenGroups, BatchLines
  <2>2. \A r \in Runs : \A x \in reconciliation_exceptions \cup runs[r].exceptions :
            \E y \in reconciliation_exceptions' \cup runs'[r].exceptions : SameItem(x, y)
    BY <1>1, <1>2 DEF SameItem
  <2> QED
    BY <1>1, <2>1, <2>2, AccountedKept
<1>10. Balanced'
  BY <1>1 DEF IInv, Balanced
<1>11. Exclusive'
  BY <1>1, <1>5 DEF IInv, Exclusive, Before
<1>12. Found'
  BY <1>1, <1>5, FoundKept
<1>13. Shaped'
  BY <1>2, <1>3, <1>4 DEF IInv, Shaped, SameItem
<1>14. Unmatched'
  BY <1>1, <1>2, <1>3, <1>4, <1>5 DEF IInv, Unmatched, SameItem, Before
<1>15. Once'
  <2> SUFFICES ASSUME NEW x \in Exceptions, NEW y \in Exceptions,
                      Raised(x)', Raised(y)', x # y, SameItem(x, y), Before(x.run_id, y.run_id)'
               PROVE  x.assigned_to # NoUser
    BY DEF Once
  <2>1. Before(x.run_id, y.run_id)
    BY <1>1 DEF Before
  <2>2. CASE x = f
    BY <1>2, <2>2
  <2>3. CASE x # f /\ y = f
    <3>1. Raised(x) /\ x # e
      BY <1>4, <2>3
    <3> QED
      BY <1>2, <1>3, <2>1, <2>3, <3>1 DEF IInv, Once, SameItem
  <2>4. CASE x # f /\ y # f
    BY <1>4, <2>1, <2>4 DEF IInv, Once
  <2> QED
    BY <2>2, <2>3, <2>4
<1> QED
  BY <1>6, <1>7, <1>8, <1>9, <1>10, <1>11, <1>12, <1>13, <1>14, <1>15 DEF IInv

-----------------------------------------------------------------------------
(* The statements of a run. *)

\* A run begins with no rows, and nobody has rows of its before.
LEMMA BeginStep ==
  ASSUME IInv, NEW r \in Runs, NEW d \in Dates, NEW b \in Batches,
         NEW u \in Approvers \cup {NoUser}, Begin(r, d, b, u)
  PROVE  IInv'
<1>1. /\ UNCHANGED <<ledger_transactions, external_statement_lines, match_groups,
                     reconciliation_exceptions>>
      /\ runs[r].stage = "new"
      /\ \A q \in Runs : q # r => runs'[q] = runs[q]
      /\ runs'[r] = [ stage |-> "exact", runDate |-> d, batchId |-> b, triggeredBy |-> u,
                      due |-> {t \in ledger_transactions : LedgerTxn[t].value_date = d},
                      found |-> {}, groups |-> {}, exceptions |-> {},
                      after |-> {q \in Runs : Completed(q)} ]
      /\ \E l \in external_statement_lines : StatementLine[l].batch_id = b
  BY DEF Begin, Idle, IInv, TypeOK
<1>2. runs[r].groups = {} /\ runs[r].found = {} /\ runs[r].exceptions = {} /\ ~Completed(r)
  BY <1>1 DEF IInv, Owned, OwnRows, InFlight, Stages, Completed
<1>3. TypeOK'
  <2>1. runs'[r] \in RunStates
    BY <1>1 DEF RunStates, Stages, IInv, TypeOK
  <2>2. runs' \in [Runs -> RunStates]
    BY <2>1 DEF Begin, IInv, TypeOK
  <2> QED
    BY <1>1, <2>2 DEF IInv, TypeOK
<1>4. \A q \in Runs : Completed(q)' <=> Completed(q)
  BY <1>1, <1>2 DEF Completed
<1>5. Owned'
  <2>1. /\ \A g \in match_groups' : Completed(g.run_id)'
        /\ \A e \in reconciliation_exceptions' : Completed(e.run_id)'
    BY <1>1, <1>4 DEF IInv, Owned, OwnRows, TypeOK, Groups, Exceptions
  <2>2. \A q \in Runs : q # r => (InFlight(q)' <=> InFlight(q))
    BY <1>1 DEF InFlight
  <2>3. \A q \in Runs : \A p \in runs'[q].after : Completed(p)'
    BY <1>1, <1>4 DEF IInv, Owned, OwnRows, TypeOK, RunStates
  <2> QED
    BY <1>1, <2>1, <2>2, <2>3 DEF IInv, Owned, OwnRows
<1>6. Imported'
  BY <1>1 DEF IInv, Imported, DueTxns
<1>7. Accounted'
  <2>1. \A q \in Runs : q # r => SeenGroups(q)' = SeenGroups(q) /\ BatchLines(q)' = BatchLines(q)
    BY <1>1 DEF SeenGroups, BatchLines
  <2> QED
    BY <1>1, <2>1, AccountedKept DEF SameItem
<1>8. Balanced'
  <2>1. \A g \in match_groups : g.run_id # r
    BY <1>2 DEF IInv, Owned, OwnRows
  <2> QED
    BY <1>1, <2>1 DEF IInv, Balanced
<1>9. /\ \A g \in Groups : Made(g)' => Made(g) /\ g.run_id # r
      /\ \A e \in Exceptions : Raised(e)' => Raised(e) /\ e.run_id # r
  BY <1>1, <1>2 DEF Made, Raised, Groups, Exceptions, IInv, Owned, OwnRows
<1>10. Exclusive' /\ Shaped' /\ Unmatched' /\ Once'
  <2>1. /\ \A g \in Groups : g.run_id # r => runs'[g.run_id].after = runs[g.run_id].after
        /\ \A e \in Exceptions : e.run_id # r => runs'[e.run_id].after = runs[e.run_id].after
    BY <1>1 DEF Groups, Exceptions
  <2> QED
    BY <1>9, <2>1, HistoryKept
<1>11. Found'
  BY <1>1, <1>9, FoundKept
<1> QED
  BY <1>3, <1>5, <1>6, <1>7, <1>8, <1>10, <1>11 DEF IInv

\* What a step of a run in flight does to the run's own state and to nobody
\* else's: everything but the parts about the rows themselves.
LEMMA OwnStep ==
  ASSUME IInv, NEW r \in Runs, InFlight(r),
         UNCHANGED <<ledger_transactions, external_statement_lines>>,
         runs' \in [Runs -> RunStates],
         \A q \in Runs : q # r => runs'[q] = runs[q],
         runs'[r].due = runs[r].due, runs'[r].runDate = runs[r].runDate,
         runs'[r].batchId = runs[r].batchId, runs'[r].after = runs[r].after,
         runs'[r].stage \in Stages \cup {"COMPLETED"}
  PROVE  /\ Imported'
         /\ \A q \in Runs : BatchLines(q)' = BatchLines(q)
         /\ \A q \in Runs : Completed(q) => Completed(q)'
         /\ \A q \in Runs : \A p \in runs'[q].after : Completed(p)'
         /\ \A q \in Runs : runs'[q].after = runs[q].after
<1>1. \A q \in Runs : BatchLines(q)' = BatchLines(q) /\ DueTxns(q)' = DueTxns(q)
  BY DEF BatchLines, DueTxns
<1>2. runs[r].stage \notin {"new", "rolled_back"}
  BY DEF InFlight, Stages
<1>3. Imported'
  BY <1>1, <1>2 DEF IInv, Imported
<1>4. \A q \in Runs : Completed(q) => Completed(q)'
  BY DEF Completed, InFlight, Stages
<1>5. \A q \in Runs : runs'[q].after = runs[q].after
  OBVIOUS
<1>6. \A q \in Runs : \A p \in runs'[q].after : Completed(p)'
  BY <1>4, <1>5 DEF IInv, Owned, OwnRows, TypeOK, RunStates
<1> QED
  BY <1>1, <1>3, <1>4, <1>5, <1>6

\* A query finds groups of rows that are unmatched.
LEMMA FindStep ==
  ASSUME IInv, NEW r \in Runs, NEW stage, NEW next, NEW groups,
         Find(r, stage, next, groups),
         \/ stage = "exact" /\ next = "tolerance"
         \/ stage = "tolerance" /\ next = "settlement"
         \/ stage = "settlement" /\ next = "missing_external",
         \A g \in groups : \E T \in SUBSET UnmatchedTxns(r), l \in UnmatchedLines(r) :
             g = Group(T, l) /\ Balances(g, runs[r]),
         \A g, h \in groups : g # h => Disjoint(g, h)
  PROVE  IInv'
<1> DEFINE found == ByRun(r, groups)
<1>1. /\ UNCHANGED <<ledger_transactions, external_statement_lines, match_groups,
                     reconciliation_exceptions>>
      /\ \A q \in Runs : q # r => runs'[q] = runs[q]
      /\ runs'[r] = [runs[r] EXCEPT !.stage = next, !.found = found]
      /\ runs[r].stage = stage /\ runs[r].found = {}
      /\ runs[r] \in RunStates
  BY DEF Find, IInv, TypeOK
<1>2. /\ runs'[r].stage = next /\ runs'[r].found = found
      /\ runs'[r].runDate = runs[r].runDate /\ runs'[r].batchId = runs[r].batchId
      /\ runs'[r].due = runs[r].due /\ runs'[r].after = runs[r].after
      /\ runs'[r].groups = runs[r].groups /\ runs'[r].exceptions = runs[r].exceptions
  BY <1>1 DEF RunStates
<1>3. InFlight(r) /\ runs[r].exceptions = {}
  BY <1>1 DEF InFlight, Stages, IInv, Owned, OwnRows
<1>4. \A h \in found : /\ h \in Groups
                       /\ h.run_id = r
                       /\ h.ledger_lines \subseteq UnmatchedTxns(r)
                       /\ h.external_lines \subseteq UnmatchedLines(r)
                       /\ Balances(h, runs[r])
  <2> SUFFICES ASSUME NEW g \in groups,
                      NEW h, h = [ run_id |-> r, ledger_lines |-> g.ledger_lines,
                                   external_lines |-> g.external_lines ]
               PROVE  /\ h \in Groups
                      /\ h.run_id = r
                      /\ h.ledger_lines \subseteq UnmatchedTxns(r)
                      /\ h.external_lines \subseteq UnmatchedLines(r)
                      /\ Balances(h, runs[r])
    BY DEF ByRun
  <2>1. PICK T \in SUBSET UnmatchedTxns(r), l \in UnmatchedLines(r) :
            g = Group(T, l) /\ Balances(g, runs[r])
    OBVIOUS
  <2>2. UnmatchedTxns(r) \subseteq TxnIds /\ UnmatchedLines(r) \subseteq LineIds
    BY DEF UnmatchedTxns, UnmatchedLines, DueTxns, BatchLines, IInv, TypeOK
  <2>3. h.ledger_lines = T /\ h.external_lines = {l}
    BY <2>1 DEF Group
  <2>4. Balances(h, runs[r])
    BY <2>1 DEF Balances
  <2> QED
    BY <2>1, <2>2, <2>3, <2>4 DEF Groups
<1>5. \A g, h \in found : g # h => Disjoint(g, h)
  BY DEF ByRun, Disjoint
<1>6. TypeOK'
  <2>1. runs'[r] \in RunStates
    BY <1>1, <1>4 DEF RunStates, Stages
  <2>2. runs' \in [Runs -> RunStates]
    BY <2>1 DEF Find, IInv, TypeOK
  <2> QED
    BY <1>1, <2>2 DEF IInv, TypeOK
<1>7. /\ Imported'
      /\ \A q \in Runs : BatchLines(q)' = BatchLines(q)
      /\ \A q \in Runs : Completed(q) => Completed(q)'
      /\ \A q \in Runs : \A p \in runs'[q].after : Completed(p)'
      /\ \A q \in Runs : runs'[q].after = runs[q].after
  BY <1>1, <1>2, <1>3, <1>6, OwnStep DEF TypeOK, Stages
<1>8. Owned'
  <2>1. /\ \A g \in match_groups' : Completed(g.run_id)'
        /\ \A e \in reconciliation_exceptions' : Completed(e.run_id)'
    BY <1>1, <1>7 DEF IInv, Owned, OwnRows, TypeOK, Groups, Exceptions
  <2>2. InFlight(r)' /\ \A q \in Runs : q # r => (InFlight(q)' <=> InFlight(q))
    BY <1>1, <1>2 DEF InFlight, Stages
  <2>3. /\ \A g \in runs[r].groups \cup found : g.run_id = r
        /\ next \in {"tolerance", "settlement", "missing_external"}
    BY <1>4 DEF IInv, Owned, OwnRows
  <2> HIDE DEF found
  <2>4. ASSUME NEW q \in Runs, q # r
        PROVE  OwnRows(q)'
    BY <1>1, <1>7, <2>2, <2>4 DEF IInv, Owned, OwnRows
  <2>5. OwnRows(r)'
    BY <1>2, <1>3, <1>7, <2>2, <2>3 DEF IInv, Owned, OwnRows
  <2> QED
    BY <2>1, <2>4, <2>5 DEF Owned
<1>9. \A q \in Runs : SeenGroups(q)' = SeenGroups(q)
  BY <1>1, <1>2 DEF SeenGroups
<1>10. Accounted'
  BY <1>1, <1>2, <1>7, <1>9, AccountedKept DEF SameItem
<1>11. Balanced'
  <2>1. \A g : Balances(g, runs[r]) => Balances(g, runs'[r])
    BY <1>2, BalancesKept
  <2> QED
    BY <1>1, <1>2, <1>4, <2>1 DEF IInv, Balanced
<1>12. /\ \A g \in Groups : Made(g)' <=> Made(g)
       /\ \A e \in Exceptions : Raised(e)' <=> Raised(e)
  BY <1>1, <1>2 DEF Made, Raised, Groups, Exceptions
<1>13. Exclusive' /\ Shaped' /\ Unmatched' /\ Once'
  BY <1>7, <1>12, HistoryKept DEF Groups, Exceptions
<1>14. Found'
  <2> SUFFICES ASSUME NEW q \in Runs, NEW h \in runs'[q].found
               PROVE  /\ \A g \in runs'[q].found : g # h => Disjoint(g, h)
                      /\ \A g \in Groups : Made(g)' /\ Before(g.run_id, q)' =>
                            g.external_lines \cap h.external_lines = {}
    BY DEF Found
  <2>1. CASE q # r
    BY <1>1, <1>7, <1>12, <2>1 DEF IInv, Found, Before
  <2>2. CASE q = r
    <3>1. ASSUME NEW g \in Groups, Made(g)', Before(g.run_id, r)'
          PROVE  g.external_lines \cap h.external_lines = {}
      <4>1. g \in SeenGroups(r)
        BY <1>3, <1>7, <1>12, <3>1, SeesItsPast DEF Before
      <4>2. g.external_lines \subseteq MatchedLines(SeenGroups(r))
        BY <4>1 DEF MatchedLines
      <4> QED
        BY <1>2, <1>4, <2>2, <4>2 DEF UnmatchedLines
    <3> QED
      BY <1>2, <1>5, <2>2, <3>1
  <2> QED
    BY <2>1, <2>2
<1> QED
  BY <1>6, <1>7, <1>8, <1>10, <1>11, <1>13, <1>14 DEF IInv

\* The three queries find such groups.
LEMMA QueryFinds ==
  ASSUME IInv, NEW r \in Runs,
         FindExactMatches(r) \/ FindToleranceMatches(r) \/ FindBatchSettlements(r)
  PROVE  \E stage, next, groups :
           /\ Find(r, stage, next, groups)
           /\ \/ stage = "exact" /\ next = "tolerance"
              \/ stage = "tolerance" /\ next = "settlement"
              \/ stage = "settlement" /\ next = "missing_external"
           /\ \A g \in groups : \E T \in SUBSET UnmatchedTxns(r), l \in UnmatchedLines(r) :
                 g = Group(T, l) /\ Balances(g, runs[r])
           /\ \A g, h \in groups : g # h => Disjoint(g, h)
<1> DEFINE txns == UnmatchedTxns(r)
           lines == UnmatchedLines(r)
<1>1. /\ txns \subseteq TxnIds /\ lines \subseteq LineIds
      /\ \A t \in txns : LedgerTxn[t].value_date = runs[r].runDate
      /\ \A l \in lines : StatementLine[l].batch_id = runs[r].batchId
  BY DEF UnmatchedTxns, UnmatchedLines, DueTxns, BatchLines, IInv, TypeOK
<1>2. ASSUME NEW t \in txns, NEW l \in lines,
             ExactPair(t, l) \/ \E rule \in ToleranceRules : TolerancePair(rule, t, l)
      PROVE  Balances(Group({t}, l), runs[r])
  <2>1. SameAccount(t, l)
    BY <1>2 DEF ExactPair, TolerancePair, Alike
  <2> QED
    BY <1>1, <1>2, <2>1 DEF Balances, Group
<1>3. CASE FindExactMatches(r)
  <2>1. PICK M \in MutualBest(ExactCandidates(txns, lines)) :
            Find(r, "exact", "tolerance", PairGroups(M))
    BY <1>3 DEF FindExactMatches
  <2>2. \A p \in ExactCandidates(txns, lines) :
            p.txn \in txns /\ p.line \in lines /\ ExactPair(p.txn, p.line)
    BY DEF ExactCandidates, Pairs
  <2>3. \A g \in PairGroups(M) : \E T \in SUBSET txns, l \in lines :
            g = Group(T, l) /\ Balances(g, runs[r])
    <3> SUFFICES ASSUME NEW g \in PairGroups(M)
                 PROVE  \E T \in SUBSET txns, l \in lines :
                            g = Group(T, l) /\ Balances(g, runs[r])
      OBVIOUS
    <3>1. PICK p \in ExactCandidates(txns, lines) : g = Group({p.txn}, p.line)
      BY PairsAreDisjoint
    <3>2. {p.txn} \in SUBSET txns /\ p.line \in lines /\ Balances(g, runs[r])
      BY <1>2, <2>2, <3>1
    <3> QED
      BY <3>1, <3>2
  <2>4. \A g, h \in PairGroups(M) : g # h => Disjoint(g, h)
    BY PairsAreDisjoint
  <2> QED
    BY <2>1, <2>3, <2>4
<1>4. CASE FindToleranceMatches(r)
  <2>1. PICK M \in MutualBest(ToleranceCandidates(txns, lines)) :
            Find(r, "tolerance", "settlement", PairGroups(M))
    BY <1>4 DEF FindToleranceMatches
  <2>2. \A p \in ToleranceCandidates(txns, lines) :
            /\ p.txn \in txns /\ p.line \in lines
            /\ \E rule \in ToleranceRules : TolerancePair(rule, p.txn, p.line)
    BY DEF ToleranceCandidates, Pairs
  <2>3. \A g \in PairGroups(M) : \E T \in SUBSET txns, l \in lines :
            g = Group(T, l) /\ Balances(g, runs[r])
    <3> SUFFICES ASSUME NEW g \in PairGroups(M)
                 PROVE  \E T \in SUBSET txns, l \in lines :
                            g = Group(T, l) /\ Balances(g, runs[r])
      OBVIOUS
    <3>1. PICK p \in ToleranceCandidates(txns, lines) : g = Group({p.txn}, p.line)
      BY PairsAreDisjoint
    <3>2. {p.txn} \in SUBSET txns /\ p.line \in lines /\ Balances(g, runs[r])
      BY <1>2, <2>2, <3>1
    <3> QED
      BY <3>1, <3>2
  <2>4. \A g, h \in PairGroups(M) : g # h => Disjoint(g, h)
    BY PairsAreDisjoint
  <2> QED
    BY <2>1, <2>3, <2>4
<1>5. CASE FindBatchSettlements(r)
  <2>1. PICK settled \in Settlements(txns, lines) :
            Find(r, "settlement", "missing_external", SettlementGroups(settled))
    BY <1>5 DEF FindBatchSettlements
  <2>2. ASSUME NEW g \in SettlementGroups(settled)
        PROVE  \E T \in SUBSET txns, l \in lines : g = Group(T, l) /\ Balances(g, runs[r])
    <3>1. PICK l \in lines :
              /\ g = Group(settled[l], l)
              /\ settled[l] \subseteq {t \in txns : SameAccount(t, l)}
              /\ Total(settled[l]) = StatementLine[l].amount
      BY <1>1, SettlementsAreDisjoint
    <3>2. Balances(g, runs[r])
      BY <1>1, <3>1 DEF Balances, Group
    <3> QED
      BY <3>1, <3>2
  <2>3. \A g, h \in SettlementGroups(settled) : g # h => Disjoint(g, h)
    BY <1>1, SettlementsAreDisjoint
  <2> QED
    BY <2>1, <2>2, <2>3
<1> QED
  BY <1>3, <1>4, <1>5

LEMMA QueryStep ==
  ASSUME IInv, NEW r \in Runs,
         FindExactMatches(r) \/ FindToleranceMatches(r) \/ FindBatchSettlements(r)
  PROVE  IInv'
BY QueryFinds, FindStep

\* The trigger, the query's own condition on lines, and that the groups found
\* are disjoint, keep the run's groups exclusive when they are inserted.
LEMMA InsertStep ==
  ASSUME IInv, NEW r \in Runs, InsertMatchGroups(r)
  PROVE  IInv'
<1>1. /\ UNCHANGED <<ledger_transactions, external_statement_lines, match_groups,
                     reconciliation_exceptions>>
      /\ \A q \in Runs : q # r => runs'[q] = runs[q]
      /\ runs'[r] = [runs[r] EXCEPT !.groups = @ \cup runs[r].found, !.found = {}]
      /\ runs[r].found # {}
      /\ MatchedTxns(runs[r].found) \cap MatchedTxns(SeenGroups(r)) = {}
      /\ runs[r] \in RunStates
  BY DEF InsertMatchGroups, IInv, TypeOK
<1>2. /\ runs'[r].stage = runs[r].stage /\ runs'[r].found = {}
      /\ runs'[r].runDate = runs[r].runDate /\ runs'[r].batchId = runs[r].batchId
      /\ runs'[r].due = runs[r].due /\ runs'[r].after = runs[r].after
      /\ runs'[r].groups = runs[r].groups \cup runs[r].found
      /\ runs'[r].exceptions = runs[r].exceptions
  BY <1>1 DEF RunStates
<1>3. /\ runs[r].stage \in {"tolerance", "settlement", "missing_external"}
      /\ InFlight(r) /\ runs[r].exceptions = {}
  BY <1>1 DEF InFlight, Stages, IInv, Owned, OwnRows
<1>4. \A h \in runs[r].found : h \in Groups /\ h.run_id = r
  BY <1>1 DEF RunStates, IInv, Owned, OwnRows
<1>5. TypeOK'
  <2>1. runs'[r] \in RunStates
    BY <1>1 DEF RunStates
  <2>2. runs' \in [Runs -> RunStates]
    BY <2>1 DEF InsertMatchGroups, IInv, TypeOK
  <2> QED
    BY <1>1, <2>2 DEF IInv, TypeOK
<1>6. /\ Imported'
      /\ \A q \in Runs : BatchLines(q)' = BatchLines(q)
      /\ \A q \in Runs : Completed(q) => Completed(q)'
      /\ \A q \in Runs : \A p \in runs'[q].after : Completed(p)'
      /\ \A q \in Runs : runs'[q].after = runs[q].after
  BY <1>1, <1>2, <1>3, <1>5, OwnStep DEF TypeOK, Stages
<1>7. Owned'
  <2>1. /\ \A g \in match_groups' : Completed(g.run_id)'
        /\ \A e \in reconciliation_exceptions' : Completed(e.run_id)'
    BY <1>1, <1>6 DEF IInv, Owned, TypeOK, Groups, Exceptions
  <2>2. InFlight(r)' /\ \A q \in Runs : q # r => (InFlight(q)' <=> InFlight(q))
    BY <1>1, <1>2, <1>3 DEF InFlight
  <2>3. ASSUME NEW q \in Runs, q # r
        PROVE  OwnRows(q)'
    BY <1>1, <1>6, <2>2, <2>3 DEF IInv, Owned, OwnRows
  <2>4. OwnRows(r)'
    BY <1>2, <1>3, <1>4, <1>6, <2>2 DEF IInv, Owned, OwnRows
  <2> QED
    BY <2>1, <2>3, <2>4 DEF Owned
<1>8. Accounted'
  <2>1. \A q \in Runs : q # r => SeenGroups(q)' = SeenGroups(q)
    BY <1>1 DEF SeenGroups
  <2> QED
    BY <1>1, <1>2, <1>3, <1>6, <2>1, AccountedKept DEF SameItem
<1>9. Balanced'
  <2>1. \A g : Balances(g, runs[r]) => Balances(g, runs'[r])
    BY <1>2, BalancesKept
  <2> QED
    BY <1>1, <1>2, <2>1 DEF IInv, Balanced
<1>10. /\ \A g \in Groups : Made(g)' <=> Made(g) \/ g \in runs[r].found
       /\ \A e \in Exceptions : Raised(e)' <=> Raised(e)
  BY <1>1, <1>2, <1>4 DEF Made, Raised, Groups, Exceptions
<1>11. \A g \in Groups, h \in runs[r].found : Made(g) /\ Before(g.run_id, r) => Disjoint(g, h)
  <2> SUFFICES ASSUME NEW g \in Groups, NEW h \in runs[r].found, Made(g), Before(g.run_id, r)
               PROVE  Disjoint(g, h)
    OBVIOUS
  <2>1. g \in SeenGroups(r)
    BY <1>3, SeesItsPast
  <2>2. g.ledger_lines \cap h.ledger_lines = {}
    BY <1>1, <2>1 DEF MatchedTxns
  <2>3. g.external_lines \cap h.external_lines = {}
    BY DEF IInv, Found
  <2> QED
    BY <2>2, <2>3 DEF Disjoint
<1>12. \A s \in Runs : Before(r, s) => s = r
  BY <1>3, SeesItsPast
<1>13. Exclusive'
  <2> SUFFICES ASSUME NEW g \in Groups, NEW h \in Groups, Made(g)', Made(h)', g # h,
                      Before(g.run_id, h.run_id)
               PROVE  Disjoint(g, h)
    BY <1>6 DEF Exclusive, Before, Groups
  <2>1. CASE g \in runs[r].found /\ h \in runs[r].found
    BY <2>1 DEF IInv, Found
  <2>2. CASE g \notin runs[r].found /\ h \in runs[r].found
    BY <1>4, <1>10, <1>11, <2>2
  <2>3. CASE g \in runs[r].found /\ h \notin runs[r].found
    <3>1. h.run_id = r
      BY <1>4, <1>12, <2>3 DEF Groups
    <3>2. Disjoint(h, g)
      BY <1>10, <1>11, <2>3, <3>1 DEF Before
    <3> QED
      BY <3>2 DEF Disjoint
  <2>4. CASE g \notin runs[r].found /\ h \notin runs[r].found
    BY <1>10, <2>4 DEF IInv, Exclusive
  <2> QED
    BY <2>1, <2>2, <2>3, <2>4
<1>14. Found'
  <2> SUFFICES ASSUME NEW q \in Runs, q # r, NEW h \in runs[q].found
               PROVE  /\ \A g \in runs[q].found : g # h => Disjoint(g, h)
                      /\ \A g \in Groups : Made(g)' /\ Before(g.run_id, q) =>
                            g.external_lines \cap h.external_lines = {}
    BY <1>1, <1>2, <1>6 DEF Found, Before
  <2>1. \A g \in runs[q].found : g # h => Disjoint(g, h)
    BY DEF IInv, Found
  <2>2. \A g \in Groups : Made(g)' /\ Before(g.run_id, q) => Made(g)
    BY <1>4, <1>10, <1>12
  <2> QED
    BY <2>1, <2>2 DEF IInv, Found
<1>15. Shaped'
  BY <1>10 DEF IInv, Shaped
<1>16. Unmatched'
  <2> SUFFICES ASSUME NEW e \in Exceptions, NEW g \in Groups, Raised(e), Made(g)',
                      Before(g.run_id, e.run_id)
               PROVE  e.ledger_txn_id \notin g.ledger_lines /\ e.ext_line_id \notin g.external_lines
    BY <1>6, <1>10 DEF Unmatched, Before, Exceptions
  <2>1. CASE Made(g)
    BY <2>1 DEF IInv, Unmatched
  <2>2. CASE g \in runs[r].found
    <3>1. e.run_id = r
      BY <1>4, <1>12, <2>2 DEF Exceptions
    <3>2. e \in reconciliation_exceptions
      BY <1>3, <3>1 DEF Raised
    <3> QED
      BY <1>3, <3>1, <3>2 DEF IInv, Owned, Completed, InFlight, Stages
  <2> QED
    BY <1>10, <2>1, <2>2
<1>17. Once'
  BY <1>6, <1>10 DEF IInv, Once, Before, Exceptions
<1> QED
  BY <1>5, <1>6, <1>7, <1>8, <1>9, <1>13, <1>14, <1>15, <1>16, <1>17 DEF IInv

\* What an exception statement must satisfy: its exceptions are for items that
\* the run sees in no group and in no exception, and account for all the others.
LEMMA ExceptStep ==
  ASSUME IInv, NEW r \in Runs, NEW stage, NEW next, NEW exceptions,
         Except(r, stage, next, exceptions),
         \/ stage = "missing_external" /\ next = "missing_internal"
         \/ stage = "missing_internal" /\ next = "complete",
         \A f \in exceptions :
             /\ f \in Exceptions /\ f.run_id = r /\ f.assigned_to = NoUser
             /\ f.ledger_txn_id = NoRow <=> f.ext_line_id # NoRow
             /\ f.ledger_txn_id \notin MatchedTxns(SeenGroups(r))
             /\ f.ext_line_id \notin MatchedLines(SeenGroups(r))
             /\ \A e \in SeenExceptions(r) : ~SameItem(e, f),
         \A e, f \in exceptions : SameItem(e, f) => e = f,
         next = "missing_internal" =>
             \A t \in runs[r].due :
                 \/ t \in MatchedTxns(SeenGroups(r))
                 \/ \E e \in SeenExceptions(r) \cup exceptions : e.ledger_txn_id = t,
         next = "complete" =>
             \A l \in BatchLines(r) :
                 StatementLine[l].value_date = runs[r].runDate =>
                     \/ l \in MatchedLines(SeenGroups(r))
                     \/ \E e \in SeenExceptions(r) \cup exceptions : e.ext_line_id = l
  PROVE  IInv'
<1>1. /\ UNCHANGED <<ledger_transactions, external_statement_lines, match_groups,
                     reconciliation_exceptions>>
      /\ \A q \in Runs : q # r => runs'[q] = runs[q]
      /\ runs'[r] = [runs[r] EXCEPT !.stage = next, !.exceptions = @ \cup exceptions]
      /\ runs[r].stage = stage /\ runs[r].found = {}
      /\ runs[r] \in RunStates
  BY DEF Except, IInv, TypeOK
<1>2. /\ runs'[r].stage = next /\ runs'[r].found = {}
      /\ runs'[r].runDate = runs[r].runDate /\ runs'[r].batchId = runs[r].batchId
      /\ runs'[r].due = runs[r].due /\ runs'[r].after = runs[r].after
      /\ runs'[r].groups = runs[r].groups
      /\ runs'[r].exceptions = runs[r].exceptions \cup exceptions
  BY <1>1 DEF RunStates
<1>3. InFlight(r)
  BY <1>1 DEF InFlight, Stages
<1>4. TypeOK'
  <2>1. runs'[r] \in RunStates
    BY <1>1 DEF RunStates, Stages
  <2>2. runs' \in [Runs -> RunStates]
    BY <2>1 DEF Except, IInv, TypeOK
  <2> QED
    BY <1>1, <2>2 DEF IInv, TypeOK
<1>5. /\ Imported'
      /\ \A q \in Runs : BatchLines(q)' = BatchLines(q)
      /\ \A q \in Runs : Completed(q) => Completed(q)'
      /\ \A q \in Runs : \A p \in runs'[q].after : Completed(p)'
      /\ \A q \in Runs : runs'[q].after = runs[q].after
  BY <1>1, <1>2, <1>3, <1>4, OwnStep DEF TypeOK, Stages
<1>6. Owned'
  <2>1. /\ \A g \in match_groups' : Completed(g.run_id)'
        /\ \A e \in reconciliation_exceptions' : Completed(e.run_id)'
    BY <1>1, <1>5 DEF IInv, Owned, TypeOK, Groups, Exceptions
  <2>2. InFlight(r)' /\ \A q \in Runs : q # r => (InFlight(q)' <=> InFlight(q))
    BY <1>1, <1>2 DEF InFlight, Stages
  <2>3. ASSUME NEW q \in Runs, q # r
        PROVE  OwnRows(q)'
    BY <1>1, <1>5, <2>2, <2>3 DEF IInv, Owned, OwnRows
  <2>4. OwnRows(r)'
    BY <1>1, <1>2, <1>5, <2>2 DEF IInv, Owned, OwnRows
  <2> QED
    BY <2>1, <2>3, <2>4 DEF Owned
<1>7. Accounted'
  <2>1. \A q \in Runs : SeenGroups(q)' = SeenGroups(q)
    BY <1>1, <1>2 DEF SeenGroups
  <2>2. SeenExceptions(r) \cup exceptions \subseteq
            reconciliation_exceptions' \cup runs'[r].exceptions
    BY <1>1, <1>2 DEF SeenExceptions
  <2>3. ASSUME NEW t \in runs[r].due
        PROVE  \/ t \in MatchedTxns(SeenGroups(r))
               \/ \E e \in reconciliation_exceptions' \cup runs'[r].exceptions :
                     e.ledger_txn_id = t
    <3>1. CASE next = "missing_internal"
      BY <2>2, <3>1
    <3>2. CASE stage = "missing_internal"
      <4>1. \/ t \in MatchedTxns(SeenGroups(r))
            \/ \E e \in reconciliation_exceptions \cup runs[r].exceptions : e.ledger_txn_id = t
        BY <1>1, <3>2 DEF IInv, Accounted
      <4> QED
        BY <1>1, <1>2, <4>1
    <3> QED
      BY <3>1, <3>2
  <2>4. ASSUME next = "complete", NEW l \in BatchLines(r), StatementLine[l].value_date = runs[r].runDate
        PROVE  \/ l \in MatchedLines(SeenGroups(r))
               \/ \E e \in reconciliation_exceptions' \cup runs'[r].exceptions : e.ext_line_id = l
    BY <2>2, <2>4
  <2>5. ASSUME NEW q \in Runs, runs'[q].stage \in {"missing_internal", "complete", "COMPLETED"},
               NEW t \in runs'[q].due
        PROVE  \/ t \in MatchedTxns(SeenGroups(q)')
               \/ \E e \in reconciliation_exceptions' \cup runs'[q].exceptions : e.ledger_txn_id = t
    <3>1. CASE q = r
      BY <1>2, <2>1, <2>3, <3>1
    <3>2. CASE q # r
      BY <1>1, <2>1, <2>5, <3>2 DEF IInv, Accounted
    <3> QED
      BY <3>1, <3>2
  <2>6. ASSUME NEW q \in Runs, runs'[q].stage \in {"complete", "COMPLETED"},
               NEW l \in BatchLines(q)', StatementLine[l].value_date = runs'[q].runDate
        PROVE  \/ l \in MatchedLines(SeenGroups(q)')
               \/ \E e \in reconciliation_exceptions' \cup runs'[q].exceptions : e.ext_line_id = l
    <3>1. CASE q = r
      BY <1>2, <1>5, <2>1, <2>4, <2>6, <3>1
    <3>2. CASE q # r
      BY <1>1, <1>5, <2>1, <2>6, <3>2 DEF IInv, Accounted
    <3> QED
      BY <3>1, <3>2
  <2> QED
    BY <2>5, <2>6 DEF Accounted, MatchedTxns, MatchedLines
<1>8. Balanced'
  <2>1. \A g : Balances(g, runs[r]) => Balances(g, runs'[r])
    BY <1>2, BalancesKept
  <2> QED
    BY <1>1, <1>2, <2>1 DEF IInv, Balanced
<1>9. /\ \A g \in Groups : Made(g)' <=> Made(g)
      /\ \A e \in Exceptions : Raised(e)' <=> Raised(e) \/ e \in exceptions
  BY <1>1, <1>2 DEF Made, Raised, Groups, Exceptions
<1>10. Exclusive'
  BY <1>5, <1>9 DEF IInv, Exclusive, Before, Groups
<1>11. Found'
  BY <1>1, <1>2, <1>9, FoundKept
<1>12. Shaped'
  BY <1>9 DEF IInv, Shaped
<1>13. Unmatched'
  <2> SUFFICES ASSUME NEW e \in Exceptions, NEW g \in Groups, Raised(e)', Made(g),
                      Before(g.run_id, e.run_id)
               PROVE  e.ledger_txn_id \notin g.ledger_lines /\ e.ext_line_id \notin g.external_lines
    BY <1>5, <1>9 DEF Unmatched, Before, Exceptions
  <2>1. CASE Raised(e)
    BY <2>1 DEF IInv, Unmatched
  <2>2. CASE e \in exceptions
    <3>1. g \in SeenGroups(r)
      BY <1>3, <2>2, SeesItsPast
    <3> QED
      BY <2>2, <3>1 DEF MatchedTxns, MatchedLines
  <2> QED
    BY <1>9, <2>1, <2>2
<1>14. Once'
  <2> SUFFICES ASSUME NEW e \in Exceptions, NEW f \in Exceptions, Raised(e)', Raised(f)', e # f,
                      SameItem(e, f), Before(e.run_id, f.run_id)
               PROVE  e.assigned_to # NoUser
    BY <1>5 DEF Once, Before, Exceptions
  <2>1. CASE Raised(e) /\ Raised(f)
    BY <2>1 DEF IInv, Once
  <2>2. CASE Raised(e) /\ f \in exceptions
    <3>1. e \in SeenExceptions(r) \/ e.assigned_to # NoUser
      BY <1>3, <2>2, SeesItsPast
    <3> QED
      BY <2>2, <3>1
  <2>3. CASE e \in exceptions /\ f \in exceptions
    BY <2>3
  <2>4. CASE e \in exceptions /\ Raised(f)
    <3>1. f.run_id = r
      BY <1>3, <2>4, SeesItsPast DEF Exceptions
    <3>2. f \in runs[r].exceptions
      BY <1>3, <2>4, <3>1 DEF Raised, IInv, Owned, Completed, InFlight, Stages
    <3>3. f \in SeenExceptions(r) /\ SameItem(f, e)
      BY <3>2 DEF SeenExceptions, SameItem
    <3> QED
      BY <2>4, <3>3
  <2> QED
    BY <1>9, <2>1, <2>2, <2>3, <2>4
<1> QED
  BY <1>4, <1>5, <1>6, <1>7, <1>8, <1>10, <1>11, <1>12, <1>13, <1>14 DEF IInv

\* NoRow is the id of no row.
LEMMA NoRowIsNoId ==
  NoRow \notin TxnIds /\ NoRow \notin LineIds
BY MatchingAssumption DEF NoRow

\* The two statements of generateExceptionsForUnmatched raise such exceptions.
LEMMA MissingStep ==
  ASSUME IInv, NEW r \in Runs, MissingExternal(r) \/ MissingInternal(r)
  PROVE  IInv'
<1>1. /\ SeenGroups(r) \subseteq Groups
      /\ DueTxns(r) \subseteq TxnIds
      /\ BatchLines(r) \subseteq LineIds
      /\ runs[r].due \subseteq DueTxns(r)
  BY DEF SeenGroups, DueTxns, BatchLines, IInv, TypeOK, RunStates, Imported
<1>2. NoRow \notin MatchedTxns(SeenGroups(r)) /\ NoRow \notin MatchedLines(SeenGroups(r))
  BY <1>1, NoRowIsNoId DEF MatchedTxns, MatchedLines, Groups
<1>3. CASE MissingExternal(r)
  <2> DEFINE missing == {u \in UnmatchedTxns(r) : \A e \in SeenExceptions(r) : e.ledger_txn_id # u}
             exceptions == {Exception(r, t, NoRow) : t \in missing}
  <2>1. Except(r, "missing_external", "missing_internal", exceptions)
    BY <1>3 DEF MissingExternal
  <2>2. missing \subseteq TxnIds /\ missing \cap MatchedTxns(SeenGroups(r)) = {}
    BY <1>1 DEF UnmatchedTxns
  <2>3. \A f \in exceptions :
            /\ f \in Exceptions /\ f.run_id = r /\ f.assigned_to = NoUser
            /\ f.ledger_txn_id \in missing /\ f.ext_line_id = NoRow
    BY <2>2 DEF Exception, Exceptions
  <2>4. \A f \in exceptions : f.ledger_txn_id # NoRow
    BY <2>2, <2>3, NoRowIsNoId
  <2>5. \A e, f \in exceptions : SameItem(e, f) => e = f
    BY DEF Exception, SameItem
  <2>6. \A f \in exceptions : \A e \in SeenExceptions(r) : ~SameItem(e, f)
    BY <2>3 DEF SameItem
  <2>7. ASSUME NEW t \in runs[r].due
        PROVE  \/ t \in MatchedTxns(SeenGroups(r))
               \/ \E e \in SeenExceptions(r) \cup exceptions : e.ledger_txn_id = t
    <3>1. CASE t \in missing
      <4>1. Exception(r, t, NoRow) \in exceptions /\ Exception(r, t, NoRow).ledger_txn_id = t
        BY <3>1 DEF Exception
      <4> QED
        BY <4>1
    <3>2. CASE t \notin missing
      BY <1>1, <3>2 DEF UnmatchedTxns
    <3> QED
      BY <3>1, <3>2
  <2>8. \A f \in exceptions : /\ f.ledger_txn_id \notin MatchedTxns(SeenGroups(r))
                              /\ f.ext_line_id \notin MatchedLines(SeenGroups(r))
    BY <1>2, <2>2, <2>3
  <2> HIDE DEF exceptions
  <2> QED
    BY <2>1, <2>3, <2>4, <2>5, <2>6, <2>7, <2>8, ExceptStep
<1>4. CASE MissingInternal(r)
  <2> DEFINE missing == { k \in UnmatchedLines(r) :
                            /\ StatementLine[k].value_date = runs[r].runDate
                            /\ \A e \in SeenExceptions(r) : e.ext_line_id # k }
             exceptions == {Exception(r, NoRow, l) : l \in missing}
  <2>1. Except(r, "missing_internal", "complete", exceptions)
    BY <1>4 DEF MissingInternal
  <2>2. missing \subseteq LineIds /\ missing \cap MatchedLines(SeenGroups(r)) = {}
    BY <1>1 DEF UnmatchedLines
  <2>3. \A f \in exceptions :
            /\ f \in Exceptions /\ f.run_id = r /\ f.assigned_to = NoUser
            /\ f.ext_line_id \in missing /\ f.ledger_txn_id = NoRow
    BY <2>2 DEF Exception, Exceptions
  <2>4. \A f \in exceptions : f.ext_line_id # NoRow
    BY <2>2, <2>3, NoRowIsNoId
  <2>5. \A e, f \in exceptions : SameItem(e, f) => e = f
    BY DEF Exception, SameItem
  <2>6. \A f \in exceptions : \A e \in SeenExceptions(r) : ~SameItem(e, f)
    BY <2>3 DEF SameItem
  <2>7. ASSUME NEW l \in BatchLines(r), StatementLine[l].value_date = runs[r].runDate
        PROVE  \/ l \in MatchedLines(SeenGroups(r))
               \/ \E e \in SeenExceptions(r) \cup exceptions : e.ext_line_id = l
    <3>1. CASE l \in missing
      <4>1. Exception(r, NoRow, l) \in exceptions /\ Exception(r, NoRow, l).ext_line_id = l
        BY <3>1 DEF Exception
      <4> QED
        BY <4>1
    <3>2. CASE l \notin missing
      BY <2>7, <3>2 DEF UnmatchedLines
    <3> QED
      BY <3>1, <3>2
  <2>8. \A f \in exceptions : /\ f.ledger_txn_id \notin MatchedTxns(SeenGroups(r))
                              /\ f.ext_line_id \notin MatchedLines(SeenGroups(r))
    BY <1>2, <2>2, <2>3
  <2> HIDE DEF exceptions
  <2> QED
    BY <2>1, <2>3, <2>4, <2>5, <2>6, <2>7, <2>8, ExceptStep
<1> QED
  BY <1>3, <1>4

\* Nothing is left of a run that is rolled back, and nothing it had written was
\* visible to others.
LEMMA RollBackStep ==
  ASSUME IInv, NEW r \in Runs, RollBack(r)
  PROVE  IInv'
<1>1. /\ UNCHANGED <<ledger_transactions, external_statement_lines, match_groups,
                     reconciliation_exceptions>>
      /\ InFlight(r) /\ ~Completed(r)
      /\ \A q \in Runs : q # r => runs'[q] = runs[q]
      /\ runs'[r] = [ stage |-> "rolled_back", runDate |-> NoRow, batchId |-> NoRow,
                      triggeredBy |-> NoUser, due |-> {}, found |-> {}, groups |-> {},
                      exceptions |-> {}, after |-> {} ]
  BY DEF RollBack, Idle, IInv, TypeOK, InFlight, Stages, Completed
<1>2. TypeOK'
  <2>1. runs'[r] \in RunStates
    BY <1>1 DEF RunStates
  <2>2. runs' \in [Runs -> RunStates]
    BY <2>1 DEF RollBack, IInv, TypeOK
  <2> QED
    BY <1>1, <2>2 DEF IInv, TypeOK
<1>3. \A q \in Runs : Completed(q)' <=> Completed(q)
  BY <1>1 DEF Completed
<1>4. Owned'
  <2>1. /\ \A g \in match_groups' : Completed(g.run_id)'
        /\ \A e \in reconciliation_exceptions' : Completed(e.run_id)'
    BY <1>1, <1>3 DEF IInv, Owned, TypeOK, Groups, Exceptions
  <2>2. \A q \in Runs : q # r => (InFlight(q)' <=> InFlight(q))
    BY <1>1 DEF InFlight
  <2>3. \A q \in Runs : \A p \in runs'[q].after : Completed(p)'
    BY <1>1, <1>3 DEF IInv, Owned, OwnRows, TypeOK, RunStates
  <2> QED
    BY <1>1, <2>1, <2>2, <2>3 DEF IInv, Owned, OwnRows
<1>5. Imported'
  BY <1>1 DEF IInv, Imported, DueTxns
<1>6. Accounted'
  <2>1. \A q \in Runs : q # r => SeenGroups(q)' = SeenGroups(q) /\ BatchLines(q)' = BatchLines(q)
    BY <1>1 DEF SeenGroups, BatchLines
  <2> QED
    BY <1>1, <2>1, AccountedKept DEF SameItem
<1>7. Balanced'
  <2>1. \A g \in match_groups : g.run_id # r
    BY <1>1 DEF IInv, Owned
  <2> QED
    BY <1>1, <2>1 DEF IInv, Balanced
<1>8. /\ \A g \in Groups : Made(g)' => Made(g) /\ g.run_id # r
      /\ \A e \in Exceptions : Raised(e)' => Raised(e) /\ e.run_id # r
  BY <1>1 DEF Made, Raised, Groups, Exceptions, IInv, Owned
<1>9. Exclusive' /\ Shaped' /\ Unmatched' /\ Once'
  <2>1. /\ \A g \in Groups : g.run_id # r => runs'[g.run_id].after = runs[g.run_id].after
        /\ \A e \in Exceptions : e.run_id # r => runs'[e.run_id].after = runs[e.run_id].after
    BY <1>1 DEF Groups, Exceptions
  <2> QED
    BY <1>8, <2>1, HistoryKept
<1>10. Found'
  BY <1>1, <1>8, FoundKept
<1> QED
  BY <1>2, <1>4, <1>5, <1>6, <1>7, <1>9, <1>10 DEF IInv

\* A run's rows become visible to others together with its completion.
LEMMA CompleteStep ==
  ASSUME IInv, NEW r \in Runs, CompleteRun(r)
  PROVE  IInv'
<1>1. /\ UNCHANGED <<ledger_transactions, external_statement_lines>>
      /\ match_groups' = match_groups \cup runs[r].groups
      /\ reconciliation_exceptions' = reconciliation_exceptions \cup runs[r].exceptions
      /\ \A q \in Runs : q # r => runs'[q] = runs[q]
      /\ runs'[r] = [runs[r] EXCEPT !.stage = "COMPLETED", !.groups = {}, !.exceptions = {}]
      /\ runs[r].stage = "complete"
      /\ runs[r] \in RunStates
  BY DEF CompleteRun, IInv, TypeOK
<1>2. /\ runs'[r].stage = "COMPLETED" /\ runs'[r].found = runs[r].found
      /\ runs'[r].runDate = runs[r].runDate /\ runs'[r].batchId = runs[r].batchId
      /\ runs'[r].due = runs[r].due /\ runs'[r].after = runs[r].after
      /\ runs'[r].groups = {} /\ runs'[r].exceptions = {}
  BY <1>1 DEF RunStates
<1>3. /\ InFlight(r) /\ runs[r].found = {}
      /\ \A g \in runs[r].groups : g.run_id = r
      /\ \A e \in runs[r].exceptions : e.run_id = r
  BY <1>1 DEF InFlight, Stages, IInv, Owned, OwnRows
<1>4. TypeOK'
  <2>1. runs'[r] \in RunStates
    BY <1>1 DEF RunStates
  <2>2. runs' \in [Runs -> RunStates]
    BY <2>1 DEF CompleteRun, IInv, TypeOK
  <2>3. runs[r].groups \subseteq Groups /\ runs[r].exceptions \subseteq Exceptions
    BY <1>1 DEF RunStates
  <2> QED
    BY <1>1, <2>2, <2>3 DEF IInv, TypeOK
<1>5. /\ Imported'
      /\ \A q \in Runs : BatchLines(q)' = BatchLines(q)
      /\ \A q \in Runs : Completed(q) => Completed(q)'
      /\ \A q \in Runs : \A p \in runs'[q].after : Completed(p)'
      /\ \A q \in Runs : runs'[q].after = runs[q].after
  BY <1>1, <1>2, <1>3, <1>4, OwnStep DEF TypeOK
<1>6. Owned'
  <2>1. Completed(r)' /\ \A q \in Runs : q # r => (InFlight(q)' <=> InFlight(q))
    BY <1>1, <1>2 DEF InFlight, Completed
  <2>2. \A g \in match_groups' : Completed(g.run_id)'
    BY <1>1, <1>3, <1>5, <2>1 DEF IInv, Owned, TypeOK, Groups
  <2>3. \A e \in reconciliation_exceptions' : Completed(e.run_id)'
    BY <1>1, <1>3, <1>5, <2>1 DEF IInv, Owned, TypeOK, Exceptions
  <2>4. ASSUME NEW q \in Runs, q # r
        PROVE  OwnRows(q)'
    BY <1>1, <1>5, <2>1, <2>4 DEF IInv, Owned, OwnRows
  <2>5. OwnRows(r)'
    BY <1>2, <1>3, <1>5 DEF OwnRows
  <2> QED
    BY <2>2, <2>3, <2>4, <2>5 DEF Owned
<1>7. Accounted'
  <2>1. \A q \in Runs : SeenGroups(q) \subseteq SeenGroups(q)'
    BY <1>1, <1>2 DEF SeenGroups
  <2>2. \A q \in Runs : reconciliation_exceptions \cup runs[q].exceptions \subseteq
                            reconciliation_exceptions' \cup runs'[q].exceptions
    BY <1>1, <1>2
  <2> QED
    BY <1>1, <1>2, <1>5, <2>1, <2>2, AccountedKept DEF SameItem
<1>8. Balanced'
  <2>1. \A g : Balances(g, runs[r]) => Balances(g, runs'[r])
    BY <1>2, BalancesKept
  <2> QED
    BY <1>1, <1>2, <1>3, <2>1 DEF IInv, Balanced
<1>9. /\ \A g \in Groups : Made(g)' <=> Made(g)
      /\ \A e \in Exceptions : Raised(e)' <=> Raised(e)
  BY <1>1, <1>2, <1>3 DEF Made, Raised, Groups, Exceptions
<1>10. Exclusive' /\ Shaped' /\ Unmatched' /\ Once'
  BY <1>5, <1>9, HistoryKept DEF Groups, Exceptions
<1>11. Found'
  BY <1>1, <1>2, <1>9, FoundKept
<1> QED
  BY <1>4, <1>5, <1>6, <1>7, <1>8, <1>10, <1>11 DEF IInv

-----------------------------------------------------------------------------
(* The theorems. *)

LEMMA InitIInv ==
  Init => IInv
<1> SUFFICES ASSUME Init PROVE IInv
  OBVIOUS
<1>1. /\ match_groups = {} /\ reconciliation_exceptions = {}
      /\ \A r \in Runs : runs[r] = Idle
  BY DEF Init
<1>2. Idle \in RunStates
  BY DEF Idle, RunStates
<1>3. TypeOK
  BY <1>2 DEF Init, TypeOK
<1>4. Owned /\ Imported /\ Accounted /\ Balanced /\ Found
  BY <1>1 DEF Idle, Owned, OwnRows, Imported, Accounted, Balanced, Found
<1>5. (\A g \in Groups : ~Made(g)) /\ (\A e \in Exceptions : ~Raised(e))
  BY <1>1 DEF Idle, Made, Raised, Groups, Exceptions
<1>6. Shaped /\ Exclusive /\ Unmatched /\ Once
  BY <1>5 DEF Shaped, Exclusive, Unmatched, Once
<1> QED
  BY <1>3, <1>4, <1>6 DEF IInv

LEMMA NextIInv ==
  IInv /\ [Next]_vars => IInv'
<1> SUFFICES ASSUME IInv, [Next]_vars PROVE IInv'
  OBVIOUS
<1>1. CASE \E b \in LedgerBatches : ImportLedger(b)
  BY <1>1, ImportStep
<1>2. CASE \E b \in Batches : ImportStatement(b)
  BY <1>2, ImportStep
<1>3. ASSUME NEW e \in reconciliation_exceptions, NEW u \in Users, Assign(e, u)
      PROVE  IInv'
  BY <1>3, AssignStep
<1>4. ASSUME NEW r \in Runs, NEW d \in Dates, NEW b \in Batches,
             NEW u \in Approvers \cup {NoUser}, Begin(r, d, b, u)
      PROVE  IInv'
  BY <1>4, BeginStep
<1>5. ASSUME NEW r \in Runs, Statement(r)
      PROVE  IInv'
  <2>1. CASE FindExactMatches(r) \/ FindToleranceMatches(r) \/ FindBatchSettlements(r)
    BY <2>1, QueryStep
  <2>2. CASE InsertMatchGroups(r)
    BY <2>2, InsertStep
  <2>3. CASE MissingExternal(r) \/ MissingInternal(r)
    BY <2>3, MissingStep
  <2>4. CASE CompleteRun(r)
    BY <2>4, CompleteStep
  <2>5. CASE RollBack(r)
    BY <2>5, RollBackStep
  <2> QED
    BY <1>5, <2>1, <2>2, <2>3, <2>4, <2>5 DEF Statement
<1>6. CASE UNCHANGED vars
  <2>1. UNCHANGED <<ledger_transactions, external_statement_lines, match_groups,
                    reconciliation_exceptions, runs>>
    BY <1>6 DEF vars
  <2>2. TypeOK' /\ Owned' /\ Imported' /\ Balanced'
    BY <2>1 DEF IInv, TypeOK, Owned, OwnRows, InFlight, Completed, Imported, DueTxns, Balanced
  <2>3. (\A g : Made(g)' <=> Made(g)) /\ (\A e : Raised(e)' <=> Raised(e))
    BY <2>1 DEF Made, Raised
  <2>4. Exclusive' /\ Shaped' /\ Unmatched' /\ Once' /\ Found'
    BY <2>1, <2>3, HistoryKept, FoundKept
  <2>5. Accounted'
    BY <2>1 DEF IInv, Accounted, SeenGroups, BatchLines
  <2> QED
    BY <2>2, <2>4, <2>5 DEF IInv
<1> QED
  BY <1>1, <1>2, <1>3, <1>4, <1>5, <1>6 DEF Next

\* IInv is invariant: runs keep to their own rows, account for what they are
\* about, and match and except nothing that they can see to be taken.
THEOREM Invariance == Spec => []IInv
BY InitIInv, NextIInv, PTL DEF Spec

\* Every value has its type, in every reachable state.
THEOREM TypeCorrect == Spec => []TypeOK
<1>1. IInv => TypeOK
  BY DEF IInv
<1> QED
  BY <1>1, Invariance, PTL

\* Nothing that a run in flight, or one that was rolled back, has written is
\* visible to others: the rows appear with the run's completion
\* (runReconciliation is one transaction).
THEOREM RunsAreAtomic == Spec => []AllOrNothing
<1>1. IInv => AllOrNothing
  BY DEF IInv, Owned, AllOrNothing
<1> QED
  BY <1>1, Invariance, PTL

\* Whatever overlaps with a run, every transaction that was due when it began
\* and every line of its batch and date is in a group or has an exception when
\* it has completed (the four passes of runReconciliation).
THEOREM NothingFallsThrough == Spec => []EveryDueItemAccounted
<1>1. ASSUME IInv, NEW r \in Runs, Completed(r)
      PROVE  /\ \A t \in runs[r].due : t \in MatchedTxns(match_groups) \/ Excepted(t, NoRow)
             /\ \A l \in BatchLines(r) :
                   StatementLine[l].value_date = runs[r].runDate =>
                       l \in MatchedLines(match_groups) \/ Excepted(NoRow, l)
  <2>1. runs[r].groups = {} /\ runs[r].exceptions = {}
    BY <1>1 DEF IInv, Owned, OwnRows, Completed, InFlight, Stages
  <2>2. SeenGroups(r) = match_groups
    BY <2>1 DEF SeenGroups
  <2>3. \A e \in reconciliation_exceptions :
            e.ledger_txn_id = NoRow <=> e.ext_line_id # NoRow
    BY <1>1 DEF IInv, TypeOK, Shaped, Raised
  <2>4. runs[r].due \subseteq TxnIds /\ BatchLines(r) \subseteq LineIds
    BY <1>1 DEF IInv, TypeOK, RunStates, BatchLines
  <2>5. ASSUME NEW t \in runs[r].due
        PROVE  t \in MatchedTxns(match_groups) \/ Excepted(t, NoRow)
    <3>1. \/ t \in MatchedTxns(match_groups)
          \/ \E e \in reconciliation_exceptions : e.ledger_txn_id = t
      BY <1>1, <2>1, <2>2 DEF IInv, Accounted, Completed
    <3> QED
      BY <2>3, <2>4, <3>1, NoRowIsNoId DEF Excepted
  <2>6. ASSUME NEW l \in BatchLines(r), StatementLine[l].value_date = runs[r].runDate
        PROVE  l \in MatchedLines(match_groups) \/ Excepted(NoRow, l)
    <3>1. \/ l \in MatchedLines(match_groups)
          \/ \E e \in reconciliation_exceptions : e.ext_line_id = l
      BY <1>1, <2>1, <2>2, <2>6 DEF IInv, Accounted, Completed
    <3> QED
      BY <2>3, <2>4, <3>1, NoRowIsNoId DEF Excepted
  <2> QED
    BY <2>5, <2>6
<1>2. IInv => EveryDueItemAccounted
  BY <1>1 DEF EveryDueItemAccounted
<1> QED
  BY <1>2, Invariance, PTL

\* A group that is committed pairs an exact or tolerable match, or adds up to
\* its line (the three matching passes).
THEOREM GroupsAddUp == Spec => []GroupsBalance
<1>1. IInv => GroupsBalance
  BY DEF IInv, TypeOK, Groups, Balanced, GroupsBalance
<1> QED
  BY <1>1, Invariance, PTL

\* Runs that do not overlap never match a transaction or a line twice
\* (fn_prevent_double_match and the NOT INs of the queries).
THEOREM SequentialRunsMatchOnce == Spec => []MatchedOnce
<1>1. IInv => MatchedOnce
  BY DEF IInv, TypeOK, Exclusive, Made, Disjoint, MatchedOnce
<1> QED
  BY <1>1, Invariance, PTL

\* A second exception for an item, from a run that does not overlap with the
\* first one's, means that the first has been assigned
\* (generateExceptionsForUnmatched and the policy of its table).
THEOREM SequentialRunsExceptOnce == Spec => []ExceptedOnce
<1>1. IInv => ExceptedOnce
  BY DEF IInv, TypeOK, Once, Raised, SameItem, ExceptedOnce
<1> QED
  BY <1>1, Invariance, PTL

\* No run raises an exception for what it, or a run before it, has matched
\* (generateExceptionsForUnmatched).
THEOREM MatchedItemsAreNotExcepted == Spec => []ExceptionsAreUnmatched
<1>1. IInv => ExceptionsAreUnmatched
  BY DEF IInv, TypeOK, Unmatched, Made, Raised, ExceptionsAreUnmatched
<1> QED
  BY <1>1, Invariance, PTL

-----------------------------------------------------------------------------
(* Runs are atomic: the refinement of AtomicRuns. *)

\* Uncommitted groups are of imported rows, and uncommitted exceptions are for
\* items of the run's date.
Grounded ==
    \A r \in Runs :
        /\ \A g \in runs[r].groups \cup runs[r].found :
              /\ g.ledger_lines \subseteq ledger_transactions
              /\ g.external_lines \subseteq external_statement_lines
        /\ \A e \in runs[r].exceptions :
              \/ e.ledger_txn_id \in DueTxns(r) /\ e.ext_line_id = NoRow
              \/ /\ e.ledger_txn_id = NoRow
                 /\ e.ext_line_id \in BatchLines(r)
                 /\ StatementLine[e.ext_line_id].value_date = runs[r].runDate

\* A run's rows stay grounded while imports add to what there is.
LEMMA GroundedKept ==
  ASSUME Grounded,
         ledger_transactions \subseteq ledger_transactions',
         external_statement_lines \subseteq external_statement_lines',
         NEW r \in Runs,
         runs'[r].groups \cup runs'[r].found \subseteq runs[r].groups \cup runs[r].found,
         runs'[r].exceptions \subseteq runs[r].exceptions,
         runs'[r].exceptions # {} =>
             runs'[r].runDate = runs[r].runDate /\ runs'[r].batchId = runs[r].batchId
  PROVE  /\ \A g \in runs'[r].groups \cup runs'[r].found :
               /\ g.ledger_lines \subseteq ledger_transactions'
               /\ g.external_lines \subseteq external_statement_lines'
         /\ \A e \in runs'[r].exceptions :
               \/ e.ledger_txn_id \in DueTxns(r)' /\ e.ext_line_id = NoRow
               \/ /\ e.ledger_txn_id = NoRow
                  /\ e.ext_line_id \in BatchLines(r)'
                  /\ StatementLine[e.ext_line_id].value_date = runs'[r].runDate
<1>1. \A g \in runs'[r].groups \cup runs'[r].found :
          /\ g.ledger_lines \subseteq ledger_transactions'
          /\ g.external_lines \subseteq external_statement_lines'
  BY DEF Grounded
<1>2. ASSUME NEW e \in runs'[r].exceptions
      PROVE  \/ e.ledger_txn_id \in DueTxns(r)' /\ e.ext_line_id = NoRow
             \/ /\ e.ledger_txn_id = NoRow
                /\ e.ext_line_id \in BatchLines(r)'
                /\ StatementLine[e.ext_line_id].value_date = runs'[r].runDate
  <2>1. runs'[r].runDate = runs[r].runDate /\ runs'[r].batchId = runs[r].batchId
    OBVIOUS
  <2>2. DueTxns(r) \subseteq DueTxns(r)' /\ BatchLines(r) \subseteq BatchLines(r)'
    BY <2>1 DEF DueTxns, BatchLines
  <2> QED
    BY <2>1, <2>2 DEF Grounded
<1> QED
  BY <1>1, <1>2

\* A step of run r alone: what the other runs have stays grounded.
LEMMA GroundedAlone ==
  ASSUME Grounded, NEW r \in Runs,
         UNCHANGED <<ledger_transactions, external_statement_lines>>,
         \A q \in Runs : q # r => runs'[q] = runs[q],
         \A g \in runs'[r].groups \cup runs'[r].found :
             /\ g.ledger_lines \subseteq ledger_transactions
             /\ g.external_lines \subseteq external_statement_lines,
         \A e \in runs'[r].exceptions :
             \/ e.ledger_txn_id \in DueTxns(r)' /\ e.ext_line_id = NoRow
             \/ /\ e.ledger_txn_id = NoRow
                /\ e.ext_line_id \in BatchLines(r)'
                /\ StatementLine[e.ext_line_id].value_date = runs'[r].runDate
  PROVE  Grounded'
<1>1. \A q \in Runs : q # r => DueTxns(q)' = DueTxns(q) /\ BatchLines(q)' = BatchLines(q)
  BY DEF DueTxns, BatchLines
<1> QED
  BY <1>1 DEF Grounded

LEMMA GroundedStep ==
  ASSUME IInv, Grounded, NEW r \in Runs, Statement(r)
  PROVE  Grounded'
<1> USE DEF IInv, TypeOK
<1>1. CASE FindExactMatches(r) \/ FindToleranceMatches(r) \/ FindBatchSettlements(r)
  <2>1. PICK stage, next, groups :
          /\ Find(r, stage, next, groups)
          /\ \A g \in groups : \E T \in SUBSET UnmatchedTxns(r), l \in UnmatchedLines(r) :
                g = Group(T, l)
    BY <1>1, QueryFinds
  <2>2. /\ UNCHANGED <<ledger_transactions, external_statement_lines>>
        /\ \A q \in Runs : q # r => runs'[q] = runs[q]
        /\ runs'[r] = [runs[r] EXCEPT !.stage = next, !.found = ByRun(r, groups)]
        /\ runs[r] \in RunStates
    BY <2>1 DEF Find
  <2>3. /\ runs'[r].found = ByRun(r, groups)
        /\ runs'[r].groups = runs[r].groups /\ runs'[r].exceptions = runs[r].exceptions
        /\ runs'[r].runDate = runs[r].runDate /\ runs'[r].batchId = runs[r].batchId
    BY <2>2 DEF RunStates
  <2>4. \A h \in ByRun(r, groups) :
          /\ h.ledger_lines \subseteq ledger_transactions
          /\ h.external_lines \subseteq external_statement_lines
    BY <2>1 DEF ByRun, Group, UnmatchedTxns, UnmatchedLines, DueTxns, BatchLines
  <2>5. DueTxns(r)' = DueTxns(r) /\ BatchLines(r)' = BatchLines(r)
    BY <2>2, <2>3 DEF DueTxns, BatchLines
  <2>6. \A e \in runs'[r].exceptions :
          \/ e.ledger_txn_id \in DueTxns(r)' /\ e.ext_line_id = NoRow
          \/ /\ e.ledger_txn_id = NoRow
             /\ e.ext_line_id \in BatchLines(r)'
             /\ StatementLine[e.ext_line_id].value_date = runs'[r].runDate
    BY <2>3, <2>5 DEF Grounded
  <2>7. \A g \in runs'[r].groups \cup runs'[r].found :
          /\ g.ledger_lines \subseteq ledger_transactions
          /\ g.external_lines \subseteq external_statement_lines
    BY <2>3, <2>4 DEF Grounded
  <2> QED
    BY <2>2, <2>6, <2>7, GroundedAlone
<1>2. CASE InsertMatchGroups(r)
  <2>1. /\ UNCHANGED <<ledger_transactions, external_statement_lines>>
        /\ \A q \in Runs : q # r => runs'[q] = runs[q]
        /\ runs'[r] = [runs[r] EXCEPT !.groups = @ \cup runs[r].found, !.found = {}]
        /\ runs[r] \in RunStates
    BY <1>2 DEF InsertMatchGroups
  <2>2. /\ runs'[r].groups = runs[r].groups \cup runs[r].found /\ runs'[r].found = {}
        /\ runs'[r].exceptions = runs[r].exceptions
        /\ runs'[r].runDate = runs[r].runDate /\ runs'[r].batchId = runs[r].batchId
    BY <2>1 DEF RunStates
  <2>3. DueTxns(r)' = DueTxns(r) /\ BatchLines(r)' = BatchLines(r)
    BY <2>1, <2>2 DEF DueTxns, BatchLines
  <2>4. \A e \in runs'[r].exceptions :
          \/ e.ledger_txn_id \in DueTxns(r)' /\ e.ext_line_id = NoRow
          \/ /\ e.ledger_txn_id = NoRow
             /\ e.ext_line_id \in BatchLines(r)'
             /\ StatementLine[e.ext_line_id].value_date = runs'[r].runDate
    BY <2>2, <2>3 DEF Grounded
  <2>5. \A g \in runs'[r].groups \cup runs'[r].found :
          /\ g.ledger_lines \subseteq ledger_transactions
          /\ g.external_lines \subseteq external_statement_lines
    BY <2>2 DEF Grounded
  <2> QED
    BY <2>1, <2>4, <2>5, GroundedAlone
<1>3. CASE MissingExternal(r) \/ MissingInternal(r)
  <2>1. PICK stage, next, exceptions :
          /\ Except(r, stage, next, exceptions)
          /\ \A e \in exceptions :
                \/ e.ledger_txn_id \in DueTxns(r) /\ e.ext_line_id = NoRow
                \/ /\ e.ledger_txn_id = NoRow
                   /\ e.ext_line_id \in BatchLines(r)
                   /\ StatementLine[e.ext_line_id].value_date = runs[r].runDate
    <3>1. CASE MissingExternal(r)
      BY <3>1 DEF MissingExternal, Exception, UnmatchedTxns
    <3>2. CASE MissingInternal(r)
      BY <3>2 DEF MissingInternal, Exception, UnmatchedLines
    <3> QED
      BY <1>3, <3>1, <3>2
  <2>2. /\ UNCHANGED <<ledger_transactions, external_statement_lines>>
        /\ \A q \in Runs : q # r => runs'[q] = runs[q]
        /\ runs'[r] = [runs[r] EXCEPT !.stage = next, !.exceptions = @ \cup exceptions]
        /\ runs[r] \in RunStates
    BY <2>1 DEF Except
  <2>3. /\ runs'[r].exceptions = runs[r].exceptions \cup exceptions
        /\ runs'[r].groups = runs[r].groups /\ runs'[r].found = runs[r].found
        /\ runs'[r].runDate = runs[r].runDate /\ runs'[r].batchId = runs[r].batchId
    BY <2>2 DEF RunStates
  <2>4. DueTxns(r)' = DueTxns(r) /\ BatchLines(r)' = BatchLines(r)
    BY <2>2, <2>3 DEF DueTxns, BatchLines
  <2>5. \A e \in runs'[r].exceptions :
          \/ e.ledger_txn_id \in DueTxns(r)' /\ e.ext_line_id = NoRow
          \/ /\ e.ledger_txn_id = NoRow
             /\ e.ext_line_id \in BatchLines(r)'
             /\ StatementLine[e.ext_line_id].value_date = runs'[r].runDate
    BY <2>1, <2>3, <2>4 DEF Grounded
  <2>6. \A g \in runs'[r].groups \cup runs'[r].found :
          /\ g.ledger_lines \subseteq ledger_transactions
          /\ g.external_lines \subseteq external_statement_lines
    BY <2>3 DEF Grounded
  <2> QED
    BY <2>2, <2>5, <2>6, GroundedAlone
<1>4. CASE CompleteRun(r)
  <2>1. /\ UNCHANGED <<ledger_transactions, external_statement_lines>>
        /\ \A q \in Runs : q # r => runs'[q] = runs[q]
        /\ runs'[r] = [runs[r] EXCEPT !.stage = "COMPLETED", !.groups = {}, !.exceptions = {}]
        /\ runs[r] \in RunStates
    BY <1>4 DEF CompleteRun
  <2>2. /\ runs'[r].groups = {} /\ runs'[r].found = runs[r].found /\ runs'[r].exceptions = {}
    BY <2>1 DEF RunStates
  <2> QED
    BY <2>1, <2>2, GroundedAlone DEF Grounded
<1>5. CASE RollBack(r)
  <2>1. /\ UNCHANGED <<ledger_transactions, external_statement_lines>>
        /\ \A q \in Runs : q # r => runs'[q] = runs[q]
        /\ runs'[r].groups = {} /\ runs'[r].found = {} /\ runs'[r].exceptions = {}
    BY <1>5 DEF RollBack, Idle
  <2> QED
    BY <2>1, GroundedAlone
<1> QED
  BY <1>1, <1>2, <1>3, <1>4, <1>5 DEF Statement

LEMMA NextGrounded ==
  ASSUME IInv, Grounded, [Next]_vars
  PROVE  Grounded'
<1> USE DEF IInv, TypeOK
<1>1. CASE \/ \E b \in LedgerBatches : ImportLedger(b)
           \/ \E b \in Batches : ImportStatement(b)
           \/ \E e \in reconciliation_exceptions, u \in Users : Assign(e, u)
           \/ UNCHANGED vars
  <2>1. /\ runs' = runs
        /\ ledger_transactions \subseteq ledger_transactions'
        /\ external_statement_lines \subseteq external_statement_lines'
    BY <1>1 DEF ImportLedger, ImportStatement, Assign, vars
  <2> QED
    BY <2>1, GroundedKept DEF Grounded
<1>2. ASSUME NEW r \in Runs, NEW d \in Dates, NEW b \in Batches,
             NEW u \in Approvers \cup {NoUser}, Begin(r, d, b, u)
      PROVE  Grounded'
  <2>1. /\ UNCHANGED <<ledger_transactions, external_statement_lines>>
        /\ \A q \in Runs : q # r => runs'[q] = runs[q]
        /\ runs'[r].groups = {} /\ runs'[r].found = {} /\ runs'[r].exceptions = {}
    BY <1>2 DEF Begin, Idle
  <2> QED
    BY <2>1, GroundedAlone
<1>3. ASSUME NEW r \in Runs, Statement(r)
      PROVE  Grounded'
  BY <1>3, GroundedStep
<1> QED
  BY <1>1, <1>2, <1>3 DEF Next

\* What the outline says of a run.
LEMMA OutlineOf ==
  ASSUME NEW r \in Runs
  PROVE  /\ Outline[r] = [ status |-> IF InFlight(r) THEN "RUNNING" ELSE runs[r].stage,
                           runDate |-> runs[r].runDate, batchId |-> runs[r].batchId,
                           due |-> runs[r].due, after |-> runs[r].after ]
         /\ Outline[r].runDate = runs[r].runDate /\ Outline[r].batchId = runs[r].batchId
         /\ Outline[r].due = runs[r].due
         /\ Outline[r].status = IF InFlight(r) THEN "RUNNING" ELSE runs[r].stage
         /\ Outline[r].status = "COMPLETED" <=> Completed(r)
         /\ \A q \in Runs : Atomic!Before(q, r) <=> Before(q, r)
<1>1. Outline[r] = [ status |-> IF InFlight(r) THEN "RUNNING" ELSE runs[r].stage,
                     runDate |-> runs[r].runDate, batchId |-> runs[r].batchId,
                     due |-> runs[r].due, after |-> runs[r].after ]
  BY DEF Outline
<1>2. Outline[r].status = "COMPLETED" <=> Completed(r)
  BY <1>1 DEF InFlight, Stages, Completed
<1>3. \A q \in Runs : Atomic!Before(q, r) <=> Before(q, r)
  BY <1>1 DEF Atomic!Before, Before
<1> QED
  BY <1>1, <1>2, <1>3

\* A step of one run changes the outline of that run at most.
LEMMA OutlineChange ==
  ASSUME NEW r \in Runs, \A q \in Runs : q # r => runs'[q] = runs[q]
  PROVE  Outline' = [Outline EXCEPT ![r] = Outline'[r]]
<1>1. \A q \in Runs : q # r => Outline'[q] = Outline[q]
  BY DEF Outline, InFlight
<1>2. /\ Outline = [q \in Runs |-> Outline[q]]
      /\ Outline' = [q \in Runs |-> Outline'[q]]
  BY DEF Outline
<1> QED
  BY <1>1, <1>2

\* Between its beginning and its end a run is invisible.
LEMMA StatementIsInvisible ==
  ASSUME IInv, NEW r \in Runs,
         \/ FindExactMatches(r) \/ FindToleranceMatches(r) \/ FindBatchSettlements(r)
         \/ InsertMatchGroups(r)
         \/ MissingExternal(r) \/ MissingInternal(r)
  PROVE  UNCHANGED Atomic!vars
<1> USE DEF IInv, TypeOK
<1>1. /\ UNCHANGED <<ledger_transactions, external_statement_lines, match_groups,
                     reconciliation_exceptions>>
      /\ \A q \in Runs : q # r => runs'[q] = runs[q]
      /\ runs'[r].runDate = runs[r].runDate /\ runs'[r].batchId = runs[r].batchId
      /\ runs'[r].due = runs[r].due /\ runs'[r].after = runs[r].after
      /\ InFlight(r) /\ InFlight(r)'
  <2>1. runs[r] \in RunStates
    OBVIOUS
  <2>2. CASE FindExactMatches(r) \/ FindToleranceMatches(r) \/ FindBatchSettlements(r)
    <3>1. PICK stage, next, groups :
            /\ Find(r, stage, next, groups)
            /\ stage \in Stages /\ next \in Stages
      BY <2>2, QueryFinds DEF Stages
    <3> QED
      BY <2>1, <3>1 DEF Find, RunStates, InFlight
  <2>3. CASE InsertMatchGroups(r)
    <3>1. InFlight(r)
      BY <2>3 DEF InsertMatchGroups, Owned, OwnRows, InFlight, Stages
    <3> QED
      BY <2>1, <2>3, <3>1 DEF InsertMatchGroups, RunStates, InFlight
  <2>4. CASE MissingExternal(r) \/ MissingInternal(r)
    <3>1. PICK stage, next, exceptions :
            stage \in Stages /\ next \in Stages /\ Except(r, stage, next, exceptions)
      BY <2>4 DEF MissingExternal, MissingInternal, Stages
    <3> QED
      BY <2>1, <3>1 DEF Except, RunStates, InFlight
  <2> QED
    BY <2>2, <2>3, <2>4
<1>2. Outline'[r] = Outline[r]
  BY <1>1, OutlineOf DEF Outline
<1>3. Outline' = Outline
  BY <1>1, <1>2, OutlineChange DEF Outline
<1> QED
  BY <1>1, <1>3 DEF Atomic!vars

\* Beginning a run is beginning it.
LEMMA BeginIsBegin ==
  ASSUME IInv, NEW r \in Runs, NEW d \in Dates, NEW b \in Batches,
         NEW u \in Approvers \cup {NoUser}, Begin(r, d, b, u)
  PROVE  Atomic!Begin(r, d, b)
<1>1. /\ UNCHANGED <<ledger_transactions, external_statement_lines, match_groups,
                     reconciliation_exceptions>>
      /\ runs[r].stage = "new"
      /\ \A q \in Runs : q # r => runs'[q] = runs[q]
      /\ runs'[r] = [ stage |-> "exact", runDate |-> d, batchId |-> b, triggeredBy |-> u,
                      due |-> {t \in ledger_transactions : LedgerTxn[t].value_date = d},
                      found |-> {}, groups |-> {}, exceptions |-> {},
                      after |-> {q \in Runs : Completed(q)} ]
      /\ \E l \in external_statement_lines : StatementLine[l].batch_id = b
  BY DEF Begin, Idle, IInv, TypeOK
<1>2. Outline[r].status = "new"
  BY <1>1, OutlineOf DEF InFlight, Stages
<1>3. {q \in Runs : Outline[q].status = "COMPLETED"} = {q \in Runs : Completed(q)}
  BY OutlineOf
<1>4. Outline'[r] = [ status |-> "RUNNING", runDate |-> d, batchId |-> b,
                      due |-> {t \in ledger_transactions : LedgerTxn[t].value_date = d},
                      after |-> {q \in Runs : Completed(q)} ]
  <2>1. /\ runs'[r].stage = "exact" /\ runs'[r].runDate = d /\ runs'[r].batchId = b
        /\ runs'[r].due = {t \in ledger_transactions : LedgerTxn[t].value_date = d}
        /\ runs'[r].after = {q \in Runs : Completed(q)}
    BY <1>1
  <2>2. InFlight(r)'
    BY <2>1 DEF InFlight, Stages
  <2> QED
    BY <2>1, <2>2 DEF Outline
<1>5. Outline' = [Outline EXCEPT ![r] = Outline'[r]]
  BY <1>1, OutlineChange
<1> QED
  BY <1>1, <1>2, <1>3, <1>4, <1>5 DEF Atomic!Begin, Atomic!TxnsOf

\* A roll back is a roll back.
LEMMA RollBackIsRollBack ==
  ASSUME IInv, NEW r \in Runs, RollBack(r)
  PROVE  Atomic!RollBack(r)
<1>1. /\ UNCHANGED <<ledger_transactions, external_statement_lines, match_groups,
                     reconciliation_exceptions>>
      /\ InFlight(r)
      /\ \A q \in Runs : q # r => runs'[q] = runs[q]
      /\ runs'[r] = [ stage |-> "rolled_back", runDate |-> NoRow, batchId |-> NoRow,
                      triggeredBy |-> NoUser, due |-> {}, found |-> {}, groups |-> {},
                      exceptions |-> {}, after |-> {} ]
  BY DEF RollBack, Idle, IInv, TypeOK
<1>2. Outline[r].status = "RUNNING"
  BY <1>1, OutlineOf
<1>3. Outline'[r] = [ status |-> "rolled_back", runDate |-> NoRow, batchId |-> NoRow,
                      due |-> {}, after |-> {} ]
  BY <1>1 DEF Outline, InFlight, Stages
<1>4. Outline' = [Outline EXCEPT ![r] = Outline'[r]]
  BY <1>1, OutlineChange
<1> QED
  BY <1>1, <1>2, <1>3, <1>4 DEF Atomic!RollBack, Atomic!NewRun

\* What a run is about to commit is what it may commit.
LEMMA CompletionKeepsPromise ==
  ASSUME IInv, Grounded, NEW r \in Runs, runs[r].stage = "complete",
         NEW groups, groups = runs[r].groups,
         NEW exceptions, exceptions = runs[r].exceptions
  PROVE  /\ Atomic!Matches(r, groups)
         /\ Atomic!Excepts(r, groups, exceptions)
         /\ Atomic!Accounts(r, match_groups \cup groups,
                            reconciliation_exceptions \cup exceptions)
<1>1. /\ Outline[r].runDate = runs[r].runDate /\ Outline[r].batchId = runs[r].batchId
      /\ Outline[r].due = runs[r].due
      /\ \A q \in Runs : Atomic!Before(q, r) <=> Before(q, r)
  BY OutlineOf
<1>2. /\ match_groups \cup groups \subseteq Groups
      /\ reconciliation_exceptions \cup exceptions \subseteq Exceptions
      /\ runs[r].due \subseteq TxnIds
  BY DEF IInv, TypeOK, RunStates
<1>3. /\ \A g \in groups : g.run_id = r
      /\ \A e \in exceptions : e.run_id = r /\ e.assigned_to = NoUser
      /\ \A g \in match_groups \cup groups : Made(g) /\ g.run_id \in Runs
      /\ \A e \in reconciliation_exceptions \cup exceptions : Raised(e) /\ e.run_id \in Runs
  BY <1>2 DEF IInv, Owned, OwnRows, Made, Raised, Groups, Exceptions
<1>4. /\ Atomic!TxnsOf(runs[r].runDate) = DueTxns(r)
      /\ Atomic!LinesOf(r) = {l \in BatchLines(r) : StatementLine[l].value_date = runs[r].runDate}
  BY <1>1 DEF Atomic!TxnsOf, Atomic!LinesOf, DueTxns, BatchLines
<1>5. Atomic!Matches(r, groups)
  <2> SUFFICES ASSUME NEW g \in groups
               PROVE  /\ g.ledger_lines \subseteq ledger_transactions
                      /\ g.external_lines \subseteq external_statement_lines
                      /\ Balances(g, Outline[r])
                      /\ \A h \in match_groups \cup groups :
                            h # g /\ Before(h.run_id, r) => Disjoint(h, g)
    BY <1>1, <1>3 DEF Atomic!Matches, Disjoint
  <2>1. /\ g.ledger_lines \subseteq ledger_transactions
        /\ g.external_lines \subseteq external_statement_lines
    BY DEF Grounded
  <2>2. Balances(g, runs[r])
    BY DEF IInv, Balanced
  <2>3. Balances(g, Outline[r])
    BY <1>1, <2>2, BalancesKept
  <2>4. \A h \in match_groups \cup groups : h # g /\ Before(h.run_id, r) => Disjoint(h, g)
    BY <1>2, <1>3 DEF IInv, Exclusive
  <2> QED
    BY <2>1, <2>3, <2>4
<1>6. Atomic!Excepts(r, groups, exceptions)
  <2> SUFFICES ASSUME NEW e \in exceptions
               PROVE  /\ \/ e.ledger_txn_id \in DueTxns(r) /\ e.ext_line_id = NoRow
                         \/ e.ledger_txn_id = NoRow /\ e.ext_line_id \in Atomic!LinesOf(r)
                      /\ \A g \in match_groups \cup groups : Before(g.run_id, r) =>
                            /\ e.ledger_txn_id \notin g.ledger_lines
                            /\ e.ext_line_id \notin g.external_lines
                      /\ \A f \in reconciliation_exceptions \cup exceptions :
                            f # e /\ SameItem(f, e) /\ Before(f.run_id, r) =>
                                f.assigned_to # NoUser
    BY <1>1, <1>3, <1>4 DEF Atomic!Excepts, SameItem
  <2>1. \/ e.ledger_txn_id \in DueTxns(r) /\ e.ext_line_id = NoRow
        \/ e.ledger_txn_id = NoRow /\ e.ext_line_id \in Atomic!LinesOf(r)
    BY <1>4 DEF Grounded
  <2>2. \A g \in match_groups \cup groups : Before(g.run_id, r) =>
            e.ledger_txn_id \notin g.ledger_lines /\ e.ext_line_id \notin g.external_lines
    BY <1>2, <1>3 DEF IInv, Unmatched
  <2>3. \A f \in reconciliation_exceptions \cup exceptions :
            f # e /\ SameItem(f, e) /\ Before(f.run_id, r) => f.assigned_to # NoUser
    BY <1>2, <1>3 DEF IInv, Once
  <2> QED
    BY <2>1, <2>2, <2>3
<1>7. Atomic!Accounts(r, match_groups \cup groups, reconciliation_exceptions \cup exceptions)
  <2>1. \A e \in reconciliation_exceptions \cup exceptions :
            e.ledger_txn_id = NoRow <=> e.ext_line_id # NoRow
    BY <1>2, <1>3 DEF IInv, Shaped
  <2>2. ASSUME NEW t \in runs[r].due
        PROVE  \/ \E g \in match_groups \cup groups : t \in g.ledger_lines
               \/ \E e \in reconciliation_exceptions \cup exceptions :
                     e.ledger_txn_id = t /\ e.ext_line_id = NoRow
    <3>1. \/ t \in MatchedTxns(match_groups \cup groups)
          \/ \E e \in reconciliation_exceptions \cup exceptions : e.ledger_txn_id = t
      BY DEF IInv, Accounted, SeenGroups
    <3> QED
      BY <1>2, <2>1, <3>1, NoRowIsNoId DEF MatchedTxns
  <2>3. ASSUME NEW l \in Atomic!LinesOf(r)
        PROVE  \/ \E g \in match_groups \cup groups : l \in g.external_lines
               \/ \E e \in reconciliation_exceptions \cup exceptions :
                     e.ledger_txn_id = NoRow /\ e.ext_line_id = l
    <3>1. \/ l \in MatchedLines(match_groups \cup groups)
          \/ \E e \in reconciliation_exceptions \cup exceptions : e.ext_line_id = l
      BY <1>4 DEF IInv, Accounted, SeenGroups
    <3>2. l \in LineIds
      BY <1>4 DEF BatchLines, IInv, TypeOK
    <3> QED
      BY <2>1, <3>1, <3>2, NoRowIsNoId DEF MatchedLines
  <2> QED
    BY <1>1, <2>2, <2>3 DEF Atomic!Accounts
<1> QED
  BY <1>5, <1>6, <1>7

\* A completion is the commit of the abstract run.
LEMMA CompleteIsCommit ==
  ASSUME IInv, Grounded, NEW r \in Runs, CompleteRun(r)
  PROVE  Atomic!Commit(r, match_groups' \ match_groups,
                       reconciliation_exceptions' \ reconciliation_exceptions)
<1> DEFINE groups == match_groups' \ match_groups
           exceptions == reconciliation_exceptions' \ reconciliation_exceptions
<1>1. /\ UNCHANGED <<ledger_transactions, external_statement_lines>>
      /\ match_groups' = match_groups \cup runs[r].groups
      /\ reconciliation_exceptions' = reconciliation_exceptions \cup runs[r].exceptions
      /\ \A q \in Runs : q # r => runs'[q] = runs[q]
      /\ runs'[r] = [runs[r] EXCEPT !.stage = "COMPLETED", !.groups = {}, !.exceptions = {}]
      /\ runs[r].stage = "complete"
      /\ runs[r] \in RunStates
  BY DEF CompleteRun, IInv, TypeOK
<1>2. InFlight(r) /\ ~Completed(r)
  BY <1>1 DEF InFlight, Stages, Completed
<1>3. groups = runs[r].groups /\ exceptions = runs[r].exceptions
  <2>1. /\ \A g \in runs[r].groups : g \notin match_groups
        /\ \A e \in runs[r].exceptions : e \notin reconciliation_exceptions
    BY <1>2 DEF IInv, Owned, OwnRows
  <2> QED
    BY <1>1, <2>1
<1> HIDE DEF groups, exceptions
<1>4. /\ Atomic!Matches(r, groups)
      /\ Atomic!Excepts(r, groups, exceptions)
      /\ Atomic!Accounts(r, match_groups \cup groups, reconciliation_exceptions \cup exceptions)
  BY <1>1, <1>3, CompletionKeepsPromise
<1>5. Outline' = [Outline EXCEPT ![r].status = "COMPLETED"]
  <2>1. Outline[r] = [ status |-> "RUNNING", runDate |-> runs[r].runDate,
                       batchId |-> runs[r].batchId, due |-> runs[r].due,
                       after |-> runs[r].after ]
    BY <1>2, OutlineOf
  <2>2. /\ runs'[r].stage = "COMPLETED"
        /\ runs'[r].runDate = runs[r].runDate /\ runs'[r].batchId = runs[r].batchId
        /\ runs'[r].due = runs[r].due /\ runs'[r].after = runs[r].after
    BY <1>1 DEF RunStates
  <2>3. Outline'[r] = [ status |-> "COMPLETED", runDate |-> runs[r].runDate,
                        batchId |-> runs[r].batchId, due |-> runs[r].due,
                        after |-> runs[r].after ]
    BY <2>2 DEF Outline, InFlight, Stages
  <2>4. Outline'[r] = [Outline[r] EXCEPT !.status = "COMPLETED"]
    BY <2>1, <2>3
  <2> QED
    BY <1>1, <2>4, OutlineChange
<1>6. Outline[r].status = "RUNNING"
  BY <1>2, OutlineOf
<1>7. Atomic!Commit(r, groups, exceptions)
  BY <1>1, <1>3, <1>4, <1>5, <1>6 DEF Atomic!Commit
<1> QED
  BY <1>7 DEF groups, exceptions

LEMMA NextKeepsPromise ==
  ASSUME IInv, Grounded, [Next]_vars
  PROVE  [Atomic!Next]_(Atomic!vars)
<1>1. ASSUME UNCHANGED runs
      PROVE  Outline' = Outline
  BY <1>1 DEF Outline, InFlight
<1>2. ASSUME NEW b \in LedgerBatches, ImportLedger(b)
      PROVE  Atomic!Next
  <2>1. PICK t \in TxnIds : b = LedgerTxn[t].batch_id
    BY DEF LedgerBatches
  <2>2. Atomic!ImportLedger(b)
    BY <1>1, <1>2 DEF ImportLedger, Atomic!ImportLedger, TxnIds, Atomic!TxnIds
  <2> QED
    BY <2>1, <2>2 DEF Atomic!Next, TxnIds, Atomic!TxnIds
<1>3. ASSUME NEW b \in Batches, ImportStatement(b)
      PROVE  Atomic!Next
  <2>1. PICK l \in LineIds : b = StatementLine[l].batch_id
    BY DEF Batches
  <2>2. Atomic!ImportStatement(b)
    BY <1>1, <1>3 DEF ImportStatement, Atomic!ImportStatement, LineIds, Atomic!LineIds
  <2> QED
    BY <2>1, <2>2 DEF Atomic!Next, LineIds, Atomic!LineIds
<1>4. ASSUME NEW e \in reconciliation_exceptions, NEW u \in Users, Assign(e, u)
      PROVE  Atomic!Next
  <2>1. Atomic!Assign(e, u)
    BY <1>1, <1>4 DEF Assign, Atomic!Assign
  <2> QED
    BY <2>1 DEF Atomic!Next
<1>5. ASSUME NEW r \in Runs, NEW d \in Dates, NEW b \in Batches,
             NEW u \in Approvers \cup {NoUser}, Begin(r, d, b, u)
      PROVE  Atomic!Next
  <2>1. Atomic!Begin(r, d, b)
    BY <1>5, BeginIsBegin
  <2>2. PICK t \in TxnIds, l \in LineIds :
            d = LedgerTxn[t].value_date /\ b = StatementLine[l].batch_id
    BY DEF Dates, Batches
  <2> QED
    BY <2>1, <2>2 DEF Atomic!Next, TxnIds, Atomic!TxnIds, LineIds, Atomic!LineIds
<1>6. ASSUME NEW r \in Runs, Statement(r)
      PROVE  Atomic!Next \/ UNCHANGED Atomic!vars
  <2>1. CASE CompleteRun(r)
    BY <2>1, CompleteIsCommit DEF Atomic!Next
  <2>2. CASE RollBack(r)
    BY <2>2, RollBackIsRollBack DEF Atomic!Next
  <2> QED
    BY <1>6, <2>1, <2>2, StatementIsInvisible DEF Statement
<1>7. CASE UNCHANGED vars
  BY <1>1, <1>7 DEF vars, Atomic!vars
<1> QED
  BY <1>2, <1>3, <1>4, <1>5, <1>6, <1>7 DEF Next

\* Runs implement AtomicRuns: for every book, any number of runs and however
\* they overlap, nothing of a run is visible before it is over, and what it
\* commits balances, accounts for everything that was due, and agrees with the
\* runs that were over when it began (runReconciliation).
THEOREM RunsKeepPromise == Spec => Promise
<1>1. Init => Grounded
  BY DEF Init, Grounded, Idle
<1>2. Spec => []Grounded
  BY <1>1, Invariance, NextGrounded, PTL DEF Spec
<1>3. Init => Atomic!Init
  BY DEF Init, Atomic!Init, Outline, Idle, InFlight, Stages, Atomic!NewRun
<1>4. IInv /\ Grounded /\ [Next]_vars => [Atomic!Next]_(Atomic!vars)
  BY NextKeepsPromise
<1> QED
  BY <1>2, <1>3, <1>4, Invariance, PTL DEF Spec, Promise, Atomic!Spec

-----------------------------------------------------------------------------
(* If no two runs are ever in flight together. *)

\* Runs come one after the other.
InOrder ==
    \A q, r \in Runs :
        /\ InFlight(q) /\ InFlight(r) => q = r
        /\ Completed(q) /\ InFlight(r) => q \in runs[r].after
        /\ Completed(q) /\ Completed(r) => Before(q, r) \/ Before(r, q)

LEMMA NextInOrder ==
  ASSUME IInv, InOrder, [Next]_vars, MaxInFlight <= 1
  PROVE  InOrder'
<1> USE DEF IInv, TypeOK
<1>1. CASE UNCHANGED runs
  BY <1>1 DEF InOrder, InFlight, Completed, Before
<1>2. ASSUME NEW r \in Runs, NEW d \in Dates, NEW b \in Batches,
             NEW u \in Approvers \cup {NoUser}, Begin(r, d, b, u)
      PROVE  InOrder'
  <2>1. \A q \in Runs : ~InFlight(q)
    <3> DEFINE flying == {q \in Runs : InFlight(q)}
    <3>1. IsFiniteSet(flying)
      BY FS_Interval, FS_Subset, ReconRunsAssumption DEF Runs
    <3>2. Cardinality(flying) < MaxInFlight
      BY <1>2 DEF Begin
    <3>3. Cardinality(flying) = 0
      BY <3>1, <3>2, FS_CardinalityType, ReconRunsAssumption
    <3>4. flying = {}
      BY <3>1, <3>3, FS_EmptySet
    <3> QED
      BY <3>4
  <2>2. /\ runs[r].stage = "new"
        /\ \A q \in Runs : q # r => runs'[q] = runs[q]
        /\ runs'[r].stage = "exact"
        /\ runs'[r].after = {q \in Runs : Completed(q)}
    BY <1>2 DEF Begin, Idle
  <2>3. /\ \A q \in Runs : InFlight(q)' <=> q = r
        /\ \A q \in Runs : Completed(q)' <=> Completed(q) /\ q # r
    BY <2>1, <2>2 DEF InFlight, Completed, Stages
  <2> QED
    BY <2>2, <2>3 DEF InOrder, Before
<1>3. ASSUME NEW r \in Runs, Statement(r)
      PROVE  InOrder'
  <2>1. InFlight(r) /\ runs[r] \in RunStates
    BY <1>3, StatementIsInvisible DEF Statement, RollBack, CompleteRun, InFlight, Stages,
       FindExactMatches, FindToleranceMatches, FindBatchSettlements, Find,
       InsertMatchGroups, MissingExternal, MissingInternal, Except, Owned, OwnRows
  <2>2. /\ \A q \in Runs : q # r => runs'[q] = runs[q]
        /\ \/ runs'[r].stage \in Stages \cup {"COMPLETED"} /\ runs'[r].after = runs[r].after
           \/ runs'[r].stage = "rolled_back"
    <3>1. CASE RollBack(r)
      BY <3>1 DEF RollBack, Idle
    <3>2. CASE CompleteRun(r)
      BY <2>1, <3>2 DEF CompleteRun, RunStates
    <3>3. CASE InsertMatchGroups(r)
      BY <2>1, <3>3 DEF InsertMatchGroups, RunStates, InFlight
    <3>4. CASE FindExactMatches(r) \/ FindToleranceMatches(r) \/ FindBatchSettlements(r)
      <4>1. PICK stage, next, groups :
              stage \in Stages /\ next \in Stages /\ Find(r, stage, next, groups)
        BY <3>4, QueryFinds DEF Stages
      <4> QED
        BY <2>1, <4>1 DEF Find, RunStates
    <3>5. CASE MissingExternal(r) \/ MissingInternal(r)
      <4>1. PICK stage, next, exceptions :
              stage \in Stages /\ next \in Stages /\ Except(r, stage, next, exceptions)
        BY <3>5 DEF MissingExternal, MissingInternal, Stages
      <4> QED
        BY <2>1, <4>1 DEF Except, RunStates
    <3> QED
      BY <1>3, <3>1, <3>2, <3>3, <3>4, <3>5 DEF Statement
  <2>3. \A q \in Runs : q # r => ~InFlight(q) /\ (Completed(q) => q \in runs[r].after)
    BY <2>1 DEF InOrder
  <2>4. ~Completed(r)
    BY <2>1 DEF InFlight, Completed, Stages
  <2>5. \A q \in Runs : q # r => ~InFlight(q)' /\ (Completed(q)' <=> Completed(q))
    BY <2>2, <2>3 DEF InFlight, Completed
  <2>6. InFlight(r)' \/ Completed(r)' => runs'[r].after = runs[r].after
    BY <2>2 DEF InFlight, Completed, Stages
  <2> QED
    BY <2>2, <2>3, <2>4, <2>5, <2>6 DEF InOrder, Before, Completed, InFlight, Stages
<1> QED
  BY <1>1, <1>2, <1>3 DEF Next, vars, ImportLedger, ImportStatement, Assign

\* No transaction and no line is in two groups, whoever made them; and an item
\* has two exceptions only if one of them has been assigned.
EverythingOnce ==
    /\ \A g, h \in match_groups : g # h => Disjoint(g, h)
    /\ \A e, f \in reconciliation_exceptions :
          e # f /\ SameItem(e, f) => e.assigned_to # NoUser \/ f.assigned_to # NoUser

\* What fn_prevent_double_match promises, and more, holds if runs are never in
\* flight together.
THEOREM SerialRunsAgree ==
  ASSUME MaxInFlight <= 1
  PROVE  Spec => []EverythingOnce
<1>1. Init => InOrder
  BY DEF Init, Idle, InOrder, InFlight, Completed, Stages
<1>2. IInv /\ InOrder /\ [Next]_vars => InOrder'
  BY NextInOrder
<1>3. IInv /\ InOrder => EverythingOnce
  <2> SUFFICES ASSUME IInv, InOrder PROVE EverythingOnce
    OBVIOUS
  <2>1. ASSUME NEW g \in match_groups, NEW h \in match_groups, g # h
        PROVE  Disjoint(g, h)
    <3>1. /\ g \in Groups /\ h \in Groups /\ Made(g) /\ Made(h)
          /\ g.run_id \in Runs /\ h.run_id \in Runs
          /\ Completed(g.run_id) /\ Completed(h.run_id)
      BY DEF IInv, TypeOK, Groups, Made, Owned
    <3>2. Before(g.run_id, h.run_id) \/ Before(h.run_id, g.run_id)
      BY <3>1 DEF InOrder
    <3>3. Disjoint(g, h) \/ Disjoint(h, g)
      BY <2>1, <3>1, <3>2 DEF IInv, Exclusive
    <3> QED
      BY <3>3 DEF Disjoint
  <2>2. ASSUME NEW e \in reconciliation_exceptions, NEW f \in reconciliation_exceptions,
               e # f, SameItem(e, f)
        PROVE  e.assigned_to # NoUser \/ f.assigned_to # NoUser
    <3>1. /\ e \in Exceptions /\ f \in Exceptions /\ Raised(e) /\ Raised(f)
          /\ e.run_id \in Runs /\ f.run_id \in Runs
          /\ Completed(e.run_id) /\ Completed(f.run_id)
      BY DEF IInv, TypeOK, Exceptions, Raised, Owned
    <3>2. Before(e.run_id, f.run_id) \/ Before(f.run_id, e.run_id)
      BY <3>1 DEF InOrder
    <3> QED
      BY <2>2, <3>1, <3>2 DEF IInv, Once, SameItem
  <2> QED
    BY <2>1, <2>2 DEF EverythingOnce
<1> QED
  BY <1>1, <1>2, <1>3, Invariance, PTL DEF Spec

=============================================================================
