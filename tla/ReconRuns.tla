------------------------------ MODULE ReconRuns ------------------------------
(***************************************************************************)
(* Reconciliation runs: matchingService.runReconciliation as what it is, a *)
(* transaction of many statements under READ COMMITTED.  Each statement    *)
(* sees what other runs and imports have committed by then, and the run's  *)
(* own rows.  Runs are started by the job queue, by the scheduler and by   *)
(* users, so several can be in flight, for the same date and batch too.    *)
(***************************************************************************)
EXTENDS Matching

CONSTANTS
    MaxRuns,      \* bound: how many runs are ever started
    MaxInFlight,  \* bound: how many of them at the same time
    Users,        \* whom exceptions can be assigned to
    Approvers,    \* those of them who may start runs: APPROVER and ADMIN
    NoUser        \* triggered_by, assigned_to IS NULL

Runs == 1..MaxRuns  \* run_id BIGSERIAL

NoRow == -1  \* ledger_txn_id, ext_line_id IS NULL

Dates == {LedgerTxn[t].value_date : t \in TxnIds}
Batches == {StatementLine[l].batch_id : l \in LineIds}
LedgerBatches == {LedgerTxn[t].batch_id : t \in TxnIds}

ASSUME ReconRunsAssumption ==
    /\ MaxRuns \in Nat
    /\ MaxInFlight \in Nat
    /\ NoUser \notin Users
    /\ Approvers \subseteq Users

VARIABLES
    ledger_transactions,       \* the ids imported so far
    external_statement_lines,  \* likewise
    match_groups,              \* committed groups, with the run that made them
    reconciliation_exceptions, \* committed exceptions
    runs                       \* [Runs -> state of the run's transaction]

vars == <<ledger_transactions, external_statement_lines, match_groups,
          reconciliation_exceptions, runs>>

Stages == {"exact", "tolerance", "settlement", "missing_external",
           "missing_internal", "complete"}

InFlight(r) == runs[r].stage \in Stages

Completed(r) == runs[r].stage = "COMPLETED"

Groups == [run_id : Runs, ledger_lines : SUBSET TxnIds, external_lines : SUBSET LineIds]

Exceptions == [ run_id : Runs, ledger_txn_id : TxnIds \cup {NoRow},
                ext_line_id : LineIds \cup {NoRow}, assigned_to : Users \cup {NoUser} ]

\* A run's arguments, what its transaction has written and not yet committed,
\* and what a query has returned and the loop over it has not yet inserted.
\* History: the transactions due, and the runs completed, when it began.
Idle == [ stage |-> "new", runDate |-> NoRow, batchId |-> NoRow, triggeredBy |-> NoUser,
          due |-> {}, found |-> {}, groups |-> {}, exceptions |-> {}, after |-> {} ]

RunStates ==
    [ stage : {"new", "COMPLETED", "rolled_back"} \cup Stages,
      runDate : Dates \cup {NoRow}, batchId : Batches \cup {NoRow},
      triggeredBy : Approvers \cup {NoUser}, due : SUBSET TxnIds,
      found : SUBSET Groups, groups : SUBSET Groups,
      exceptions : SUBSET Exceptions, after : SUBSET Runs ]

TypeOK ==
    /\ ledger_transactions \subseteq TxnIds
    /\ external_statement_lines \subseteq LineIds
    /\ match_groups \subseteq Groups
    /\ reconciliation_exceptions \subseteq Exceptions
    /\ runs \in [Runs -> RunStates]

Init ==
    /\ ledger_transactions = {}
    /\ external_statement_lines = {}
    /\ match_groups = {}
    /\ reconciliation_exceptions = {}
    /\ runs = [r \in Runs |-> Idle]

-----------------------------------------------------------------------------
(* What the statements of run r see. *)

SeenGroups(r) == match_groups \cup runs[r].groups

MatchedTxns(groups) == UNION {g.ledger_lines : g \in groups}
MatchedLines(groups) == UNION {g.external_lines : g \in groups}

\* The row-level security policy: the run's transaction names its user and no
\* role, so that it sees the exceptions of nobody and of that user.
SeenExceptions(r) ==
    runs[r].exceptions \cup
    {e \in reconciliation_exceptions : e.assigned_to \in {NoUser, runs[r].triggeredBy}}

DueTxns(r) ==
    {t \in ledger_transactions : LedgerTxn[t].value_date = runs[r].runDate}

BatchLines(r) ==
    {l \in external_statement_lines : StatementLine[l].batch_id = runs[r].batchId}

UnmatchedTxns(r) == DueTxns(r) \ MatchedTxns(SeenGroups(r))

\* Mutant: the second NOT IN is missing.
AllBatchLines(r) == BatchLines(r)

UnmatchedLines(r) == BatchLines(r) \ MatchedLines(SeenGroups(r))

ByRun(r, groups) ==
    { [run_id |-> r, ledger_lines |-> g.ledger_lines, external_lines |-> g.external_lines] :
          g \in groups }

\* Mutant: 0 for NULL.
ExceptionOfZero(r, t, l) ==
    [ run_id |-> r, ledger_txn_id |-> IF t = NoRow THEN 0 ELSE t, ext_line_id |-> l,
      assigned_to |-> NoUser ]

Exception(r, t, l) ==
    [run_id |-> r, ledger_txn_id |-> t, ext_line_id |-> l, assigned_to |-> NoUser]

-----------------------------------------------------------------------------
(* The rest of the system, as far as a run notices it. *)

\* The rows of a file become visible together, with the batch's completion.
ImportLedger(b) ==
    /\ \A t \in ledger_transactions : LedgerTxn[t].batch_id # b
    /\ ledger_transactions' = ledger_transactions \cup {t \in TxnIds : LedgerTxn[t].batch_id = b}
    /\ UNCHANGED <<external_statement_lines, match_groups, reconciliation_exceptions, runs>>

ImportStatement(b) ==
    /\ \A l \in external_statement_lines : StatementLine[l].batch_id # b
    /\ external_statement_lines' = external_statement_lines \cup
          {l \in LineIds : StatementLine[l].batch_id = b}
    /\ UNCHANGED <<ledger_transactions, match_groups, reconciliation_exceptions, runs>>

Assign(e, u) ==
    /\ e.assigned_to = NoUser
    /\ reconciliation_exceptions' =
          (reconciliation_exceptions \ {e}) \cup {[e EXCEPT !.assigned_to = u]}
    /\ UNCHANGED <<ledger_transactions, external_statement_lines, match_groups, runs>>

-----------------------------------------------------------------------------
(* The statements of a run. *)

\* The batch is required, createRun, and the totals.
Begin(r, d, b, u) ==
    /\ runs[r].stage = "new"
    /\ \A q \in Runs : q < r => runs[q].stage # "new"
    /\ Cardinality({q \in Runs : InFlight(q)}) < MaxInFlight
    /\ \E l \in external_statement_lines : StatementLine[l].batch_id = b
    /\ runs' = [runs EXCEPT ![r] =
          [Idle EXCEPT !.stage = "exact", !.runDate = d, !.batchId = b, !.triggeredBy = u,
                       !.due = {t \in ledger_transactions : LedgerTxn[t].value_date = d},
                       !.after = {q \in Runs : Completed(q)}]]
    /\ UNCHANGED <<ledger_transactions, external_statement_lines, match_groups,
                   reconciliation_exceptions>>

\* A query returns groups to insert, and the run goes on to its next stage.
Find(r, stage, next, groups) ==
    /\ runs[r].stage = stage
    /\ runs[r].found = {}
    /\ runs' = [runs EXCEPT ![r].stage = next, ![r].found = ByRun(r, groups)]
    /\ UNCHANGED <<ledger_transactions, external_statement_lines, match_groups,
                   reconciliation_exceptions>>

FindExactMatches(r) ==
    \E M \in MutualBest(ExactCandidates(UnmatchedTxns(r), UnmatchedLines(r))) :
        Find(r, "exact", "tolerance", PairGroups(M))

FindToleranceMatches(r) ==
    \E M \in MutualBest(ToleranceCandidates(UnmatchedTxns(r), UnmatchedLines(r))) :
        Find(r, "tolerance", "settlement", PairGroups(M))

FindBatchSettlements(r) ==
    \E settled \in Settlements(UnmatchedTxns(r), UnmatchedLines(r)) :
        Find(r, "settlement", "missing_external", SettlementGroups(settled))

\* Mutant: the inserts go through the pool and not through the client of the
\* transaction, so that each is committed at once.
InsertMatchGroupsOutside(r) ==
    /\ runs[r].found # {}
    /\ MatchedTxns(runs[r].found) \cap MatchedTxns(SeenGroups(r)) = {}
    /\ match_groups' = match_groups \cup runs[r].found
    /\ runs' = [runs EXCEPT ![r].found = {}]
    /\ UNCHANGED <<ledger_transactions, external_statement_lines, reconciliation_exceptions>>

\* The inserts one after the other, for which fn_prevent_double_match looks at
\* the ledger lines, and not at the external lines, of the groups it can see.
InsertMatchGroups(r) ==
    /\ runs[r].found # {}
    /\ MatchedTxns(runs[r].found) \cap MatchedTxns(SeenGroups(r)) = {}
    /\ runs' = [runs EXCEPT ![r].groups = @ \cup runs[r].found, ![r].found = {}]
    /\ UNCHANGED <<ledger_transactions, external_statement_lines, match_groups,
                   reconciliation_exceptions>>

\* The trigger raises, a statement fails, or the worker dies.
RollBack(r) ==
    /\ InFlight(r)
    /\ runs' = [runs EXCEPT ![r] = [Idle EXCEPT !.stage = "rolled_back"]]
    /\ UNCHANGED <<ledger_transactions, external_statement_lines, match_groups,
                   reconciliation_exceptions>>

Except(r, stage, next, exceptions) ==
    /\ runs[r].stage = stage
    /\ runs[r].found = {}
    /\ runs' = [runs EXCEPT ![r].stage = next, ![r].exceptions = @ \cup exceptions]
    /\ UNCHANGED <<ledger_transactions, external_statement_lines, match_groups,
                   reconciliation_exceptions>>

\* The two statements of generateExceptionsForUnmatched.
\* Mutants: the first NOT EXISTS is missing; the second one is; its column is
\* not qualified, so that any exception of a transaction satisfies it.
MissingExternalMatched(r) ==
    Except(r, "missing_external", "missing_internal",
        { Exception(r, t, NoRow) : t \in
            {u \in DueTxns(r) : \A e \in SeenExceptions(r) : e.ledger_txn_id # u} })

MissingExternalAgain(r) ==
    Except(r, "missing_external", "missing_internal",
        {Exception(r, t, NoRow) : t \in UnmatchedTxns(r)})

MissingExternalUnqualified(r) ==
    Except(r, "missing_external", "missing_internal",
        { Exception(r, t, NoRow) : t \in
            {u \in UnmatchedTxns(r) : \A e \in SeenExceptions(r) : e.ledger_txn_id = NoRow} })

MissingExternal(r) ==
    Except(r, "missing_external", "missing_internal",
        { Exception(r, t, NoRow) : t \in
            {u \in UnmatchedTxns(r) : \A e \in SeenExceptions(r) : e.ledger_txn_id # u} })

MissingInternal(r) ==
    Except(r, "missing_internal", "complete",
        { Exception(r, NoRow, l) : l \in
            {k \in UnmatchedLines(r) :
                /\ StatementLine[k].value_date = runs[r].runDate
                /\ \A e \in SeenExceptions(r) : e.ext_line_id # k} })

\* completeRun and COMMIT.
CompleteRun(r) ==
    /\ runs[r].stage = "complete"
    /\ match_groups' = match_groups \cup runs[r].groups
    /\ reconciliation_exceptions' = reconciliation_exceptions \cup runs[r].exceptions
    /\ runs' = [runs EXCEPT ![r].stage = "COMPLETED", ![r].groups = {}, ![r].exceptions = {}]
    /\ UNCHANGED <<ledger_transactions, external_statement_lines>>

Statement(r) ==
    \/ FindExactMatches(r) \/ FindToleranceMatches(r) \/ FindBatchSettlements(r)
    \/ InsertMatchGroups(r)
    \/ MissingExternal(r) \/ MissingInternal(r)
    \/ CompleteRun(r) \/ RollBack(r)

Next ==
    \/ \E b \in LedgerBatches : ImportLedger(b)
    \/ \E b \in Batches : ImportStatement(b)
    \/ \E e \in reconciliation_exceptions, u \in Users : Assign(e, u)
    \/ \E r \in Runs, d \in Dates, b \in Batches, u \in Approvers \cup {NoUser} : Begin(r, d, b, u)
    \/ \E r \in Runs : Statement(r)

Spec == Init /\ [][Next]_vars

-----------------------------------------------------------------------------
(* Properties.  Runs may overlap in any way: what needs them not to says so. *)

Excepted(t, l) ==
    \E e \in reconciliation_exceptions : e.ledger_txn_id = t /\ e.ext_line_id = l

\* Nothing a completed run was about falls through: each transaction it
\* counted at its start, and each line of its batch and date, is in a match
\* group or has an exception, although other runs, commits and roll backs
\* change what the four passes see in between.
EveryDueItemAccounted ==
    \A r \in Runs : Completed(r) =>
        /\ \A t \in runs[r].due : t \in MatchedTxns(match_groups) \/ Excepted(t, NoRow)
        /\ \A l \in BatchLines(r) :
              StatementLine[l].value_date = runs[r].runDate =>
                  l \in MatchedLines(match_groups) \/ Excepted(NoRow, l)

\* A group is worth its line: its transactions are of the line's account and
\* of the run's date and batch; one that does not pair with the line exactly or
\* within the tolerance is a settlement, and adds up to the cent.
Balances(g, run) ==
    \A l \in g.external_lines :
        /\ StatementLine[l].batch_id = run.batchId
        /\ \A t \in g.ledger_lines :
              SameAccount(t, l) /\ LedgerTxn[t].value_date = run.runDate
        /\ \/ \E t \in g.ledger_lines :
                 /\ g.ledger_lines = {t}
                 /\ \/ ExactPair(t, l)
                    \/ \E rule \in ToleranceRules : TolerancePair(rule, t, l)
           \/ Total(g.ledger_lines) = StatementLine[l].amount

GroupsBalance == \A g \in match_groups : Balances(g, runs[g.run_id])

\* "Either fully applied or not applied at all": what is visible to others was
\* made by completed runs (runReconciliation, one transaction).
AllOrNothing ==
    /\ \A g \in match_groups : Completed(g.run_id)
    /\ \A e \in reconciliation_exceptions : Completed(e.run_id)

\* Run q is r, or was over when r began.
Before(q, r) == q = r \/ q \in runs[r].after

\* Only runs that overlap match a transaction, or a line, twice; for lines no
\* constraint or trigger of the database sees to it.
MatchedOnce ==
    \A g, h \in match_groups : g # h /\ Before(g.run_id, h.run_id) =>
        /\ g.ledger_lines \cap h.ledger_lines = {}
        /\ g.external_lines \cap h.external_lines = {}

\* However often a date is reconciled, an item gets a second exception only
\* from a run that overlaps the first one's, or that row-level security keeps
\* from seeing the first because it has been assigned.
ExceptedOnce ==
    \A e, f \in reconciliation_exceptions :
        /\ e # f
        /\ e.ledger_txn_id = f.ledger_txn_id /\ e.ext_line_id = f.ext_line_id
        /\ Before(e.run_id, f.run_id)
        => e.assigned_to # NoUser

\* No run raises an exception for what it has matched itself, in any of its
\* passes, or what was matched before it began.
ExceptionsAreUnmatched ==
    \A e \in reconciliation_exceptions : \A g \in match_groups :
        Before(g.run_id, e.run_id) =>
            e.ledger_txn_id \notin g.ledger_lines /\ e.ext_line_id \notin g.external_lines

\* What others could know of a run in flight: how it began.
Outline ==
    [ r \in Runs |->
        [ status |-> IF InFlight(r) THEN "RUNNING" ELSE runs[r].stage,
          runDate |-> runs[r].runDate, batchId |-> runs[r].batchId,
          due |-> runs[r].due, after |-> runs[r].after ] ]

Atomic == INSTANCE AtomicRuns WITH run <- Outline

\* A run looks atomic, and keeps its promises when it commits: ReconRuns
\* implements AtomicRuns, however runs overlap (withTransaction, and the
\* conditions of the queries).
Promise == Atomic!Spec

-----------------------------------------------------------------------------
(* What comments of the repository say of a run and the code does not do. *)

\* A ledger transaction is never "included in two CONFIRMED match groups"
\* (fn_prevent_double_match).
TxnsMatchedOnce ==
    \A g, h \in match_groups : g # h => g.ledger_lines \cap h.ledger_lines = {}

=============================================================================
