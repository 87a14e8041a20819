----------------------------- MODULE AtomicRuns -----------------------------
(***************************************************************************)
(* What a reconciliation run promises, whatever its statements see of each *)
(* other, of imports, of assignments and of other runs.  A run has two     *)
(* moments: when it begins it is due to look at certain items; and when it *)
(* is over everything it has to say about them appears at once, or nothing *)
(* does.  It never contradicts itself or a run that was over when it       *)
(* began; about runs that overlap it promises nothing.                     *)
(* ReconRuns implements this; see Promise there.                           *)
(***************************************************************************)
CONSTANTS
    Runs, Users, NoUser, NoRow,
    LedgerTxn, StatementLine,  \* the rows of the files, by their ids
    Balances(_, _)             \* whether a group is worth its line, for a run

TxnIds == DOMAIN LedgerTxn
LineIds == DOMAIN StatementLine

VARIABLES
    ledger_transactions, external_statement_lines,  \* the ids imported so far
    match_groups, reconciliation_exceptions,
    run  \* status, date and batch; what was due, and which runs were over, at the beginning

vars == <<ledger_transactions, external_statement_lines, match_groups,
          reconciliation_exceptions, run>>

NewRun == [status |-> "new", runDate |-> NoRow, batchId |-> NoRow, due |-> {}, after |-> {}]

Init ==
    /\ ledger_transactions = {}
    /\ external_statement_lines = {}
    /\ match_groups = {}
    /\ reconciliation_exceptions = {}
    /\ run = [r \in Runs |-> NewRun]

-----------------------------------------------------------------------------

ImportLedger(b) ==
    /\ \A t \in ledger_transactions : LedgerTxn[t].batch_id # b
    /\ ledger_transactions' = ledger_transactions \cup {t \in TxnIds : LedgerTxn[t].batch_id = b}
    /\ UNCHANGED <<external_statement_lines, match_groups, reconciliation_exceptions, run>>

ImportStatement(b) ==
    /\ \A l \in external_statement_lines : StatementLine[l].batch_id # b
    /\ external_statement_lines' = external_statement_lines \cup
          {l \in LineIds : StatementLine[l].batch_id = b}
    /\ UNCHANGED <<ledger_transactions, match_groups, reconciliation_exceptions, run>>

Assign(e, u) ==
    /\ e.assigned_to = NoUser
    /\ reconciliation_exceptions' =
          (reconciliation_exceptions \ {e}) \cup {[e EXCEPT !.assigned_to = u]}
    /\ UNCHANGED <<ledger_transactions, external_statement_lines, match_groups, run>>

-----------------------------------------------------------------------------

TxnsOf(date) == {t \in ledger_transactions : LedgerTxn[t].value_date = date}

\* The lines that run r has to account for: its batch is complete from the start.
LinesOf(r) ==
    { l \in external_statement_lines :
        /\ StatementLine[l].batch_id = run[r].batchId
        /\ StatementLine[l].value_date = run[r].runDate }

\* Run q is r, or was over when r began.
Before(q, r) == q = r \/ q \in run[r].after

Begin(r, d, b) ==
    /\ run[r].status = "new"
    /\ \E l \in external_statement_lines : StatementLine[l].batch_id = b
    /\ run' = [run EXCEPT ![r] =
          [ status |-> "RUNNING", runDate |-> d, batchId |-> b, due |-> TxnsOf(d),
            after |-> {q \in Runs : run[q].status = "COMPLETED"} ]]
    /\ UNCHANGED <<ledger_transactions, external_statement_lines, match_groups,
                   reconciliation_exceptions>>

\* The groups are of imported items, add up, and share nothing with each other
\* or with the groups of runs before.
Matches(r, groups) ==
    \A g \in groups :
        /\ g.run_id = r
        /\ g.ledger_lines \subseteq ledger_transactions
        /\ g.external_lines \subseteq external_statement_lines
        /\ Balances(g, run[r])
        /\ \A h \in match_groups \cup groups : h # g /\ Before(h.run_id, r) =>
              /\ h.ledger_lines \cap g.ledger_lines = {}
              /\ h.external_lines \cap g.external_lines = {}

\* The exceptions are for items of the run's date that neither it nor a run
\* before has matched, and that have none yet which the run can see.
Excepts(r, groups, exceptions) ==
    \A e \in exceptions :
        /\ e.run_id = r
        /\ e.assigned_to = NoUser
        /\ \/ e.ledger_txn_id \in TxnsOf(run[r].runDate) /\ e.ext_line_id = NoRow
           \/ e.ledger_txn_id = NoRow /\ e.ext_line_id \in LinesOf(r)
        /\ \A g \in match_groups \cup groups : Before(g.run_id, r) =>
              e.ledger_txn_id \notin g.ledger_lines /\ e.ext_line_id \notin g.external_lines
        /\ \A f \in reconciliation_exceptions \cup exceptions :
              /\ f # e
              /\ f.ledger_txn_id = e.ledger_txn_id /\ f.ext_line_id = e.ext_line_id
              /\ Before(f.run_id, r)
              => f.assigned_to # NoUser

\* Nothing that was due is left without a group or an exception of somebody.
Accounts(r, groups, exceptions) ==
    /\ \A t \in run[r].due :
          \/ \E g \in groups : t \in g.ledger_lines
          \/ \E e \in exceptions : e.ledger_txn_id = t /\ e.ext_line_id = NoRow
    /\ \A l \in LinesOf(r) :
          \/ \E g \in groups : l \in g.external_lines
          \/ \E e \in exceptions : e.ledger_txn_id = NoRow /\ e.ext_line_id = l

Commit(r, groups, exceptions) ==
    /\ run[r].status = "RUNNING"
    /\ Matches(r, groups)
    /\ Excepts(r, groups, exceptions)
    /\ Accounts(r, match_groups \cup groups, reconciliation_exceptions \cup exceptions)
    /\ match_groups' = match_groups \cup groups
    /\ reconciliation_exceptions' = reconciliation_exceptions \cup exceptions
    /\ run' = [run EXCEPT ![r].status = "COMPLETED"]
    /\ UNCHANGED <<ledger_transactions, external_statement_lines>>

RollBack(r) ==
    /\ run[r].status = "RUNNING"
    /\ run' = [run EXCEPT ![r] = [NewRun EXCEPT !.status = "rolled_back"]]
    /\ UNCHANGED <<ledger_transactions, external_statement_lines, match_groups,
                   reconciliation_exceptions>>

\* A run may commit any rows that fit; they are taken from the step itself.
Next ==
    \/ \E t \in TxnIds : ImportLedger(LedgerTxn[t].batch_id)
    \/ \E l \in LineIds : ImportStatement(StatementLine[l].batch_id)
    \/ \E e \in reconciliation_exceptions, u \in Users : Assign(e, u)
    \/ \E r \in Runs, t \in TxnIds, l \in LineIds :
          Begin(r, LedgerTxn[t].value_date, StatementLine[l].batch_id)
    \/ \E r \in Runs :
          Commit(r, match_groups' \ match_groups,
                 reconciliation_exceptions' \ reconciliation_exceptions)
    \/ \E r \in Runs : RollBack(r)

Spec == Init /\ [][Next]_vars

=============================================================================
