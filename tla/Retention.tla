------------------------------ MODULE Retention ------------------------------
(***************************************************************************)
(* The job ARCHIVE_CLEANUP_JOBS: rows that ended more than thirty days ago *)
(* (closed exceptions and completed jobs) move to the archive tables, and  *)
(* the partitions of audit_logs for this month and the next two are        *)
(* created, all in one transaction.  Every worker process schedules the    *)
(* job for one o'clock, so that several such transactions overlap.         *)
(*                                                                         *)
(* now() is the time at which a transaction began: its statements agree on *)
(* which rows are old, whatever turns old in between.                      *)
(***************************************************************************)
EXTENDS Naturals

CONSTANTS
    Rows,         \* rows that have ended: closed exceptions, completed jobs
    Exceptions,   \* those of them in reconciliation_exceptions
    Archivers,    \* the calls of archiveOldJobsAndExceptions that may overlap
    MaxMonth,     \* bound: how many months pass
    MaxAccidents  \* bound: how often a transaction fails, or its process dies

ASSUME RetentionAssumption ==
    /\ Exceptions \subseteq Rows
    /\ MaxMonth \in Nat
    /\ MaxAccidents \in Nat

VARIABLES
    owner,      \* does the server connect as the owner of the tables, or as
                \* reconengine_app?  It never changes
    month,      \* the current month, counted from the migration
    old,        \* the rows that ended more than thirty days ago
    live,       \* the rows in reconciliation_exceptions and background_jobs
    archived,   \* the rows in the two archive tables
    partitions, \* the months audit_logs has a partition for
    archive,    \* [Archivers -> the transaction]
    accidents   \* how many there have been

vars == <<owner, month, old, live, archived, partitions, archive, accidents>>

Jobs == Rows \ Exceptions

\* What a transaction does next.
Stages == { "copy_exceptions", "delete_exceptions", "copy_jobs", "delete_jobs",
            "look", "create" }

Months == 0..(MaxMonth + 2)

\* due and month are what old and month were at its BEGIN; copied, deleted are
\* its uncommitted rows; missing are the partitions it has not found.
Transaction == [ stage : Stages \cup {"none"}, due : SUBSET Rows, month : 0..MaxMonth,
                 copied : SUBSET Rows, deleted : SUBSET Rows, missing : SUBSET Months ]

NoTransaction == [ stage |-> "none", due |-> {}, month |-> 0,
                   copied |-> {}, deleted |-> {}, missing |-> {} ]

TypeOK ==
    /\ owner \in BOOLEAN
    /\ month \in 0..MaxMonth
    /\ old \subseteq Rows
    /\ live \subseteq Rows
    /\ archived \subseteq Rows
    /\ partitions \subseteq Months
    /\ archive \in [Archivers -> Transaction]
    /\ accidents \in 0..MaxAccidents

\* The migration has created the first partitions.
Init ==
    /\ owner \in BOOLEAN
    /\ month = 0
    /\ old = {}
    /\ live = Rows
    /\ archived = {}
    /\ partitions = 0..2
    /\ archive = [a \in Archivers |-> NoTransaction]
    /\ accidents = 0

-----------------------------------------------------------------------------
(* Time. *)

Age(r) ==
    /\ r \notin old
    /\ old' = old \cup {r}
    /\ UNCHANGED <<owner, month, live, archived, partitions, archive, accidents>>

NextMonth ==
    /\ month < MaxMonth
    /\ month' = month + 1
    /\ UNCHANGED <<owner, old, live, archived, partitions, archive, accidents>>

-----------------------------------------------------------------------------
(* The transaction, statement by statement. *)

Begin(a) ==
    /\ archive[a].stage = "none"
    /\ archive' = [archive EXCEPT ![a] =
          [NoTransaction EXCEPT !.stage = "copy_exceptions", !.due = old, !.month = month]]
    /\ UNCHANGED <<owner, month, old, live, archived, partitions, accidents>>

\* A closed exception is assigned, so that the policies of its table hide it
\* from a job of reconengine_app, which sets no user; and they let it DELETE
\* no row.  The owner is not subject to them.
Accessible(kind) == IF owner THEN kind ELSE kind \ Exceptions

Ended(a, kind) == archive[a].due \cap live \cap Accessible(kind)

\* INSERT ... SELECT ... ON CONFLICT DO NOTHING waits for whoever has inserted
\* one of the rows, and skips what turns out to be archived.
Copy(a, kind, from, to) ==
    /\ archive[a].stage = from
    /\ \A b \in Archivers \ {a} : archive[b].copied \cap Ended(a, kind) = {}
    /\ archive' = [archive EXCEPT ![a].stage = to, ![a].copied = @ \cup Ended(a, kind)]
    /\ UNCHANGED <<owner, month, old, live, archived, partitions, accidents>>

\* Mutant: the DELETE compares with the time of the statement.
DeleteByNow(a, kind, from, to) ==
    /\ archive[a].stage = from
    /\ archive' = [archive EXCEPT ![a].stage = to,
                                  ![a].deleted = @ \cup (old \cap live \cap Accessible(kind))]
    /\ UNCHANGED <<owner, month, old, live, archived, partitions, accidents>>

Delete(a, kind, from, to) ==
    /\ archive[a].stage = from
    /\ archive' = [archive EXCEPT ![a].stage = to, ![a].deleted = @ \cup Ended(a, kind)]
    /\ UNCHANGED <<owner, month, old, live, archived, partitions, accidents>>

\* fn_precreate_audit_partitions: 0..2 months ahead.  Mutant: one too many.
NeededTooFar(m) == m..(m + 3)

Needed(m) == m..(m + 2)

\* Mutant: CREATE TABLE without the IF NOT EXISTS.
LookNot(a) ==
    /\ archive[a].stage = "look"
    /\ archive' = [archive EXCEPT ![a].stage = "create", ![a].missing = Needed(archive[a].month)]
    /\ UNCHANGED <<owner, month, old, live, archived, partitions, accidents>>

\* The look into pg_class does not see what others have not committed.
Look(a) ==
    /\ archive[a].stage = "look"
    /\ archive' = [archive EXCEPT ![a].stage = "create",
                                  ![a].missing = Needed(archive[a].month) \ partitions]
    /\ UNCHANGED <<owner, month, old, live, archived, partitions, accidents>>

\* CREATE TABLE ... PARTITION OF locks audit_logs until the transaction ends,
\* so that the creation and the commit are one step.  It is for the owner of
\* audit_logs, and it fails if the table has come to exist in the meantime.
Creatable(a) ==
    archive[a].missing # {} => owner /\ archive[a].missing \cap partitions = {}

CreateAndCommit(a) ==
    /\ archive[a].stage = "create"
    /\ Creatable(a)
    /\ partitions' = partitions \cup archive[a].missing
    /\ live' = live \ archive[a].deleted
    /\ archived' = archived \cup archive[a].copied
    /\ archive' = [archive EXCEPT ![a] = NoTransaction]
    /\ UNCHANGED <<owner, month, old, accidents>>

\* A failing CREATE TABLE takes everything with it.  The job is retried, or
\* comes up again the next day.
CreateFails(a) ==
    /\ archive[a].stage = "create"
    /\ ~Creatable(a)
    /\ archive' = [archive EXCEPT ![a] = NoTransaction]
    /\ UNCHANGED <<owner, month, old, live, archived, partitions, accidents>>

RollBack(a) ==
    /\ archive[a].stage # "none"
    /\ accidents < MaxAccidents
    /\ accidents' = accidents + 1
    /\ archive' = [archive EXCEPT ![a] = NoTransaction]
    /\ UNCHANGED <<owner, month, old, live, archived, partitions>>

Statement(a) ==
    \/ Copy(a, Exceptions, "copy_exceptions", "delete_exceptions")
    \/ Delete(a, Exceptions, "delete_exceptions", "copy_jobs")
    \/ Copy(a, Jobs, "copy_jobs", "delete_jobs")
    \/ Delete(a, Jobs, "delete_jobs", "look")
    \/ Look(a)
    \/ CreateAndCommit(a)
    \/ CreateFails(a)

Next ==
    \/ \E r \in Rows : Age(r)
    \/ NextMonth
    \/ \E a \in Archivers : Begin(a) \/ Statement(a) \/ RollBack(a)

Spec == Init /\ [][Next]_vars

\* The job comes up every day, in every process, and the database answers.
FairSpec ==
    /\ Spec
    /\ \A a \in Archivers : WF_vars(Begin(a)) /\ WF_vars(Statement(a))

-----------------------------------------------------------------------------
(* Properties. *)

\* However many archive jobs overlap, fail or are repeated, a row is in its
\* table or in the archive, and only old rows are in the archive.
OneTable ==
    /\ \A r \in Rows : r \in live <=> r \notin archived
    /\ archived \subseteq old

\* Whoever owns the tables gets every old row archived in the end: neither the
\* waits of overlapping jobs for each other nor their race to create the same
\* partition lasts.  (reconengine_app cannot create partitions: from the second
\* month on each of its archive transactions rolls back.)
OldRowsAreArchived ==
    owner => \A r \in Rows : r \in old ~> r \in archived

=============================================================================
