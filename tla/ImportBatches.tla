---------------------------- MODULE ImportBatches ----------------------------
(***************************************************************************)
(* Imports of statements and ledgers.  An upload registers a batch in one  *)
(* transaction and fills and completes it in a second one; if that fails,  *)
(* a third one marks the batch as FAILED.  A file has one batch, found by  *)
(* its hash, which a later upload of a FAILED file takes over.             *)
(***************************************************************************)
EXTENDS Naturals, FiniteSets

CONSTANTS
    Files,         \* the contents that are uploaded, each for one source
    Ledgers,       \* those of source 1, imported by importInternalLedger
    Malformed,     \* those that parsing or validation rejects by themselves
    References,    \* external_ref, txn_ref
    Contents,      \* [Files -> set of references]: the rows of a file
    NoFile,        \* of an upload that has not begun
    MaxUploads,    \* bound: how often something is uploaded
    AccidentKinds, \* what may go wrong, a subset of the kinds below
    MaxAccidents   \* bound: how often it does

ASSUME ImportBatchesAssumption ==
    /\ Ledgers \subseteq Files
    /\ Malformed \subseteq Files
    /\ Contents \in [Files -> SUBSET References]
    /\ \A f \in Files : IsFiniteSet(Contents[f])
    /\ NoFile \notin Files
    /\ MaxUploads \in Nat
    /\ AccidentKinds \subseteq {"crash", "db_error", "ack_lost"}
    /\ MaxAccidents \in Nat

VARIABLES
    import_batches, \* [Files -> row]: UNIQUE (source_id, file_hash)
    rows,           \* external_statement_lines and ledger_transactions
    referenced,     \* those of them that match groups or exceptions refer to
    uploads,        \* [Uploads -> state of the request]
    accidents       \* how many there have been

vars == <<import_batches, rows, referenced, uploads, accidents>>

Uploads == 1..MaxUploads

\* What a request does next.
Stages == {"look_up", "register", "take_over", "validate", "insert", "fail"}

InFlight(u) == uploads[u].stage \in Stages

NoBatch == [status |-> "ABSENT", row_count |-> 0]

\* A request, with the others that were in flight at the same time.
NoUpload == [stage |-> "new", file |-> NoFile, alongside |-> {}]

\* A row remembers the upload that inserted it.
RowsOf(f, u) == {[batch_id |-> f, ref |-> ref, upload |-> u] : ref \in Contents[f]}

BatchRows(f) == {x \in rows : x.batch_id = f}

TypeOK ==
    /\ import_batches \in
          [Files -> [ status : {"ABSENT", "PROCESSING", "COMPLETED", "FAILED"},
                      row_count : {Cardinality(Contents[f]) : f \in Files} \cup {0} ]]
    /\ rows \subseteq [batch_id : Files, ref : References, upload : Uploads]
    /\ referenced \subseteq rows  \* the foreign keys
    /\ uploads \in
          [Uploads -> [ stage : Stages \cup {"new", "created", "refused", "lost"},
                        file : Files \cup {NoFile}, alongside : SUBSET Uploads ]]
    /\ accidents \in 0..MaxAccidents

Init ==
    /\ import_batches = [f \in Files |-> NoBatch]
    /\ rows = {}
    /\ referenced = {}
    /\ uploads = [u \in Uploads |-> NoUpload]
    /\ accidents = 0

Accident(kind) ==
    /\ kind \in AccidentKinds
    /\ accidents < MaxAccidents
    /\ accidents' = accidents + 1

Goto(u, stage) == uploads' = [uploads EXCEPT ![u].stage = stage]

\* The transaction of a stage commits, and its process learns it or does not.
Proceed(u, stage, onError) ==
    \/ Goto(u, stage) /\ UNCHANGED accidents
    \/ Goto(u, onError) /\ Accident("ack_lost")

-----------------------------------------------------------------------------
(* The requests. *)

Upload(u, f) ==
    LET others == {v \in Uploads : InFlight(v)}
    IN  /\ uploads[u].stage = "new"
        /\ \A v \in Uploads : v < u => uploads[v].stage # "new"
        /\ uploads' = [v \in Uploads |->
              IF v = u THEN [stage |-> "look_up", file |-> f, alongside |-> others]
              ELSE IF v \in others THEN [uploads[v] EXCEPT !.alongside = @ \cup {u}]
              ELSE uploads[v]]
        /\ UNCHANGED <<import_batches, rows, referenced, accidents>>

\* The SELECT of createImportBatch.
\* Mutant: a batch that is COMPLETED is taken over as well.
FindAnyBatch(u) ==
    LET status == import_batches[uploads[u].file].status
    IN  /\ uploads[u].stage = "look_up"
        /\ Goto(u, IF status = "ABSENT" THEN "register" ELSE "take_over")
        /\ UNCHANGED <<import_batches, rows, referenced, accidents>>

FindBatch(u) ==
    LET status == import_batches[uploads[u].file].status
    IN  /\ uploads[u].stage = "look_up"
        /\ Goto(u, CASE status = "ABSENT" -> "register"
                     [] status = "FAILED" -> "take_over"
                     [] OTHER             -> "refused")
        /\ UNCHANGED <<import_batches, rows, referenced, accidents>>

\* The INSERT, which fails if another upload has registered the file.
Register(u) ==
    LET f == uploads[u].file
    IN  /\ uploads[u].stage = "register"
        /\ \/ /\ import_batches[f].status = "ABSENT"
              /\ import_batches' = [import_batches EXCEPT ![f].status = "PROCESSING"]
              /\ Proceed(u, "validate", "refused")
           \/ /\ import_batches[f].status # "ABSENT"
              /\ Goto(u, "refused")
              /\ UNCHANGED <<import_batches, accidents>>
        /\ UNCHANGED <<rows, referenced>>

\* The UPDATE and the DELETE, in one transaction that holds the batch's row.
\* Nobody looks whether the batch is still FAILED.  The statement lines of the
\* batch are deleted, if a foreign key does not prevent it; a ledger's rows stay.
\* Mutant: what refers to the rows is not looked at.
TakeOverForced(u) ==
    LET f == uploads[u].file
    IN  /\ uploads[u].stage = "take_over"
        /\ import_batches' = [import_batches EXCEPT ![f] =
              [status |-> "PROCESSING", row_count |-> 0]]
        /\ rows' = {x \in rows : x.batch_id = f => f \in Ledgers}
        /\ Proceed(u, "validate", "refused")
        /\ UNCHANGED referenced

TakeOver(u) ==
    LET f == uploads[u].file
    IN  /\ uploads[u].stage = "take_over"
        /\ \/ /\ f \in Ledgers \/ BatchRows(f) \cap referenced = {}
              /\ import_batches' = [import_batches EXCEPT ![f] =
                    [status |-> "PROCESSING", row_count |-> 0]]
              /\ rows' = {x \in rows : x.batch_id = f => f \in Ledgers}
              /\ Proceed(u, "validate", "refused")
           \/ /\ f \notin Ledgers /\ BatchRows(f) \cap referenced # {}
              /\ Goto(u, "refused")
              /\ UNCHANGED <<import_batches, rows, accidents>>
        /\ UNCHANGED referenced

\* References in the table that the file goes to, of whatever batch.
TakenReferences(f) == {x.ref : x \in {y \in rows : y.batch_id \in Ledgers <=> f \in Ledgers}}

\* COPY to a temporary table, and the queries that look for errors there.
\* Mutant: the tables themselves are not looked at.
ValidateFile(u) ==
    /\ uploads[u].stage = "validate"
    /\ Goto(u, IF uploads[u].file \in Malformed THEN "fail" ELSE "insert")
    /\ UNCHANGED <<import_batches, rows, referenced, accidents>>

\* Mutant: markBatchCompleted comes first, in a transaction of its own.
ValidateAndComplete(u) ==
    LET f == uploads[u].file
    IN  /\ uploads[u].stage = "validate"
        /\ f \notin Malformed /\ Contents[f] \cap TakenReferences(f) = {}
        /\ import_batches' = [import_batches EXCEPT ![f] =
              [status |-> "COMPLETED", row_count |-> Cardinality(Contents[f])]]
        /\ Goto(u, "insert")
        /\ UNCHANGED <<rows, referenced, accidents>>

Validate(u) ==
    LET f == uploads[u].file
    IN  /\ uploads[u].stage = "validate"
        /\ Goto(u, IF f \in Malformed \/ Contents[f] \cap TakenReferences(f) # {}
                   THEN "fail" ELSE "insert")
        /\ UNCHANGED <<import_batches, rows, referenced, accidents>>

\* insertFromStagingToMain, insertLedgerFromStaging, markBatchCompleted, COMMIT.
Insert(u) ==
    LET f == uploads[u].file
    IN  /\ uploads[u].stage = "insert"
        /\ rows' = rows \cup RowsOf(f, u)
        /\ import_batches' = [import_batches EXCEPT ![f] =
              [status |-> "COMPLETED", row_count |-> Cardinality(Contents[f])]]
        /\ Proceed(u, "created", "fail")
        /\ UNCHANGED referenced

\* The batch is found by its id, whatever its status is by now.
MarkFailed(u) ==
    /\ uploads[u].stage = "fail"
    /\ import_batches' = [import_batches EXCEPT ![uploads[u].file].status = "FAILED"]
    /\ Goto(u, "refused")
    /\ UNCHANGED <<rows, referenced, accidents>>

\* A transaction fails and is rolled back.  If it is the one that marks the
\* batch as FAILED, the error is logged.
Fails(u) ==
    /\ InFlight(u)
    /\ Accident("db_error")
    /\ Goto(u, IF uploads[u].stage \in {"validate", "insert"} THEN "fail" ELSE "refused")
    /\ UNCHANGED <<import_batches, rows, referenced>>

Crash(u) ==
    /\ InFlight(u)
    /\ Accident("crash")
    /\ Goto(u, "lost")
    /\ UNCHANGED <<import_batches, rows, referenced>>

\* A reconciliation run matches or excepts the lines of a batch, which
\* requireExternalSettlementBatch wants to be COMPLETED.
Reconcile(f) ==
    /\ f \notin Ledgers
    /\ import_batches[f].status = "COMPLETED"
    /\ BatchRows(f) # {}
    /\ referenced' = referenced \cup BatchRows(f)
    /\ UNCHANGED <<import_batches, rows, uploads, accidents>>

Handle(u) ==
    \/ FindBatch(u) \/ Register(u) \/ TakeOver(u)
    \/ Validate(u) \/ Insert(u) \/ MarkFailed(u)

Next ==
    \/ \E u \in Uploads, f \in Files : Upload(u, f)
    \/ \E u \in Uploads : Handle(u) \/ Fails(u) \/ Crash(u)
    \/ \E f \in Files : Reconcile(f)

Spec == Init /\ [][Next]_vars

-----------------------------------------------------------------------------
(* Properties. *)

UploadsOf(f) == {u \in Uploads : uploads[u].file = f}

\* No upload of the file has been in flight together with another one of it.
OneAtATime(f) == \A u \in UploadsOf(f) : uploads[u].alongside \cap UploadsOf(f) = {}

\* Whatever goes wrong in an upload, and however often the file is uploaded
\* again: as long as that happens one after the other, a COMPLETED batch holds
\* each row of its file, from one upload, and says how many there are.  Uploads
\* that overlap may take a FAILED batch over together, and import it twice.
CompletedIsWhole ==
    \A f \in Files : import_batches[f].status = "COMPLETED" /\ OneAtATime(f) =>
        /\ \E u \in UploadsOf(f) : BatchRows(f) = RowsOf(f, u)
        /\ import_batches[f].row_count = Cardinality(Contents[f])

\* Who was told that a file is imported, with no other upload of it in flight
\* at the time, can rely on it: the rows stay, and so does the batch.
AcknowledgedStays ==
    \A u \in Uploads : LET f == uploads[u].file IN
        uploads[u].stage = "created" /\ uploads[u].alongside \cap UploadsOf(f) = {} =>
            /\ import_batches[f].status = "COMPLETED"
            /\ BatchRows(f) = RowsOf(f, u)

\* A reference is in a table twice only if uploads overlapped, of the same file
\* or of two files that share it: no unique index backs the validation.
ReferencesOnce ==
    \A x, y \in rows :
        /\ x # y /\ x.ref = y.ref
        /\ x.batch_id \in Ledgers <=> y.batch_id \in Ledgers
        => x.upload \in uploads[y.upload].alongside

=============================================================================
