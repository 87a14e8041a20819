------------------------- MODULE ImportBatchesProofs -------------------------
(***************************************************************************)
(* Proofs about ImportBatches, for any files, any number of uploads and    *)
(* any accidents.  The validation looks at the tables in one transaction   *)
(* and the rows are inserted in another: what has come in between was      *)
(* inserted by an upload in flight at the same time, and everything else   *)
(* follows from that.                                                      *)
(***************************************************************************)
EXTENDS ImportBatches, TLAPS

AllStages == Stages \cup {"new", "created", "refused", "lost"}

\* Who has been in flight together knows of each other.
Overlaps ==
    /\ \A u, v \in Uploads : v \in uploads[u].alongside => u \in uploads[v].alongside
    /\ \A u \in Uploads : u \notin uploads[u].alongside
    /\ \A u, v \in Uploads : u # v /\ InFlight(u) /\ InFlight(v) => v \in uploads[u].alongside
    /\ \A u \in Uploads : uploads[u].stage = "new" =>
          uploads[u].file = NoFile /\ uploads[u].alongside = {}
    /\ \A u \in Uploads : uploads[u].stage # "new" => uploads[u].file \in Files

\* A row is one of its file's, and of an upload of that file.
RowsAreOfFiles ==
    \A x \in rows :
        /\ x.ref \in Contents[x.batch_id]
        /\ uploads[x.upload].file = x.batch_id

\* The row would be a duplicate in the file.
Duplicates(x, f) == x.ref \in Contents[f] /\ (x.batch_id \in Ledgers <=> f \in Ledgers)

\* What the validation has not seen came from an overlapping upload.
ValidatedApart ==
    \A u \in Uploads : uploads[u].stage = "insert" =>
        \A x \in rows : Duplicates(x, uploads[u].file) => x.upload \in uploads[u].alongside

\* An upload that was answered "created", with no other of its file alongside.
Settled(u) ==
    /\ uploads[u].stage = "created"
    /\ uploads[u].alongside \cap UploadsOf(uploads[u].file) = {}

\* Later uploads of that file get no further than to look for the batch.
LatecomersOnlyLook ==
    \A u, v \in Uploads :
        Settled(u) /\ InFlight(v) /\ uploads[v].file = uploads[u].file =>
            uploads[v].stage = "look_up"

\* The inductive invariant.
IInv ==
    /\ TypeOK
    /\ Overlaps
    /\ RowsAreOfFiles
    /\ ValidatedApart
    /\ LatecomersOnlyLook
    /\ CompletedIsWhole
    /\ AcknowledgedStays
    /\ ReferencesOnce

-----------------------------------------------------------------------------

LEMMA InitIInv == Init => IInv
<1> SUFFICES ASSUME Init PROVE IInv
  OBVIOUS
<1> USE ImportBatchesAssumption DEF Init, NoBatch, NoUpload
<1>1. TypeOK
  BY DEF TypeOK
<1>2. Overlaps /\ RowsAreOfFiles /\ ValidatedApart /\ LatecomersOnlyLook
  BY DEF Overlaps, RowsAreOfFiles, ValidatedApart, LatecomersOnlyLook, InFlight, Stages, Settled
<1>3. CompletedIsWhole /\ AcknowledgedStays /\ ReferencesOnce
  BY DEF CompletedIsWhole, AcknowledgedStays, ReferencesOnce
<1> QED
  BY <1>1, <1>2, <1>3 DEF IInv

\* A request that goes on keeps its file and its company.
LEMMA GotoKeeps ==
  ASSUME IInv, NEW u \in Uploads, InFlight(u),
         NEW s \in AllStages \ {"new"}, Goto(u, s)
  PROVE  /\ uploads' \in [Uploads -> [ stage : AllStages, file : Files \cup {NoFile},
                                       alongside : SUBSET Uploads ]]
         /\ uploads'[u].stage = s
         /\ \A v \in Uploads : v # u => uploads'[v].stage = uploads[v].stage
         /\ \A v \in Uploads : /\ uploads'[v].file = uploads[v].file
                               /\ uploads'[v].alongside = uploads[v].alongside
         /\ uploads[u].file \in Files
         /\ Overlaps'
<1>1. uploads \in [Uploads -> [ stage : AllStages, file : Files \cup {NoFile},
                                alongside : SUBSET Uploads ]]
  BY DEF IInv, TypeOK, AllStages
<1>2. uploads' = [uploads EXCEPT ![u].stage = s]
  BY DEF Goto
<1>3. /\ uploads' \in [Uploads -> [ stage : AllStages, file : Files \cup {NoFile},
                                    alongside : SUBSET Uploads ]]
      /\ uploads'[u].stage = s
      /\ \A v \in Uploads : v # u => uploads'[v].stage = uploads[v].stage
      /\ \A v \in Uploads : /\ uploads'[v].file = uploads[v].file
                            /\ uploads'[v].alongside = uploads[v].alongside
  BY <1>1, <1>2
<1>4. uploads[u].stage # "new"
  BY DEF InFlight, Stages
<1>5. uploads[u].file \in Files
  BY <1>4 DEF IInv, Overlaps
<1>6. \A v \in Uploads : InFlight(v)' => InFlight(v)
  BY <1>3 DEF InFlight
<1>7. Overlaps'
  BY <1>3, <1>4, <1>6 DEF IInv, Overlaps
<1> QED
  BY <1>3, <1>5, <1>7

\* Whoever is past looking is not a latecomer.
LEMMA NobodySettled ==
  ASSUME IInv, NEW u \in Uploads, InFlight(u), uploads[u].stage # "look_up"
  PROVE  \A w \in Uploads : Settled(w) => uploads[w].file # uploads[u].file
BY DEF IInv, LatecomersOnlyLook

-----------------------------------------------------------------------------

\* A request goes on and inserts nothing.  It may change its file's batch and
\* take rows away from it, but not from a batch it leaves COMPLETED, nor when
\* an upload of the file has settled.
LEMMA StepKeeps ==
  ASSUME IInv, TypeOK',
         NEW u \in Uploads, InFlight(u),
         NEW s \in AllStages \ {"new", "created"}, Goto(u, s),
         NEW f \in Files, f = uploads[u].file,
         rows' \subseteq rows,
         \A g \in Files : g # f => /\ import_batches'[g] = import_batches[g]
                                   /\ BatchRows(g)' = BatchRows(g),
         import_batches'[f].status = "COMPLETED" =>
            import_batches'[f] = import_batches[f] /\ BatchRows(f)' = BatchRows(f),
         \A w \in Uploads : Settled(w) /\ uploads[w].file = f =>
            /\ import_batches'[f] = import_batches[f]
            /\ BatchRows(f)' = BatchRows(f)
            /\ s \notin Stages,
         s = "insert" =>
            \A x \in rows : Duplicates(x, f) => x.upload \in uploads[u].alongside
  PROVE  IInv'
<1>1. /\ uploads'[u].stage = s
      /\ \A v \in Uploads : v # u => uploads'[v].stage = uploads[v].stage
      /\ \A v \in Uploads : /\ uploads'[v].file = uploads[v].file
                            /\ uploads'[v].alongside = uploads[v].alongside
      /\ Overlaps'
  BY GotoKeeps
<1>2. \A x \in rows : x.batch_id \in Files /\ x.upload \in Uploads
  BY DEF IInv, TypeOK
<1>3. RowsAreOfFiles'
  BY <1>1, <1>2 DEF IInv, RowsAreOfFiles
<1>4. ValidatedApart'
  <2> SUFFICES ASSUME NEW v \in Uploads, uploads'[v].stage = "insert",
                      NEW x \in rows', Duplicates(x, uploads'[v].file)
               PROVE  x.upload \in uploads'[v].alongside
    BY DEF ValidatedApart, Duplicates
  <2>1. x \in rows /\ Duplicates(x, uploads[v].file)
    BY <1>1
  <2>2. CASE v = u
    BY <1>1, <2>1, <2>2
  <2>3. CASE v # u
    BY <1>1, <2>1, <2>3 DEF IInv, ValidatedApart
  <2> QED
    BY <2>2, <2>3
<1>5. \A g \in Files : UploadsOf(g)' = UploadsOf(g)
  BY <1>1 DEF UploadsOf
<1>6. \A w \in Uploads : Settled(w)' => Settled(w) /\ w # u /\ uploads[w].file \in Files
  <2> SUFFICES ASSUME NEW w \in Uploads, Settled(w)'
               PROVE  Settled(w) /\ w # u /\ uploads[w].file \in Files
    OBVIOUS
  <2>1. uploads'[w].stage = "created"
    BY DEF Settled
  <2>2. w # u /\ uploads[w].stage = "created"
    BY <1>1, <2>1
  <2>3. uploads[w].file \in Files
    BY <2>2 DEF IInv, Overlaps
  <2> QED
    BY <1>1, <1>5, <2>2, <2>3 DEF Settled
<1>7. LatecomersOnlyLook'
  <2> SUFFICES ASSUME NEW w \in Uploads, NEW v \in Uploads,
                      Settled(w)', InFlight(v)', uploads'[v].file = uploads'[w].file
               PROVE  uploads'[v].stage = "look_up"
    BY DEF LatecomersOnlyLook
  <2>1. Settled(w) /\ uploads[v].file = uploads[w].file
    BY <1>1, <1>6
  <2>2. v # u
    BY <1>1, <2>1 DEF InFlight
  <2> QED
    BY <1>1, <2>1, <2>2 DEF IInv, LatecomersOnlyLook, InFlight
<1>8. \A g \in Files : OneAtATime(g)' => OneAtATime(g)
  BY <1>1, <1>5 DEF OneAtATime, UploadsOf
<1>9. CompletedIsWhole'
  <2> SUFFICES ASSUME NEW g \in Files, import_batches'[g].status = "COMPLETED", OneAtATime(g)'
               PROVE  /\ \E v \in UploadsOf(g)' : BatchRows(g)' = RowsOf(g, v)
                      /\ import_batches'[g].row_count = Cardinality(Contents[g])
    BY DEF CompletedIsWhole, RowsOf
  <2>1. import_batches'[g] = import_batches[g] /\ BatchRows(g)' = BatchRows(g)
    OBVIOUS
  <2>2. OneAtATime(g) /\ import_batches[g].status = "COMPLETED"
    BY <1>8, <2>1
  <2>3. PICK v \in UploadsOf(g) : BatchRows(g) = RowsOf(g, v)
    BY <2>2 DEF IInv, CompletedIsWhole
  <2>4. import_batches[g].row_count = Cardinality(Contents[g])
    BY <2>2 DEF IInv, CompletedIsWhole
  <2>5. v \in UploadsOf(g)' /\ BatchRows(g)' = RowsOf(g, v)
    BY <1>5, <2>1, <2>3
  <2> QED
    BY <2>1, <2>4, <2>5
<1>10. AcknowledgedStays'
  <2>1. ASSUME NEW w \in Uploads, Settled(w)'
        PROVE  (import_batches[uploads[w].file].status = "COMPLETED" /\
                BatchRows(uploads[w].file) = RowsOf(uploads[w].file, w))'
    <3> DEFINE g == uploads[w].file
    <3>1. Settled(w) /\ g \in Files /\ uploads'[w].file = g
      BY <1>1, <1>6, <2>1
    <3>2. import_batches'[g] = import_batches[g] /\ BatchRows(g)' = BatchRows(g)
      BY <3>1
    <3>3. import_batches[g].status = "COMPLETED" /\ BatchRows(g) = RowsOf(g, w)
      BY <3>1 DEF IInv, AcknowledgedStays, Settled
    <3>4. RowsOf(uploads[w].file, w)' = RowsOf(g, w)
      BY <3>1 DEF RowsOf
    <3> QED
      BY <3>1, <3>2, <3>3, <3>4 DEF BatchRows
  <2> QED
    BY <2>1 DEF AcknowledgedStays, Settled
<1>11. ReferencesOnce'
  <2> SUFFICES ASSUME NEW x \in rows', NEW y \in rows', x # y, x.ref = y.ref,
                      x.batch_id \in Ledgers <=> y.batch_id \in Ledgers
               PROVE  x.upload \in uploads'[y.upload].alongside
    BY DEF ReferencesOnce
  <2>1. x \in rows /\ y \in rows /\ y.upload \in Uploads
    BY <1>2
  <2> QED
    BY <1>1, <2>1 DEF IInv, ReferencesOnce
<1> QED
  BY <1>1, <1>3, <1>4, <1>7, <1>9, <1>10, <1>11 DEF IInv

-----------------------------------------------------------------------------
(* One lemma per step. *)

\* A new upload knows whom it joins, and they know of it.
LEMMA UploadStep ==
  ASSUME IInv, NEW u \in Uploads, NEW f \in Files, Upload(u, f)
  PROVE  IInv'
<1> DEFINE others == {v \in Uploads : InFlight(v)}
<1>1. uploads[u].stage = "new" /\ u \notin others
  BY DEF Upload, InFlight, Stages
<1>2. uploads[u].file = NoFile /\ uploads[u].alongside = {}
  BY <1>1 DEF IInv, Overlaps
<1>3. /\ uploads' = [v \in Uploads |->
            IF v = u THEN [stage |-> "look_up", file |-> f, alongside |-> others]
            ELSE IF v \in others THEN [uploads[v] EXCEPT !.alongside = @ \cup {u}]
            ELSE uploads[v]]
      /\ UNCHANGED <<import_batches, rows, referenced, accidents>>
  BY DEF Upload
<1>4. uploads \in [Uploads -> [ stage : AllStages, file : Files \cup {NoFile},
                                alongside : SUBSET Uploads ]]
  BY DEF IInv, TypeOK, AllStages
<1>5. /\ uploads'[u].stage = "look_up"
      /\ uploads'[u].file = f
      /\ uploads'[u].alongside = others
  BY <1>3
<1>6. \A v \in Uploads \ {u} :
          /\ uploads'[v].stage = uploads[v].stage
          /\ uploads'[v].file = uploads[v].file
          /\ uploads'[v].alongside =
                uploads[v].alongside \cup (IF v \in others THEN {u} ELSE {})
  BY <1>3, <1>4
<1>7. uploads' \in [Uploads -> [ stage : AllStages, file : Files \cup {NoFile},
                                 alongside : SUBSET Uploads ]]
  <2> SUFFICES ASSUME NEW v \in Uploads
               PROVE  IF v = u
                      THEN [stage |-> "look_up", file |-> f, alongside |-> others] \in
                              [ stage : AllStages, file : Files \cup {NoFile},
                                alongside : SUBSET Uploads ]
                      ELSE /\ uploads[v] \in [ stage : AllStages, file : Files \cup {NoFile},
                                               alongside : SUBSET Uploads ]
                           /\ [uploads[v] EXCEPT !.alongside = @ \cup {u}] \in
                                 [ stage : AllStages, file : Files \cup {NoFile},
                                   alongside : SUBSET Uploads ]
    BY <1>3
  <2> QED
    BY <1>4 DEF AllStages, Stages
<1>8. TypeOK'
  BY <1>3, <1>7 DEF IInv, TypeOK, AllStages
<1>9. \A v \in Uploads : InFlight(v)' <=> v = u \/ v \in others
  BY <1>5, <1>6 DEF InFlight, Stages
<1>10. Overlaps'
  <2>1. \A v, w \in Uploads : w \in uploads'[v].alongside => v \in uploads'[w].alongside
    BY <1>1, <1>2, <1>5, <1>6 DEF IInv, Overlaps
  <2>2. \A v \in Uploads : v \notin uploads'[v].alongside
    BY <1>1, <1>5, <1>6 DEF IInv, Overlaps
  <2>3. \A v, w \in Uploads : v # w /\ InFlight(v)' /\ InFlight(w)' => w \in uploads'[v].alongside
    BY <1>5, <1>6, <1>9 DEF IInv, Overlaps
  <2>4. \A v \in Uploads :
          /\ uploads'[v].stage = "new" => uploads'[v].file = NoFile /\ uploads'[v].alongside = {}
          /\ uploads'[v].stage # "new" => uploads'[v].file \in Files
    BY <1>5, <1>6 DEF IInv, Overlaps, InFlight, Stages
  <2> QED
    BY <2>1, <2>2, <2>3, <2>4 DEF Overlaps
<1>11. \A x \in rows : x.upload \in Uploads \ {u} /\ x.batch_id \in Files
  <2>1. \A x \in rows : x.upload \in Uploads /\ x.batch_id \in Files
    BY DEF IInv, TypeOK
  <2> QED
    BY <1>2, <2>1, ImportBatchesAssumption DEF IInv, RowsAreOfFiles
<1>12. RowsAreOfFiles'
  BY <1>3, <1>6, <1>11 DEF IInv, RowsAreOfFiles
<1>13. ValidatedApart'
  <2> SUFFICES ASSUME NEW v \in Uploads, uploads'[v].stage = "insert",
                      NEW x \in rows, Duplicates(x, uploads'[v].file)
               PROVE  x.upload \in uploads'[v].alongside
    BY <1>3 DEF ValidatedApart, Duplicates
  <2>1. v # u /\ uploads[v].stage = "insert" /\ Duplicates(x, uploads[v].file)
    BY <1>5, <1>6
  <2> QED
    BY <1>6, <2>1 DEF IInv, ValidatedApart
<1>14. \A g \in Files : UploadsOf(g) \subseteq UploadsOf(g)' /\ u \notin UploadsOf(g)
  BY <1>2, <1>6, ImportBatchesAssumption DEF UploadsOf
<1>15. \A w \in Uploads : Settled(w)' => Settled(w) /\ w # u /\ uploads'[w] = uploads[w]
                                          /\ uploads[w].file \in Files
  <2> SUFFICES ASSUME NEW w \in Uploads, Settled(w)'
               PROVE  /\ Settled(w) /\ w # u /\ uploads'[w] = uploads[w]
                      /\ uploads[w].file \in Files
    OBVIOUS
  <2>1. w # u /\ uploads[w].stage = "created"
    BY <1>5, <1>6 DEF Settled
  <2>2. w \notin others
    BY <2>1 DEF InFlight, Stages
  <2>3. uploads'[w] = uploads[w]
    BY <1>3, <2>1, <2>2
  <2>4. uploads[w].file \in Files
    BY <2>1 DEF IInv, Overlaps
  <2> QED
    BY <1>14, <2>1, <2>3, <2>4 DEF Settled
<1>16. LatecomersOnlyLook'
  <2> SUFFICES ASSUME NEW w \in Uploads, NEW v \in Uploads,
                      Settled(w)', InFlight(v)', uploads'[v].file = uploads'[w].file
               PROVE  uploads'[v].stage = "look_up"
    BY DEF LatecomersOnlyLook
  <2>1. CASE v = u
    BY <1>5, <2>1
  <2>2. CASE v # u
    BY <1>6, <1>9, <1>15, <2>2 DEF IInv, LatecomersOnlyLook
  <2> QED
    BY <2>1, <2>2
<1>17. \A g \in Files : OneAtATime(g)' => OneAtATime(g)
  BY <1>6, <1>14 DEF OneAtATime, UploadsOf
<1>18. CompletedIsWhole'
  <2> SUFFICES ASSUME NEW g \in Files, import_batches[g].status = "COMPLETED", OneAtATime(g)'
               PROVE  /\ \E v \in UploadsOf(g)' : BatchRows(g) = RowsOf(g, v)
                      /\ import_batches[g].row_count = Cardinality(Contents[g])
    BY <1>3 DEF CompletedIsWhole, RowsOf, BatchRows
  <2> QED
    BY <1>14, <1>17 DEF IInv, CompletedIsWhole
<1>19. AcknowledgedStays'
  <2>1. ASSUME NEW w \in Uploads, Settled(w)'
        PROVE  (import_batches[uploads[w].file].status = "COMPLETED" /\
                BatchRows(uploads[w].file) = RowsOf(uploads[w].file, w))'
    <3> DEFINE g == uploads[w].file
    <3>1. Settled(w) /\ g \in Files /\ uploads'[w].file = g
      BY <1>15, <2>1
    <3>2. import_batches[g].status = "COMPLETED" /\ BatchRows(g) = RowsOf(g, w)
      BY <3>1 DEF IInv, AcknowledgedStays, Settled
    <3>3. RowsOf(uploads[w].file, w)' = RowsOf(g, w)
      BY <3>1 DEF RowsOf
    <3>4. BatchRows(uploads[w].file)' = BatchRows(g)
      BY <1>3, <3>1 DEF BatchRows
    <3> QED
      BY <1>3, <3>1, <3>2, <3>3, <3>4
  <2> QED
    BY <2>1 DEF AcknowledgedStays, Settled
<1>20. ReferencesOnce'
  BY <1>3, <1>6, <1>11 DEF IInv, ReferencesOnce
<1> QED
  BY <1>8, <1>10, <1>12, <1>13, <1>16, <1>18, <1>19, <1>20 DEF IInv

\* A step that changes the batch, if at all, only when nobody has settled on
\* the file, and leaves the rows alone.
LEMMA QuietStep ==
  ASSUME IInv, NEW u \in Uploads, InFlight(u),
         NEW s \in AllStages \ {"new", "created"}, Goto(u, s),
         UNCHANGED <<import_batches, rows, referenced>>,
         accidents' \in 0..MaxAccidents,
         s \in Stages => \/ uploads[u].stage # "look_up"
                         \/ import_batches[uploads[u].file].status # "COMPLETED",
         s = "insert" => \A x \in rows : Duplicates(x, uploads[u].file) =>
                             x.upload \in uploads[u].alongside
  PROVE  IInv'
<1> DEFINE f == uploads[u].file
<1>1. TypeOK'
  BY GotoKeeps DEF IInv, TypeOK, AllStages
<1>2. f \in Files
  BY GotoKeeps
<1>3. \A w \in Uploads : Settled(w) /\ uploads[w].file = f =>
        import_batches[f].status = "COMPLETED" /\ uploads[u].stage = "look_up"
  BY NobodySettled DEF IInv, AcknowledgedStays, Settled
<1>4. \A g : BatchRows(g)' = BatchRows(g)
  BY DEF BatchRows
<1> QED
  BY <1>1, <1>2, <1>3, <1>4, StepKeeps

LEMMA FindBatchStep ==
  ASSUME IInv, NEW u \in Uploads, FindBatch(u)
  PROVE  IInv'
<1> DEFINE status == import_batches[uploads[u].file].status
           s == CASE status = "ABSENT" -> "register"
                  [] status = "FAILED" -> "take_over"
                  [] OTHER             -> "refused"
<1>1. /\ InFlight(u) /\ Goto(u, s)
      /\ UNCHANGED <<import_batches, rows, referenced, accidents>>
  BY DEF FindBatch, InFlight, Stages
<1>2. s \in AllStages \ {"new", "created", "insert"} /\ (s \in Stages => status # "COMPLETED")
  BY DEF AllStages, Stages
<1>3. accidents' \in 0..MaxAccidents
  BY <1>1 DEF IInv, TypeOK
<1> HIDE DEF s
<1> QED
  BY <1>1, <1>2, <1>3, QuietStep

\* The rows that the validation finds are none that the insert could double.
LEMMA ValidateStep ==
  ASSUME IInv, NEW u \in Uploads, Validate(u)
  PROVE  IInv'
<1> DEFINE f == uploads[u].file
           s == IF f \in Malformed \/ Contents[f] \cap TakenReferences(f) # {}
                THEN "fail" ELSE "insert"
<1>1. /\ InFlight(u) /\ uploads[u].stage = "validate" /\ Goto(u, s)
      /\ UNCHANGED <<import_batches, rows, referenced, accidents>>
  BY DEF Validate, InFlight, Stages
<1>2. s \in AllStages \ {"new", "created"}
  BY DEF AllStages, Stages
<1>3. s = "insert" => \A x \in rows : ~Duplicates(x, f)
  BY DEF Duplicates, TakenReferences
<1>4. accidents' \in 0..MaxAccidents
  BY <1>1 DEF IInv, TypeOK
<1> HIDE DEF s
<1> QED
  BY <1>1, <1>2, <1>3, <1>4, QuietStep

LEMMA FailsStep ==
  ASSUME IInv, NEW u \in Uploads, Fails(u)
  PROVE  IInv'
<1> DEFINE s == IF uploads[u].stage \in {"validate", "insert"} THEN "fail" ELSE "refused"
<1>1. /\ InFlight(u) /\ Goto(u, s)
      /\ UNCHANGED <<import_batches, rows, referenced>>
  BY DEF Fails
<1>2. s \in AllStages \ {"new", "created", "insert"}
      /\ (s \in Stages => uploads[u].stage # "look_up")
  BY DEF AllStages, Stages
<1>3. accidents' \in 0..MaxAccidents
  BY ImportBatchesAssumption DEF Fails, Accident, IInv, TypeOK
<1> HIDE DEF s
<1> QED
  BY <1>1, <1>2, <1>3, QuietStep

LEMMA CrashStep ==
  ASSUME IInv, NEW u \in Uploads, Crash(u)
  PROVE  IInv'
<1>1. /\ InFlight(u) /\ Goto(u, "lost")
      /\ UNCHANGED <<import_batches, rows, referenced>>
  BY DEF Crash
<1>2. "lost" \in AllStages \ {"new", "created"} /\ "lost" \notin Stages
  BY DEF AllStages, Stages
<1>3. accidents' \in 0..MaxAccidents
  BY ImportBatchesAssumption DEF Crash, Accident, IInv, TypeOK
<1> QED
  BY <1>1, <1>2, <1>3, QuietStep DEF Stages

\* What Proceed says, without the arithmetic of the accidents.
LEMMA Proceeding ==
  ASSUME IInv, NEW u, NEW stage, NEW onError, Proceed(u, stage, onError)
  PROVE  /\ \E s \in {stage, onError} : Goto(u, s)
         /\ accidents' \in 0..MaxAccidents
BY ImportBatchesAssumption DEF Proceed, Accident, IInv, TypeOK

\* The batch was ABSENT, or nothing happens to it.
LEMMA RegisterStep ==
  ASSUME IInv, NEW u \in Uploads, Register(u)
  PROVE  IInv'
<1> DEFINE f == uploads[u].file
<1>1. InFlight(u) /\ uploads[u].stage = "register" /\ UNCHANGED <<rows, referenced>>
  BY DEF Register, InFlight, Stages
<1>2. f \in Files
  BY <1>1 DEF IInv, Overlaps
<1>3. \A g : BatchRows(g)' = BatchRows(g)
  BY <1>1 DEF BatchRows
<1>4. \A w \in Uploads : Settled(w) => uploads[w].file # f
  BY <1>1, NobodySettled
<1>5. CASE /\ import_batches' = [import_batches EXCEPT ![f].status = "PROCESSING"]
           /\ Proceed(u, "validate", "refused")
  <2>1. PICK s \in {"validate", "refused"} : Goto(u, s)
    BY <1>5, Proceeding
  <2>2. s \in AllStages \ {"new", "created"} /\ s # "insert"
    BY DEF AllStages, Stages
  <2>3. /\ import_batches' \in
              [Files -> [ status : {"ABSENT", "PROCESSING", "COMPLETED", "FAILED"},
                          row_count : {Cardinality(Contents[g]) : g \in Files} \cup {0} ]]
        /\ import_batches'[f].status = "PROCESSING"
        /\ \A g \in Files : g # f => import_batches'[g] = import_batches[g]
    BY <1>2, <1>5 DEF IInv, TypeOK
  <2>4. TypeOK'
    BY <1>1, <1>5, <2>1, <2>2, <2>3, GotoKeeps, Proceeding DEF IInv, TypeOK, AllStages
  <2> QED
    BY <1>1, <1>2, <1>3, <1>4, <2>1, <2>2, <2>3, <2>4, StepKeeps
<1>6. CASE Goto(u, "refused") /\ UNCHANGED <<import_batches, accidents>>
  <2>1. "refused" \in AllStages \ {"new", "created"} /\ "refused" \notin Stages
    BY DEF AllStages, Stages
  <2>2. accidents' \in 0..MaxAccidents
    BY <1>6 DEF IInv, TypeOK
  <2> QED
    BY <1>1, <1>6, <2>1, <2>2, QuietStep DEF Stages
<1> QED
  BY <1>5, <1>6 DEF Register

\* Statement lines are deleted only if nothing refers to them, the rows of a
\* ledger stay; either way the batch is in progress again.
LEMMA TakeOverStep ==
  ASSUME IInv, NEW u \in Uploads, TakeOver(u)
  PROVE  IInv'
<1> DEFINE f == uploads[u].file
<1>1. InFlight(u) /\ uploads[u].stage = "take_over" /\ UNCHANGED referenced
  BY DEF TakeOver, InFlight, Stages
<1>2. f \in Files
  BY <1>1 DEF IInv, Overlaps
<1>3. \A w \in Uploads : Settled(w) => uploads[w].file # f
  BY <1>1, NobodySettled
<1>4. CASE /\ f \in Ledgers \/ BatchRows(f) \cap referenced = {}
           /\ import_batches' = [import_batches EXCEPT ![f] =
                 [status |-> "PROCESSING", row_count |-> 0]]
           /\ rows' = {x \in rows : x.batch_id = f => f \in Ledgers}
           /\ Proceed(u, "validate", "refused")
  <2>1. PICK s \in {"validate", "refused"} : Goto(u, s)
    BY <1>4, Proceeding
  <2>2. s \in AllStages \ {"new", "created"} /\ s # "insert"
    BY DEF AllStages, Stages
  <2>3. /\ import_batches' \in
              [Files -> [ status : {"ABSENT", "PROCESSING", "COMPLETED", "FAILED"},
                          row_count : {Cardinality(Contents[g]) : g \in Files} \cup {0} ]]
        /\ import_batches'[f].status = "PROCESSING"
        /\ \A g \in Files : g # f => import_batches'[g] = import_batches[g]
    BY <1>2, <1>4 DEF IInv, TypeOK
  <2>4. rows' \subseteq rows /\ \A g \in Files : g # f => BatchRows(g)' = BatchRows(g)
    BY <1>4 DEF BatchRows
  <2>5. referenced' \subseteq rows'
    BY <1>1, <1>4 DEF IInv, TypeOK, BatchRows
  <2>6. TypeOK'
    BY <1>1, <1>4, <2>1, <2>2, <2>3, <2>4, <2>5, GotoKeeps, Proceeding DEF IInv, TypeOK, AllStages
  <2> QED
    BY <1>1, <1>2, <1>3, <2>1, <2>2, <2>3, <2>4, <2>6, StepKeeps
<1>5. CASE Goto(u, "refused") /\ UNCHANGED <<import_batches, rows, accidents>>
  <2>1. "refused" \in AllStages \ {"new", "created"} /\ "refused" \notin Stages
    BY DEF AllStages, Stages
  <2>2. accidents' \in 0..MaxAccidents
    BY <1>5 DEF IInv, TypeOK
  <2> QED
    BY <1>1, <1>5, <2>1, <2>2, QuietStep DEF Stages
<1> QED
  BY <1>4, <1>5 DEF TakeOver

\* Nobody can rely on the batch yet, or it is not this upload's to fail.
LEMMA MarkFailedStep ==
  ASSUME IInv, NEW u \in Uploads, MarkFailed(u)
  PROVE  IInv'
<1> DEFINE f == uploads[u].file
<1>1. /\ InFlight(u) /\ uploads[u].stage = "fail" /\ Goto(u, "refused")
      /\ import_batches' = [import_batches EXCEPT ![f].status = "FAILED"]
      /\ UNCHANGED <<rows, referenced, accidents>>
  BY DEF MarkFailed, InFlight, Stages
<1>2. f \in Files
  BY <1>1 DEF IInv, Overlaps
<1>3. \A g : BatchRows(g)' = BatchRows(g)
  BY <1>1 DEF BatchRows
<1>4. \A w \in Uploads : Settled(w) => uploads[w].file # f
  BY <1>1, NobodySettled
<1>5. "refused" \in AllStages \ {"new", "created"}
  BY DEF AllStages, Stages
<1>6. /\ import_batches' \in
            [Files -> [ status : {"ABSENT", "PROCESSING", "COMPLETED", "FAILED"},
                        row_count : {Cardinality(Contents[g]) : g \in Files} \cup {0} ]]
      /\ import_batches'[f].status = "FAILED"
      /\ \A g \in Files : g # f => import_batches'[g] = import_batches[g]
  BY <1>1, <1>2 DEF IInv, TypeOK
<1>7. TypeOK'
  BY <1>1, <1>5, <1>6, GotoKeeps DEF IInv, TypeOK, AllStages
<1> QED
  BY <1>1, <1>2, <1>3, <1>4, <1>5, <1>6, <1>7, StepKeeps

\* What a run refers to stays in the table.
LEMMA ReconcileStep ==
  ASSUME IInv, NEW f \in Files, Reconcile(f)
  PROVE  IInv'
<1>1. /\ referenced' = referenced \cup BatchRows(f)
      /\ UNCHANGED <<import_batches, rows, uploads, accidents>>
  BY DEF Reconcile
<1>2. TypeOK'
  BY <1>1 DEF IInv, TypeOK, BatchRows
<1>3. Overlaps' /\ RowsAreOfFiles' /\ ValidatedApart'
  BY <1>1 DEF IInv, Overlaps, RowsAreOfFiles, ValidatedApart, InFlight, Duplicates
<1>4. LatecomersOnlyLook'
  BY <1>1 DEF IInv, LatecomersOnlyLook, Settled, InFlight, UploadsOf
<1>5. CompletedIsWhole' /\ AcknowledgedStays' /\ ReferencesOnce'
  BY <1>1 DEF IInv, CompletedIsWhole, AcknowledgedStays, ReferencesOnce,
              OneAtATime, UploadsOf, BatchRows, RowsOf
<1> QED
  BY <1>2, <1>3, <1>4, <1>5 DEF IInv

\* The insert doubles rows of overlapping uploads only; without any, the batch
\* was empty and is whole now.
LEMMA InsertStep ==
  ASSUME IInv, NEW u \in Uploads, Insert(u)
  PROVE  IInv'
<1>0. PICK f \in Files : f = uploads[u].file
  BY DEF Insert, IInv, Overlaps
<1>1. /\ InFlight(u) /\ uploads[u].stage = "insert" /\ UNCHANGED referenced
      /\ rows' = rows \cup RowsOf(f, u)
      /\ import_batches' = [import_batches EXCEPT ![f] =
            [status |-> "COMPLETED", row_count |-> Cardinality(Contents[f])]]
  BY <1>0 DEF Insert, InFlight, Stages
<1>2. PICK s \in {"created", "fail"} : Goto(u, s)
  BY Proceeding DEF Insert
<1>3. s \in AllStages \ {"new"} /\ s # "insert"
  BY DEF AllStages, Stages
<1>4. /\ uploads'[u].stage = s
      /\ \A v \in Uploads : v # u => uploads'[v].stage = uploads[v].stage
      /\ \A v \in Uploads : /\ uploads'[v].file = uploads[v].file
                            /\ uploads'[v].alongside = uploads[v].alongside
      /\ uploads'[u].file = f
      /\ Overlaps'
  BY <1>0, <1>1, <1>2, <1>3, GotoKeeps
<1>5. \A x \in RowsOf(f, u) :
        x.batch_id = f /\ x.upload = u /\ x.ref \in Contents[f] /\ x.ref \in References
  BY <1>4, ImportBatchesAssumption DEF RowsOf
<1>6. \A g \in Files : g # f => /\ import_batches'[g] = import_batches[g]
                                /\ BatchRows(g)' = BatchRows(g)
  BY <1>1, <1>5 DEF IInv, TypeOK, BatchRows
<1>7. TypeOK'
  <2>1. import_batches' \in
            [Files -> [ status : {"ABSENT", "PROCESSING", "COMPLETED", "FAILED"},
                        row_count : {Cardinality(Contents[g]) : g \in Files} \cup {0} ]]
    BY <1>1, <1>4 DEF IInv, TypeOK
  <2>2. RowsOf(f, u) \subseteq [batch_id : Files, ref : References, upload : Uploads]
    BY <1>4, ImportBatchesAssumption DEF RowsOf
  <2>3. accidents' \in 0..MaxAccidents
    BY Proceeding DEF Insert
  <2> QED
    BY <1>1, <1>2, <1>3, <2>1, <2>2, <2>3, GotoKeeps DEF IInv, TypeOK, AllStages
<1>8. RowsAreOfFiles'
  BY <1>1, <1>4, <1>5 DEF IInv, RowsAreOfFiles, TypeOK
<1>9. ValidatedApart'
  <2> SUFFICES ASSUME NEW v \in Uploads, uploads'[v].stage = "insert",
                      NEW x \in rows', Duplicates(x, uploads'[v].file)
               PROVE  x.upload \in uploads'[v].alongside
    BY DEF ValidatedApart, Duplicates
  <2>1. v # u /\ uploads[v].stage = "insert"
    BY <1>3, <1>4
  <2>2. CASE x \in rows
    BY <1>4, <2>1, <2>2 DEF IInv, ValidatedApart
  <2>3. CASE x \in RowsOf(f, u)
    <3>1. InFlight(v)
      BY <2>1 DEF InFlight, Stages
    <3> QED
      BY <1>1, <1>4, <1>5, <2>1, <2>3, <3>1 DEF IInv, Overlaps
  <2> QED
    BY <1>1, <2>2, <2>3
<1>10. \A g \in Files : UploadsOf(g)' = UploadsOf(g)
  BY <1>4 DEF UploadsOf
<1>11. uploads[u].alongside \cap UploadsOf(f) = {} => BatchRows(f)' = RowsOf(f, u)
  <2> SUFFICES ASSUME uploads[u].alongside \cap UploadsOf(f) = {}
               PROVE  BatchRows(f)' = RowsOf(f, u)
    OBVIOUS
  <2>1. BatchRows(f) = {}
    <3> SUFFICES ASSUME NEW x \in rows, x.batch_id = f
                 PROVE  FALSE
      BY DEF BatchRows
    <3>1. Duplicates(x, f) /\ x.upload \in Uploads /\ uploads[x.upload].file = f
      BY DEF IInv, TypeOK, RowsAreOfFiles, Duplicates
    <3> QED
      BY <1>0, <1>1, <3>1 DEF IInv, ValidatedApart, UploadsOf
  <2> QED
    BY <1>1, <1>5, <2>1 DEF BatchRows
<1>12. \A w \in Uploads : Settled(w) => uploads[w].file # f
  BY <1>0, <1>1, NobodySettled
<1>13. \A w \in Uploads : w # u /\ Settled(w)' =>
         Settled(w) /\ uploads[w].file \in Files \ {f}
  <2> SUFFICES ASSUME NEW w \in Uploads, w # u, Settled(w)'
               PROVE  Settled(w) /\ uploads[w].file \in Files
    BY <1>12
  <2>1. uploads[w].stage = "created"
    BY <1>4 DEF Settled
  <2>2. uploads[w].file \in Files
    BY <2>1 DEF IInv, Overlaps
  <2> QED
    BY <1>4, <1>10, <2>1, <2>2 DEF Settled
<1>14. LatecomersOnlyLook'
  <2> SUFFICES ASSUME NEW w \in Uploads, NEW v \in Uploads,
                      Settled(w)', InFlight(v)', uploads'[v].file = uploads'[w].file
               PROVE  uploads'[v].stage = "look_up"
    BY DEF LatecomersOnlyLook
  <2>1. InFlight(v)
    BY <1>1, <1>4 DEF InFlight
  <2>2. CASE w = u
    <3>1. v # u
      BY <2>2 DEF Settled, InFlight, Stages
    <3>2. v \in uploads[u].alongside
      BY <1>1, <2>1, <3>1 DEF IInv, Overlaps
    <3>3. v \in UploadsOf(f)
      BY <1>4, <2>2 DEF UploadsOf
    <3>4. uploads[u].alongside \cap UploadsOf(f) = {}
      BY <1>4, <1>10, <2>2 DEF Settled
    <3> QED
      BY <3>2, <3>3, <3>4
  <2>3. CASE w # u
    <3>1. Settled(w) /\ uploads[w].file # f
      BY <1>13, <2>3
    <3>2. v # u
      BY <1>4, <3>1
    <3> QED
      BY <1>4, <2>1, <3>1, <3>2 DEF IInv, LatecomersOnlyLook
  <2> QED
    BY <2>2, <2>3
<1>15. \A g \in Files : OneAtATime(g)' => OneAtATime(g)
  BY <1>4, <1>10 DEF OneAtATime, UploadsOf
<1>16. CompletedIsWhole'
  <2> SUFFICES ASSUME NEW g \in Files, import_batches'[g].status = "COMPLETED", OneAtATime(g)'
               PROVE  /\ \E v \in UploadsOf(g)' : BatchRows(g)' = RowsOf(g, v)
                      /\ import_batches'[g].row_count = Cardinality(Contents[g])
    BY DEF CompletedIsWhole, RowsOf
  <2>1. OneAtATime(g)
    BY <1>15
  <2>2. CASE g = f
    <3>1. u \in UploadsOf(g)
      BY <1>0, <2>2 DEF UploadsOf
    <3>2. BatchRows(g)' = RowsOf(g, u)
      BY <1>11, <2>1, <2>2, <3>1 DEF OneAtATime
    <3>3. import_batches'[g].row_count = Cardinality(Contents[g])
      BY <1>1, <2>2 DEF IInv, TypeOK
    <3> QED
      BY <1>10, <3>1, <3>2, <3>3
  <2>3. CASE g # f
    <3>1. import_batches[g].status = "COMPLETED"
      BY <1>6, <2>3
    <3>2. PICK v \in UploadsOf(g) : BatchRows(g) = RowsOf(g, v)
      BY <2>1, <3>1 DEF IInv, CompletedIsWhole
    <3>3. import_batches[g].row_count = Cardinality(Contents[g])
      BY <2>1, <3>1 DEF IInv, CompletedIsWhole
    <3>4. v \in UploadsOf(g)' /\ BatchRows(g)' = RowsOf(g, v)
      BY <1>6, <1>10, <2>3, <3>2
    <3> QED
      BY <1>6, <2>3, <3>3, <3>4
  <2> QED
    BY <2>2, <2>3
<1>17. AcknowledgedStays'
  <2>1. ASSUME NEW w \in Uploads, Settled(w)'
        PROVE  (import_batches[uploads[w].file].status = "COMPLETED" /\
                BatchRows(uploads[w].file) = RowsOf(uploads[w].file, w))'
    <3>0. PICK g \in Files : g = uploads[w].file
      BY <1>4, <2>1 DEF Settled, IInv, Overlaps
    <3>1. /\ uploads'[w].file = g
          /\ RowsOf(uploads[w].file, w)' = RowsOf(g, w)
          /\ BatchRows(uploads[w].file)' = BatchRows(g)'
      BY <1>4, <3>0 DEF RowsOf, BatchRows
    <3>2. CASE w = u
      <4>1. uploads[u].alongside \cap UploadsOf(f) = {} /\ g = f
        BY <1>0, <1>4, <1>10, <2>1, <3>0, <3>2 DEF Settled
      <4>2. import_batches'[f].status = "COMPLETED"
        BY <1>1, <1>4 DEF IInv, TypeOK
      <4> QED
        BY <1>11, <3>1, <3>2, <4>1, <4>2
    <3>3. CASE w # u
      <4>1. Settled(w) /\ g \in Files \ {f}
        BY <1>13, <2>1, <3>0, <3>3
      <4>2. import_batches[g].status = "COMPLETED" /\ BatchRows(g) = RowsOf(g, w)
        BY <3>0, <4>1 DEF IInv, AcknowledgedStays, Settled
      <4> QED
        BY <1>6, <3>1, <4>1, <4>2
    <3> QED
      BY <3>2, <3>3
  <2> QED
    BY <2>1 DEF AcknowledgedStays, Settled
<1>18. ReferencesOnce'
  <2> SUFFICES ASSUME NEW x \in rows', NEW y \in rows', x # y, x.ref = y.ref,
                      x.batch_id \in Ledgers <=> y.batch_id \in Ledgers
               PROVE  x.upload \in uploads'[y.upload].alongside
    BY DEF ReferencesOnce
  <2>1. \A z \in rows : /\ z.upload \in Uploads
                        /\ Duplicates(z, f) => z.upload \in uploads[u].alongside
    BY <1>0, <1>1 DEF IInv, TypeOK, ValidatedApart
  <2>2. CASE x \in rows /\ y \in rows
    BY <1>4, <2>1, <2>2 DEF IInv, ReferencesOnce
  <2>3. CASE x \in rows /\ y \in RowsOf(f, u)
    BY <1>4, <1>5, <2>1, <2>3 DEF Duplicates
  <2>4. CASE x \in RowsOf(f, u) /\ y \in rows
    BY <1>4, <1>5, <2>1, <2>4 DEF Duplicates, IInv, Overlaps
  <2>5. CASE x \in RowsOf(f, u) /\ y \in RowsOf(f, u)
    BY <2>5 DEF RowsOf
  <2> QED
    BY <1>1, <2>2, <2>3, <2>4, <2>5
<1> QED
  BY <1>4, <1>7, <1>8, <1>9, <1>14, <1>16, <1>17, <1>18 DEF IInv

-----------------------------------------------------------------------------

LEMMA NextIInv ==
  ASSUME IInv, [Next]_vars
  PROVE  IInv'
<1>1. CASE UNCHANGED vars
  BY <1>1 DEF vars, IInv, TypeOK, Overlaps, RowsAreOfFiles, ValidatedApart, LatecomersOnlyLook,
              CompletedIsWhole, AcknowledgedStays, ReferencesOnce, Settled, OneAtATime,
              InFlight, Duplicates, UploadsOf, BatchRows, RowsOf
<1>2. ASSUME NEW u \in Uploads, NEW f \in Files, Upload(u, f)
      PROVE  IInv'
  BY <1>2, UploadStep
<1>3. ASSUME NEW u \in Uploads, Handle(u) \/ Fails(u) \/ Crash(u)
      PROVE  IInv'
  BY <1>3, FindBatchStep, RegisterStep, TakeOverStep, ValidateStep, InsertStep, MarkFailedStep,
     FailsStep, CrashStep DEF Handle
<1>4. ASSUME NEW f \in Files, Reconcile(f)
      PROVE  IInv'
  BY <1>4, ReconcileStep
<1> QED
  BY <1>1, <1>2, <1>3, <1>4 DEF Next

\* The inductive invariant holds in every reachable state.
THEOREM Invariance == Spec => []IInv
<1>1. IInv /\ [Next]_vars => IInv'
  BY NextIInv
<1> QED
  BY <1>1, InitIInv, PTL DEF Spec

\* The tables and the requests keep their types, and what a run refers to
\* stays in the tables.
THEOREM TypeCorrect == Spec => []TypeOK
<1>1. IInv => TypeOK
  BY DEF IInv
<1> QED
  BY <1>1, Invariance, PTL

\* A COMPLETED batch whose uploads came one after the other holds its file,
\* each row once, whatever went wrong in how many of them.
THEOREM BatchesAreWhole == Spec => []CompletedIsWhole
<1>1. IInv => CompletedIsWhole
  BY DEF IInv
<1> QED
  BY <1>1, Invariance, PTL

\* An import that was answered "created" stays as it is, if no other upload of
\* the file was in flight by then.
THEOREM AcknowledgedImportsStay == Spec => []AcknowledgedStays
<1>1. IInv => AcknowledgedStays
  BY DEF IInv
<1> QED
  BY <1>1, Invariance, PTL

\* Duplicates in a table come from uploads that overlapped, and from no others.
THEOREM DuplicatesOverlapped == Spec => []ReferencesOnce
<1>1. IInv => ReferencesOnce
  BY DEF IInv
<1> QED
  BY <1>1, Invariance, PTL

=============================================================================
