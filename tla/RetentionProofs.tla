--------------------------- MODULE RetentionProofs ---------------------------
(***************************************************************************)
(* Proofs about Retention, for any rows, any number of archive jobs that   *)
(* overlap, and any number of months and accidents.                        *)
(***************************************************************************)
EXTENDS Retention, TLAPS

-----------------------------------------------------------------------------
(* The parts of the inductive invariant. *)

\* What a transaction has copied is old, and still in its table; and it deletes
\* what it has copied.
CopiesAreLive ==
    \A a \in Archivers : /\ archive[a].due \subseteq old
                         /\ archive[a].copied \subseteq archive[a].due \cap live
                         /\ archive[a].deleted \subseteq archive[a].copied

\* No row is copied by two transactions: the second INSERT waits for the first.
CopiesAreDisjoint ==
    \A a, b \in Archivers : a # b => archive[a].copied \cap archive[b].copied = {}

\* How far copies and deletions have got at each stage.  Between the two
\* statements for a kind of rows nothing else can take a copied row away, so
\* that the second one finds just what the first one did.
Progress(a) ==
    LET t == archive[a]
    IN  /\ t.stage \in {"none", "copy_exceptions"} => t.copied = {}
        /\ t.stage = "delete_exceptions" => t.copied = Ended(a, Exceptions) /\ t.deleted = {}
        /\ t.stage = "copy_jobs" => t.copied \subseteq Exceptions /\ t.deleted = t.copied
        /\ t.stage = "delete_jobs" => t.copied = t.deleted \cup Ended(a, Jobs)
        /\ t.stage \in {"look", "create"} => t.deleted = t.copied

IInv ==
    /\ TypeOK
    /\ OneTable
    /\ CopiesAreLive
    /\ CopiesAreDisjoint
    /\ \A a \in Archivers : Progress(a)

-----------------------------------------------------------------------------

LEMMA InitIInv == Init => IInv
BY RetentionAssumption
   DEF Init, IInv, TypeOK, OneTable, CopiesAreLive, CopiesAreDisjoint, Progress,
       NoTransaction, Transaction, Stages, Months

\* A transaction moves on, or ends, and the tables stay.  What it holds must fit
\* its new stage, and what it has copied must belong to nobody else.
LEMMA Advance ==
  ASSUME IInv, TypeOK', NEW a \in Archivers,
         UNCHANGED <<owner, old, live, archived>>,
         \A b \in Archivers \ {a} : archive'[b] = archive[b],
         archive'[a].due \subseteq old,
         archive'[a].copied \subseteq archive'[a].due \cap live,
         archive'[a].deleted \subseteq archive'[a].copied,
         \A b \in Archivers \ {a} : archive'[a].copied \cap archive[b].copied = {},
         Progress(a)'
  PROVE  IInv'
<1>1. OneTable'
  BY DEF IInv, OneTable
<1>2. CopiesAreLive'
  BY DEF IInv, CopiesAreLive
<1>3. CopiesAreDisjoint'
  BY DEF IInv, CopiesAreDisjoint
<1>4. ASSUME NEW b \in Archivers PROVE Progress(b)'
  <2>1. CASE b = a
    BY <2>1
  <2>2. CASE b # a
    BY <2>2 DEF IInv, Progress, Ended, Accessible
  <2> QED
    BY <2>1, <2>2
<1> QED
  BY <1>1, <1>2, <1>3, <1>4 DEF IInv

\* A transaction that ends without a commit leaves no trace.
LEMMA EndStep ==
  ASSUME IInv, NEW a \in Archivers, CreateFails(a) \/ RollBack(a)
  PROVE  IInv'
<1>1. /\ archive' = [archive EXCEPT ![a] = NoTransaction]
      /\ UNCHANGED <<owner, month, old, live, archived, partitions>>
      /\ accidents' \in 0..MaxAccidents
  BY RetentionAssumption DEF CreateFails, RollBack, IInv, TypeOK
<1>2. NoTransaction \in Transaction
  BY RetentionAssumption DEF NoTransaction, Transaction
<1>3. TypeOK'
  BY <1>1, <1>2 DEF IInv, TypeOK
<1>4. archive'[a] = NoTransaction
  BY <1>1 DEF IInv, TypeOK
<1>5. Progress(a)'
  BY <1>4 DEF Progress, NoTransaction
<1> QED
  BY <1>1, <1>3, <1>4, <1>5, Advance DEF IInv, TypeOK, NoTransaction

LEMMA BeginStep ==
  ASSUME IInv, NEW a \in Archivers, Begin(a)
  PROVE  IInv'
<1> DEFINE begun == [NoTransaction EXCEPT !.stage = "copy_exceptions", !.due = old, !.month = month]
<1>1. /\ archive' = [archive EXCEPT ![a] = begun]
      /\ UNCHANGED <<owner, month, old, live, archived, partitions, accidents>>
  BY DEF Begin
<1>2. begun \in Transaction
  BY RetentionAssumption DEF NoTransaction, Transaction, Stages, IInv, TypeOK
<1>3. /\ begun.stage = "copy_exceptions" /\ begun.due = old
      /\ begun.copied = {} /\ begun.deleted = {}
  BY DEF NoTransaction
<1> HIDE DEF begun
<1>4. TypeOK'
  BY <1>1, <1>2 DEF IInv, TypeOK
<1>5. archive'[a] = begun
  BY <1>1 DEF IInv, TypeOK
<1>6. Progress(a)'
  BY <1>3, <1>5 DEF Progress
<1> QED
  BY <1>1, <1>3, <1>4, <1>5, <1>6, Advance DEF IInv, TypeOK

\* The INSERT takes what nobody else has taken.
LEMMA CopyStep ==
  ASSUME IInv, NEW a \in Archivers,
         \/ Copy(a, Exceptions, "copy_exceptions", "delete_exceptions")
         \/ Copy(a, Jobs, "copy_jobs", "delete_jobs")
  PROVE  IInv'
<1>1. PICK kind \in SUBSET Rows, from \in Stages, to \in Stages :
        /\ Copy(a, kind, from, to)
        /\ \/ kind = Exceptions /\ from = "copy_exceptions" /\ to = "delete_exceptions"
           \/ kind = Jobs /\ from = "copy_jobs" /\ to = "delete_jobs"
  BY RetentionAssumption DEF Jobs, Stages
<1> DEFINE new == Ended(a, kind)
           next == [archive[a] EXCEPT !.stage = to, !.copied = @ \cup new]
<1>2. /\ archive[a] \in Transaction /\ archive[a].stage = from
      /\ \A b \in Archivers \ {a} : archive[b].copied \cap new = {}
      /\ UNCHANGED <<owner, month, old, live, archived, partitions, accidents>>
  BY <1>1 DEF Copy, IInv, TypeOK
<1>3. archive' = [archive EXCEPT ![a] = next]
  BY <1>1 DEF Copy
<1>4. new \subseteq Rows /\ new \subseteq archive[a].due \cap live
  BY <1>1 DEF Ended, Accessible, IInv, TypeOK
<1>5. /\ next \in Transaction
      /\ next.stage = to /\ next.due = archive[a].due
      /\ next.copied = archive[a].copied \cup new
      /\ next.deleted = archive[a].deleted
  BY <1>2, <1>4 DEF Transaction
<1>6. archive'[a] = next /\ \A b \in Archivers \ {a} : archive'[b] = archive[b]
  BY <1>3 DEF IInv, TypeOK
<1>7. TypeOK'
  BY <1>2, <1>3, <1>5 DEF IInv, TypeOK
<1>8. Ended(a, kind)' = new
  BY <1>2, <1>5, <1>6 DEF Ended, Accessible
<1> HIDE DEF new, next
<1>9. Progress(a)'
  <2>1. CASE from = "copy_exceptions" /\ kind = Exceptions /\ to = "delete_exceptions"
    <3>1. archive[a].copied = {} /\ archive[a].deleted = {}
      BY <1>2, <2>1 DEF IInv, Progress, CopiesAreLive
    <3> QED
      BY <1>5, <1>6, <1>8, <2>1, <3>1 DEF Progress
  <2>2. CASE from = "copy_jobs" /\ kind = Jobs /\ to = "delete_jobs"
    <3>1. archive[a].deleted = archive[a].copied
      BY <1>2, <2>2 DEF IInv, Progress
    <3> QED
      BY <1>5, <1>6, <1>8, <2>2, <3>1 DEF Progress
  <2> QED
    BY <1>1, <2>1, <2>2
<1>10. /\ archive[a].copied \subseteq archive[a].due \cap live
       /\ archive[a].deleted \subseteq archive[a].copied
       /\ archive[a].due \subseteq old
       /\ \A b \in Archivers \ {a} : archive[a].copied \cap archive[b].copied = {}
  BY DEF IInv, CopiesAreLive, CopiesAreDisjoint
<1> QED
  BY <1>2, <1>4, <1>5, <1>6, <1>7, <1>9, <1>10, Advance

\* The DELETE finds what the INSERT before it has copied.
LEMMA DeleteStep ==
  ASSUME IInv, NEW a \in Archivers,
         \/ Delete(a, Exceptions, "delete_exceptions", "copy_jobs")
         \/ Delete(a, Jobs, "delete_jobs", "look")
  PROVE  IInv'
<1>1. PICK kind \in SUBSET Rows, from \in Stages, to \in Stages :
        /\ Delete(a, kind, from, to)
        /\ \/ kind = Exceptions /\ from = "delete_exceptions" /\ to = "copy_jobs"
           \/ kind = Jobs /\ from = "delete_jobs" /\ to = "look"
  BY RetentionAssumption DEF Jobs, Stages
<1> DEFINE gone == Ended(a, kind)
           next == [archive[a] EXCEPT !.stage = to, !.deleted = @ \cup gone]
<1>2. /\ archive[a] \in Transaction /\ archive[a].stage = from
      /\ UNCHANGED <<owner, month, old, live, archived, partitions, accidents>>
  BY <1>1 DEF Delete, IInv, TypeOK
<1>3. archive' = [archive EXCEPT ![a] = next]
  BY <1>1 DEF Delete
<1>4. gone \subseteq Rows
  BY <1>1 DEF Ended, Accessible, IInv, TypeOK
<1>5. /\ next \in Transaction
      /\ next.stage = to /\ next.due = archive[a].due
      /\ next.copied = archive[a].copied
      /\ next.deleted = archive[a].deleted \cup gone
  BY <1>2, <1>4 DEF Transaction
<1>6. archive'[a] = next /\ \A b \in Archivers \ {a} : archive'[b] = archive[b]
  BY <1>3 DEF IInv, TypeOK
<1>7. TypeOK'
  BY <1>2, <1>3, <1>5 DEF IInv, TypeOK
<1> HIDE DEF next
<1>8. /\ next.deleted = next.copied
      /\ to = "copy_jobs" => next.copied \subseteq Exceptions
  <2>1. CASE from = "delete_exceptions" /\ kind = Exceptions
    <3>1. archive[a].copied = gone /\ archive[a].deleted = {}
      BY <1>2, <2>1 DEF IInv, Progress
    <3>2. gone \subseteq Exceptions
      BY <2>1 DEF Ended, Accessible
    <3> QED
      BY <1>5, <3>1, <3>2
  <2>2. CASE from = "delete_jobs" /\ kind = Jobs /\ to = "look"
    <3>1. archive[a].copied = archive[a].deleted \cup gone
      BY <1>2, <2>2 DEF IInv, Progress
    <3> QED
      BY <1>5, <2>2, <3>1
  <2> QED
    BY <1>1, <2>1, <2>2
<1>9. Progress(a)'
  BY <1>1, <1>5, <1>6, <1>8 DEF Progress
<1>10. /\ archive[a].copied \subseteq archive[a].due \cap live
       /\ archive[a].due \subseteq old
       /\ \A b \in Archivers \ {a} : archive[a].copied \cap archive[b].copied = {}
  BY DEF IInv, CopiesAreLive, CopiesAreDisjoint
<1> QED
  BY <1>2, <1>5, <1>6, <1>7, <1>8, <1>9, <1>10, Advance

\* The look into pg_class concerns the partitions only.
LEMMA LookStep ==
  ASSUME IInv, NEW a \in Archivers, Look(a)
  PROVE  IInv'
<1> DEFINE missing == Needed(archive[a].month) \ partitions
           next == [archive[a] EXCEPT !.stage = "create", !.missing = missing]
<1>1. /\ archive[a] \in Transaction /\ archive[a].stage = "look"
      /\ UNCHANGED <<owner, month, old, live, archived, partitions, accidents>>
      /\ archive' = [archive EXCEPT ![a] = next]
  BY DEF Look, IInv, TypeOK
<1>2. missing \subseteq Months
  BY <1>1, RetentionAssumption DEF Needed, Months, Transaction
<1>3. /\ next \in Transaction
      /\ next.stage = "create" /\ next.due = archive[a].due
      /\ next.copied = archive[a].copied /\ next.deleted = archive[a].deleted
  BY <1>1, <1>2 DEF Transaction, Stages
<1> HIDE DEF next
<1>4. archive'[a] = next /\ \A b \in Archivers \ {a} : archive'[b] = archive[b]
  BY <1>1 DEF IInv, TypeOK
<1>5. TypeOK'
  BY <1>1, <1>3 DEF IInv, TypeOK
<1>6. Progress(a)'
  BY <1>1, <1>3, <1>4 DEF Progress, IInv
<1>7. /\ archive[a].copied \subseteq archive[a].due \cap live
      /\ archive[a].deleted \subseteq archive[a].copied
      /\ archive[a].due \subseteq old
      /\ \A b \in Archivers \ {a} : archive[a].copied \cap archive[b].copied = {}
  BY DEF IInv, CopiesAreLive, CopiesAreDisjoint
<1> QED
  BY <1>1, <1>3, <1>4, <1>5, <1>6, <1>7, Advance

\* A commit moves the rows it has copied, and takes none that another
\* transaction holds.
LEMMA CommitStep ==
  ASSUME IInv, NEW a \in Archivers, CreateAndCommit(a)
  PROVE  IInv'
<1> DEFINE moved == archive[a].copied
<1>1. /\ archive[a] \in Transaction
      /\ UNCHANGED <<owner, month, old, accidents>>
      /\ partitions' = partitions \cup archive[a].missing
      /\ archive' = [archive EXCEPT ![a] = NoTransaction]
  BY DEF CreateAndCommit, IInv, TypeOK
<1>2. /\ live' = live \ moved
      /\ archived' = archived \cup moved
      /\ moved \subseteq old \cap live
  BY DEF CreateAndCommit, IInv, Progress, CopiesAreLive
<1>3. archive'[a] = NoTransaction /\ \A b \in Archivers \ {a} : archive'[b] = archive[b]
  BY <1>1 DEF IInv, TypeOK
<1>4. TypeOK'
  <2>1. NoTransaction \in Transaction
    BY RetentionAssumption DEF NoTransaction, Transaction
  <2> QED
    BY <1>1, <1>2, <2>1 DEF IInv, TypeOK, Transaction
<1>5. OneTable'
  BY <1>1, <1>2 DEF IInv, TypeOK, OneTable
<1>6. ASSUME NEW b \in Archivers, b # a
      PROVE  moved \cap archive[b].copied = {}
  BY <1>6 DEF IInv, CopiesAreDisjoint
<1>7. CopiesAreLive'
  <2> SUFFICES ASSUME NEW b \in Archivers
               PROVE  /\ archive'[b].due \subseteq old'
                      /\ archive'[b].copied \subseteq archive'[b].due \cap live'
                      /\ archive'[b].deleted \subseteq archive'[b].copied
    BY DEF CopiesAreLive
  <2>1. CASE b = a
    BY <1>3, <2>1 DEF NoTransaction
  <2>2. CASE b # a
    BY <1>1, <1>2, <1>3, <1>6, <2>2 DEF IInv, CopiesAreLive
  <2> QED
    BY <2>1, <2>2
<1>8. CopiesAreDisjoint'
  BY <1>3 DEF CopiesAreDisjoint, IInv, NoTransaction
<1>9. ASSUME NEW b \in Archivers PROVE Progress(b)'
  <2>1. CASE b = a
    BY <1>3, <2>1 DEF Progress, NoTransaction
  <2>2. CASE b # a
    <3>1. archive'[b] = archive[b] /\ moved \cap archive[b].copied = {}
      BY <1>3, <1>6, <2>2
    <3>2. archive[b].copied \cap live' = archive[b].copied
      BY <1>2, <3>1 DEF IInv, CopiesAreLive
    <3>3. \A kind : Ended(b, kind)' = Ended(b, kind) \ moved
      BY <1>1, <1>2, <3>1 DEF Ended, Accessible
    <3>4. \A kind : archive[b].copied = Ended(b, kind) => Ended(b, kind)' = Ended(b, kind)
      BY <3>1, <3>3
    <3>5. archive[b].copied = archive[b].deleted \cup Ended(b, Jobs) =>
             Ended(b, Jobs)' = Ended(b, Jobs)
      BY <3>1, <3>3
    <3> QED
      BY <3>1, <3>4, <3>5 DEF IInv, Progress
  <2> QED
    BY <2>1, <2>2
<1> QED
  BY <1>4, <1>5, <1>7, <1>8, <1>9 DEF IInv

\* Rows turn old and months pass whatever transactions are under way.
LEMMA TimeStep ==
  ASSUME IInv, (\E r \in Rows : Age(r)) \/ NextMonth
  PROVE  IInv'
<1>1. /\ UNCHANGED <<owner, live, archived, partitions, archive, accidents>>
      /\ old \subseteq old' /\ old' \subseteq Rows
      /\ month' \in 0..MaxMonth
  BY RetentionAssumption DEF Age, NextMonth, IInv, TypeOK
<1>2. TypeOK'
  BY <1>1 DEF IInv, TypeOK
<1>3. OneTable'
  BY <1>1 DEF IInv, OneTable
<1>4. CopiesAreLive' /\ CopiesAreDisjoint'
  BY <1>1 DEF IInv, CopiesAreLive, CopiesAreDisjoint
<1>5. \A a \in Archivers : Progress(a)'
  BY <1>1 DEF IInv, Progress, Ended, Accessible
<1> QED
  BY <1>2, <1>3, <1>4, <1>5 DEF IInv

LEMMA NextIInv == IInv /\ [Next]_vars => IInv'
<1> SUFFICES ASSUME IInv, [Next]_vars PROVE IInv'
  OBVIOUS
<1>1. CASE (\E r \in Rows : Age(r)) \/ NextMonth
  BY <1>1, TimeStep
<1>2. ASSUME NEW a \in Archivers, Begin(a) \/ Statement(a) \/ RollBack(a)
      PROVE  IInv'
  BY <1>2, BeginStep, CopyStep, DeleteStep, LookStep, CommitStep, EndStep DEF Statement
<1>3. CASE UNCHANGED vars
  BY <1>3 DEF vars, IInv, TypeOK, OneTable, CopiesAreLive, CopiesAreDisjoint, Progress, Ended,
              Accessible
<1> QED
  BY <1>1, <1>2, <1>3 DEF Next

-----------------------------------------------------------------------------
(* Theorems. *)

\* The inductive invariant holds in every reachable state.
THEOREM Invariance == Spec => []IInv
BY InitIInv, NextIInv, PTL DEF Spec

\* The tables, the partitions and the transactions keep their types.
THEOREM TypeCorrect == Spec => []TypeOK
BY Invariance, PTL DEF IInv

\* However many archive jobs overlap, fail and are repeated, no row is lost
\* between its table and the archive and none is in both, and none is archived
\* before its time.
THEOREM RowsHaveOneTable == Spec => []OneTable
BY Invariance, PTL DEF IInv

\* Rows move in one direction, each of them at the commit that archives it.
RowsMove ==
    /\ archived \subseteq archived'
    /\ live \ live' = archived' \ archived
    /\ live' \subseteq live

\* No step of an archive job, nor of the clock, brings a row back, drops one or
\* doubles one.
THEOREM RowsMoveForGood == Spec => [][RowsMove]_vars
<1>1. IInv /\ [Next]_vars => [RowsMove]_vars
  <2> SUFFICES ASSUME IInv, Next PROVE RowsMove
    OBVIOUS
  <2>1. CASE \E a \in Archivers : CreateAndCommit(a)
    <3>1. PICK a \in Archivers : CreateAndCommit(a)
      BY <2>1
    <3>2. /\ live' = live \ archive[a].copied
          /\ archived' = archived \cup archive[a].copied
          /\ archive[a].copied \subseteq live
      BY <3>1 DEF CreateAndCommit, IInv, Progress, CopiesAreLive
    <3>3. archive[a].copied \cap archived = {}
      BY <3>2 DEF IInv, TypeOK, OneTable
    <3> QED
      BY <3>2, <3>3 DEF RowsMove
  <2>2. CASE UNCHANGED <<live, archived>>
    BY <2>2 DEF RowsMove
  <2> QED
    BY <2>1, <2>2 DEF Next, Age, NextMonth, Begin, Statement, Copy, Delete, Look, CreateFails,
                      RollBack
<1> QED
  BY <1>1, Invariance, PTL DEF Spec

\* The INSERT of a, its next statement, waits for the transaction of b.
Waits(a, b, kind) ==
    /\ a # b
    /\ \/ archive[a].stage = "copy_exceptions" /\ kind = Exceptions
       \/ archive[a].stage = "copy_jobs" /\ kind = Jobs
    /\ archive[b].copied \cap Ended(a, kind) # {}

\* Nobody waits in a circle: whoever is waited for has got further, so that a
\* chain of waits has two links at most and whoever is at its end can go on.
NoDeadlock ==
    \A a, b, c \in Archivers, i, k \in {Exceptions, Jobs} :
        Waits(a, b, i) /\ Waits(b, c, k) =>
            \A d \in Archivers, l \in {Exceptions, Jobs} : ~Waits(c, d, l)

\* Overlapping archive jobs never wait for each other for ever, since all of
\* them copy exceptions first and jobs later.
THEOREM ArchivesDoNotDeadlock == Spec => []NoDeadlock
<1>1. IInv => NoDeadlock
  <2> SUFFICES ASSUME IInv, NEW a \in Archivers, NEW b \in Archivers, NEW c \in Archivers,
                      NEW d \in Archivers, NEW i \in {Exceptions, Jobs},
                      NEW k \in {Exceptions, Jobs}, NEW l \in {Exceptions, Jobs},
                      Waits(a, b, i), Waits(b, c, k), Waits(c, d, l)
               PROVE  FALSE
    BY DEF NoDeadlock
  <2>1. archive[b].copied # {} /\ archive[c].copied # {}
    BY DEF Waits
  <2>2. archive[b].stage = "copy_jobs" /\ archive[c].stage = "copy_jobs" /\ k = Jobs
    BY <2>1 DEF Waits, IInv, Progress
  <2>3. archive[c].copied \subseteq Exceptions
    BY <2>2 DEF IInv, Progress
  <2>4. Ended(b, k) \cap Exceptions = {}
    BY <2>2 DEF Ended, Accessible, Jobs
  <2> QED
    BY <2>3, <2>4 DEF Waits
<1> QED
  BY <1>1, Invariance, PTL
=============================================================================
