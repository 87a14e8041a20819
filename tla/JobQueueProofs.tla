--------------------------- MODULE JobQueueProofs ---------------------------
(***************************************************************************)
(* Proofs about JobQueue, and about RunRequests on top of it, for any      *)
(* number of workers, jobs, attempts, faults, days and batches: first what *)
(* holds of the queue whatever goes wrong, and what it costs; then what    *)
(* holds while heartbeats and transactions are timely; then that the queue *)
(* implements JobLifecycle while nothing goes wrong but crashes and        *)
(* database errors; and last what the scheduler and the Run History page   *)
(* may rely on.                                                            *)
(***************************************************************************)
EXTENDS RunRequests, FiniteSetTheorems, TLAPS

\* The inductive invariant: no property is inductive without the others.  A
\* fresh claim takes an attempt nobody holds because every attempt held or
\* committed is Counted; counting survives a burial because of OneHome; and a
\* COMPLETED job has its work because a call in phase "done" has committed.
IInv ==
    /\ TypeOK
    /\ OneHome
    /\ AttemptsAreFenced
    /\ WorkOncePerAttempt
    /\ CompletedMeansDone

\* What every step keeps about the two tables: rows keep their types and their
\* single home, and no attempt is ever uncounted.
TablesKept ==
    /\ nextJob' \in 1..(MaxJobs + 1)
    /\ background_jobs' \in [Jobs -> Row]
    /\ dead_letter_jobs' \subseteq [job_id : Jobs, attempts : Nat]
    /\ OneHome'
    /\ \A j \in Jobs, a \in Nat : Counted(j, a) => Counted(j, a)'

\* The initial state satisfies the inductive invariant.
LEMMA InitIInv == Init => IInv
<1> SUFFICES ASSUME Init PROVE IInv
  OBVIOUS
<1> USE JobQueueAssumption DEF Init
<1>1. TypeOK
  BY DEF TypeOK, Jobs, Row, AbsentRow, Faults
<1>2. OneHome
  BY DEF OneHome, Queued, Buried, AbsentRow, Jobs
<1>3. AttemptsAreFenced /\ WorkOncePerAttempt /\ CompletedMeansDone
  BY DEF AttemptsAreFenced, WorkOncePerAttempt, CompletedMeansDone, AbsentRow
<1> QED
  BY <1>1, <1>2, <1>3 DEF IInv

\* failJob and moveToDlq for any rows read at any time, however stale, lose no
\* job and uncount no attempt, and they complete nothing.
LEMMA SettleKeeps ==
  ASSUME TypeOK, OneHome, NEW read,
         read \subseteq [job_id : Jobs, attempts : Nat],
         Settle(read), nextJob' = nextJob
  PROVE  /\ TablesKept
         /\ \A j \in Jobs : background_jobs'[j].status = "COMPLETED"
                               => background_jobs[j].status = "COMPLETED"
<1> DEFINE dropped == Spent(read)
           letter(j) == [job_id |-> j, attempts |-> background_jobs[j].attempts]
<1>1. dropped \subseteq Jobs
  BY DEF Spent
<1>2. /\ background_jobs' = [j \in Jobs |->
              IF j \in dropped THEN AbsentRow
              ELSE IF \E x \in read : x.job_id = j THEN Failed(background_jobs[j])
              ELSE background_jobs[j]]
      /\ dead_letter_jobs' = dead_letter_jobs \cup
              {letter(j) : j \in {k \in dropped : Queued(k)}}
  BY DEF Settle, Letters
<1> HIDE DEF dropped
<1>3. background_jobs' \in [Jobs -> Row]
  <2>1. AbsentRow \in Row /\ \A row \in Row : Failed(row) \in Row
    BY DEF AbsentRow, Failed, Row
  <2> QED
    BY <1>2, <2>1 DEF TypeOK
<1>4. dead_letter_jobs' \subseteq [job_id : Jobs, attempts : Nat]
  BY <1>1, <1>2 DEF TypeOK, Row
<1>5. \A j \in Jobs : Queued(j)' <=> Queued(j) /\ j \notin dropped
  <2>1. \A row \in Row : Failed(row).status = "ABSENT" <=> row.status = "ABSENT"
    BY DEF Failed, Row
  <2>2. AbsentRow.status = "ABSENT"
    BY DEF AbsentRow
  <2> QED
    BY <1>2, <2>1, <2>2 DEF Queued, TypeOK
<1>6. \A j \in Jobs : Buried(j)' <=> Buried(j) \/ (Queued(j) /\ j \in dropped)
  <2> DEFINE fresh == {letter(k) : k \in {i \in dropped : Queued(i)}}
  <2>1. \A j \in Jobs : (\E d \in fresh : d.job_id = j) <=> Queued(j) /\ j \in dropped
    <3>1. \A k : letter(k).job_id = k
      OBVIOUS
    <3> QED
      BY <3>1
  <2>2. dead_letter_jobs' = dead_letter_jobs \cup fresh
    BY <1>2
  <2> HIDE DEF fresh
  <2> QED
    BY <2>1, <2>2 DEF Buried
<1>7. \A c, d \in dead_letter_jobs' : c.job_id = d.job_id => c = d
  BY <1>1, <1>2 DEF OneHome, Buried
<1>8. OneHome'
  BY <1>5, <1>6, <1>7 DEF OneHome
<1>9. ASSUME NEW j \in Jobs, NEW a \in Nat, Counted(j, a)
      PROVE  Counted(j, a)'
  <2>1. CASE \E d \in dead_letter_jobs : d.job_id = j /\ a <= d.attempts
    BY <2>1, <1>2 DEF Counted
  <2>2. CASE Queued(j) /\ a <= background_jobs[j].attempts
    <3>1. CASE j \in dropped
      <4>1. letter(j) \in dead_letter_jobs'
        BY <2>2, <3>1, <1>2
      <4> QED
        BY <4>1, <2>2 DEF Counted
    <3>2. CASE j \notin dropped
      <4>1. background_jobs'[j].attempts = background_jobs[j].attempts
        <5>1. /\ background_jobs[j] \in Row
              /\ background_jobs'[j] \in {Failed(background_jobs[j]), background_jobs[j]}
          BY <1>2, <3>2 DEF TypeOK
        <5> QED
          BY <5>1 DEF Failed, Row
      <4> QED
        BY <4>1, <3>2, <2>2, <1>5 DEF Counted
    <3> QED
      BY <3>1, <3>2
  <2> QED
    BY <1>9, <2>1, <2>2 DEF Counted
<1>10. \A j \in Jobs : background_jobs'[j].status = "COMPLETED"
                          => background_jobs[j].status = "COMPLETED"
  <2>1. AbsentRow.status # "COMPLETED"
    BY DEF AbsentRow
  <2>2. \A row \in Row : Failed(row).status = "COMPLETED" => row.status = "COMPLETED"
    BY DEF Failed, Row
  <2> QED
    BY <1>2, <2>1, <2>2 DEF TypeOK
<1> QED
  BY <1>3, <1>4, <1>8, <1>9, <1>10 DEF TablesKept, TypeOK

\* A step that leaves the tables alone keeps them.
LEMMA SameTablesKept ==
  ASSUME TypeOK, OneHome, UNCHANGED tables
  PROVE  TablesKept
BY DEF TablesKept, TypeOK, OneHome, Counted, Queued, Buried, tables

\* A step that rewrites rows without lowering their attempts, and neither
\* creates nor deletes one, keeps the tables.
LEMMA RewriteKeeps ==
  ASSUME TypeOK, OneHome, UNCHANGED <<nextJob, dead_letter_jobs>>,
         background_jobs' \in [Jobs -> Row],
         \A j \in Jobs :
            /\ background_jobs'[j].status = "ABSENT" <=> background_jobs[j].status = "ABSENT"
            /\ background_jobs[j].attempts <= background_jobs'[j].attempts
  PROVE  TablesKept
<1>1. \A j \in Jobs : (Queued(j)' <=> Queued(j)) /\ (Buried(j)' <=> Buried(j))
  BY DEF Queued, Buried
<1>2. OneHome'
  BY <1>1 DEF OneHome
<1>3. \A j \in Jobs : background_jobs[j].attempts \in Nat /\ background_jobs'[j].attempts \in Nat
  BY DEF TypeOK, Row
<1>4. \A j \in Jobs, a \in Nat : Counted(j, a) => Counted(j, a)'
  BY <1>1, <1>3 DEF Counted
<1> QED
  BY <1>2, <1>4 DEF TablesKept, TypeOK

\* The parts of the invariant that speak of executions and committed work.
CallsOK == AttemptsAreFenced /\ WorkOncePerAttempt /\ CompletedMeansDone

\* A step that commits nothing, starts no call and completes no job keeps
\* them, even if it ends calls.
LEMMA QuietStep ==
  ASSUME IInv, TablesKept, committed' = committed, executions' \subseteq executions,
         \A j \in Jobs : background_jobs'[j].status = "COMPLETED"
                            => background_jobs[j].status = "COMPLETED"
  PROVE  CallsOK'
<1>1. AttemptsAreFenced'
  BY DEF IInv, TypeOK, Execution, AttemptsAreFenced, TablesKept
<1>2. WorkOncePerAttempt'
  BY DEF IInv, WorkOncePerAttempt
<1>3. CompletedMeansDone'
  BY DEF IInv, CompletedMeansDone
<1> QED
  BY <1>1, <1>2, <1>3 DEF CallsOK

\* A call that moves on to another phase keeps its job and its attempt, so it
\* stays the only one to hold them.
LEMMA ProceedKeeps ==
  ASSUME IInv, TablesKept, NEW e \in executions, NEW p \in {"working", "done", "failed"},
         Proceed(e, p),
         \A j \in Jobs : committed'[j] =
            IF j = e.job /\ e.phase = "working" /\ committed' # committed
            THEN committed[j] \cup {e.attempts} ELSE committed[j]
  PROVE  /\ executions' \subseteq Execution
         /\ AttemptsAreFenced'
<1> DEFINE e2 == [e EXCEPT !.phase = p]
<1>1. /\ e \in Execution
      /\ e2 \in Execution
      /\ e2.job = e.job /\ e2.attempts = e.attempts /\ e2.worker = e.worker
      /\ e2.phase = p
  BY DEF IInv, TypeOK, Execution
<1>2. executions' = (executions \ {e}) \cup {e2}
  BY DEF Proceed
<1> HIDE DEF e2
<1>3. executions' \subseteq Execution
  BY <1>1, <1>2 DEF IInv, TypeOK
<1>4. \A f, g \in executions' : (f.job = g.job /\ f.attempts = g.attempts) => f = g
  BY <1>1, <1>2 DEF IInv, AttemptsAreFenced
<1>5. \A f \in executions : f.job \in Jobs /\ f.attempts \in Nat
  BY DEF IInv, TypeOK, Execution
<1>6. \A f \in executions : Counted(f.job, f.attempts)'
  BY <1>5 DEF IInv, AttemptsAreFenced, TablesKept
<1>7. \A f \in executions' : Counted(f.job, f.attempts)'
  BY <1>1, <1>2, <1>6
<1>8. \A j \in Jobs : \A a \in committed'[j] : Counted(j, a)'
  <2> TAKE j \in Jobs
  <2> TAKE a \in committed'[j]
  <2>1. CASE a \in committed[j]
    BY <2>1 DEF IInv, TypeOK, AttemptsAreFenced, TablesKept
  <2>2. CASE a \notin committed[j]
    BY <2>2, <1>6
  <2> QED
    BY <2>1, <2>2
<1>9. AttemptsAreFenced'
  BY <1>4, <1>7, <1>8 DEF AttemptsAreFenced
<1> QED
  BY <1>3, <1>9

\* The rest of TypeOK, once the tables are settled.
ProcessesTyped ==
    /\ process' \in [Workers -> {"new", "up", "draining", "dead"}]
    /\ activeJobs' \in [Workers -> SUBSET Jobs]
    /\ executions' \subseteq Execution
    /\ orphaned' \in [Workers -> SUBSET [job_id : Jobs, attempts : Nat]]
    /\ committed' \in [Jobs -> SUBSET Nat]
    /\ faults' \in Faults

LEMMA Conclude ==
  ASSUME TablesKept, ProcessesTyped, CallsOK'
  PROVE  IInv'
BY DEF TablesKept, ProcessesTyped, CallsOK, IInv, TypeOK

\* Counting a fault stays within the bound.
LEMMA FaultTyped ==
  ASSUME TypeOK, NEW kind, Fault(kind) \/ UNCHANGED faults
  PROVE  faults' \in Faults
<1>1. CASE UNCHANGED faults
  BY <1>1 DEF TypeOK
<1>2. CASE Fault(kind)
  <2>1. /\ faults.count \in 0..MaxFaults /\ faults.kinds \subseteq Disturbances
        /\ MaxFaults \in Nat
    BY JobQueueAssumption DEF TypeOK, Faults
  <2>2. faults.count + 1 \in 0..MaxFaults /\ faults.kinds \cup {kind} \subseteq Disturbances
    BY <1>2, <2>1 DEF Fault
  <2> QED
    BY <1>2, <2>2 DEF Fault, Faults
<1> QED
  BY <1>1, <1>2

\* Enqueue: the new row's id is fresh, so nothing has counted against it.
LEMMA EnqueueStep ==
  ASSUME IInv, Enqueue
  PROVE  IInv'
<1> USE DEF Enqueue, IInv
<1> DEFINE new == [AbsentRow EXCEPT !.status = "PENDING", !.due = TRUE]
<1>1. /\ new \in Row
      /\ new.status = "PENDING" /\ new.attempts = 0
  BY DEF AbsentRow, Row
<1>2. /\ nextJob \in Jobs
      /\ nextJob' = nextJob + 1
      /\ background_jobs' = [background_jobs EXCEPT ![nextJob] = new]
      /\ UNCHANGED <<dead_letter_jobs, process, calls, orphaned, committed, faults>>
  BY JobQueueAssumption DEF TypeOK, Jobs
<1> HIDE DEF new
<1>3. ~Queued(nextJob) /\ ~Buried(nextJob)
  BY <1>2 DEF OneHome, Jobs
<1>4. \A j \in Jobs : /\ Queued(j)' <=> Queued(j) \/ j = nextJob
                      /\ Buried(j)' <=> Buried(j)
  BY <1>1, <1>2 DEF Queued, Buried, TypeOK
<1>5. OneHome'
  BY <1>2, <1>3, <1>4 DEF OneHome, Jobs
<1>6. ASSUME NEW j \in Jobs, NEW a \in Nat, Counted(j, a)
      PROVE  Counted(j, a)'
  <2>1. CASE j = nextJob
    BY <1>3, <1>6, <2>1 DEF Counted, Buried
  <2>2. CASE j # nextJob
    BY <1>2, <1>4, <1>6, <2>2 DEF Counted, TypeOK
  <2> QED
    BY <2>1, <2>2
<1>7. TablesKept
  <2>1. nextJob' \in 1..(MaxJobs + 1) /\ background_jobs' \in [Jobs -> Row]
    BY <1>1, <1>2, JobQueueAssumption DEF TypeOK, Jobs
  <2> QED
    BY <2>1, <1>2, <1>5, <1>6 DEF TablesKept, TypeOK
<1>8. CallsOK'
  <2>1. \A j \in Jobs : background_jobs'[j].status = "COMPLETED"
                            => background_jobs[j].status = "COMPLETED"
    BY <1>1, <1>2 DEF TypeOK
  <2> QED
    BY <1>2, <1>7, <2>1, QuietStep DEF calls
<1>9. ProcessesTyped
  BY <1>2 DEF ProcessesTyped, TypeOK, calls
<1> QED
  BY <1>7, <1>8, <1>9, Conclude

\* claimNextJob makes a row RUNNING and counts one more attempt.
LEMMA ClaimedTyped ==
  ASSUME NEW row \in Row, NEW w \in Workers
  PROVE  /\ Claimed(row, w) \in Row
         /\ Claimed(row, w).status = "RUNNING"
         /\ Claimed(row, w).attempts = row.attempts + 1
<1>1. row.attempts + 1 \in Nat
  BY DEF Row
<1>2. \A n \in Nat :
        LET r == [row EXCEPT !.status = "RUNNING", !.owner = w, !.stale = FALSE,
                             !.attempts = n]
        IN  r \in Row /\ r.status = "RUNNING" /\ r.attempts = n
  BY DEF Row
<1> QED
  BY <1>1, <1>2 DEF Claimed

\* Claiming counts one more attempt than anybody has ever held.
LEMMA ClaimedRow ==
  ASSUME IInv, NEW w \in Workers, NEW j \in Jobs, First(j),
         background_jobs' = [background_jobs EXCEPT ![j] = Claimed(@, w)],
         UNCHANGED <<nextJob, dead_letter_jobs>>
  PROVE  /\ TablesKept
         /\ Queued(j) /\ Queued(j)'
         /\ background_jobs'[j].attempts \in Nat
         /\ background_jobs'[j].attempts = background_jobs[j].attempts + 1
         /\ \A a \in Nat : Counted(j, a) => a < background_jobs'[j].attempts
         /\ \A k \in Jobs : background_jobs'[k].status = "COMPLETED"
                                => background_jobs[k].status = "COMPLETED"
<1>1. background_jobs[j] \in Row /\ background_jobs[j].status \in {"PENDING", "RETRYING"}
  BY DEF First, Claimable, IInv, TypeOK
<1>2. /\ Claimed(background_jobs[j], w) \in Row
      /\ Claimed(background_jobs[j], w).status = "RUNNING"
      /\ Claimed(background_jobs[j], w).attempts = background_jobs[j].attempts + 1
  BY <1>1, ClaimedTyped
<1>3. /\ background_jobs' \in [Jobs -> Row]
      /\ background_jobs'[j] = Claimed(background_jobs[j], w)
      /\ \A k \in Jobs : k # j => background_jobs'[k] = background_jobs[k]
  BY <1>2 DEF IInv, TypeOK
<1>4. \A k \in Jobs : background_jobs[k].attempts \in Nat
  BY DEF IInv, TypeOK, Row
<1>5. \A k \in Jobs :
          /\ background_jobs'[k].status = "ABSENT" <=> background_jobs[k].status = "ABSENT"
          /\ background_jobs[k].attempts <= background_jobs'[k].attempts
  BY <1>1, <1>2, <1>3, <1>4
<1>6. TablesKept
  BY <1>3, <1>5, RewriteKeeps DEF IInv
<1>7. Queued(j) /\ Queued(j)'
  BY <1>1, <1>2, <1>3 DEF Queued
<1>8. ~Buried(j)
  BY <1>7 DEF IInv, OneHome
<1>9. \A a \in Nat : Counted(j, a) => a < background_jobs'[j].attempts
  BY <1>2, <1>3, <1>4, <1>8 DEF Counted, Buried
<1>10. \A k \in Jobs : background_jobs'[k].status = "COMPLETED"
                           => background_jobs[k].status = "COMPLETED"
  BY <1>2, <1>3
<1> QED
  BY <1>2, <1>3, <1>4, <1>6, <1>7, <1>9, <1>10

LEMMA ClaimStep ==
  ASSUME IInv, NEW w \in Workers, NEW j \in Jobs, Claim(w, j)
  PROVE  IInv'
<1> DEFINE a == background_jobs'[j].attempts
           e == [job |-> j, worker |-> w, attempts |-> a, phase |-> "working"]
<1>1. /\ TablesKept
      /\ Queued(j)'
      /\ a \in Nat
      /\ \A b \in Nat : Counted(j, b) => b < a
      /\ \A k \in Jobs : background_jobs'[k].status = "COMPLETED"
                              => background_jobs[k].status = "COMPLETED"
  BY ClaimedRow DEF Claim
<1>2. executions' = executions \cup {e}
  BY DEF Claim
<1>3. UNCHANGED <<process, orphaned, committed, faults>>
  BY DEF Claim
<1>4. /\ e \in Execution
      /\ e.job = j /\ e.attempts = a /\ e.phase = "working"
  BY <1>1 DEF Execution
<1> HIDE DEF a, e
<1>5. \A f \in executions : f.job \in Jobs /\ f.attempts \in Nat
  BY DEF IInv, TypeOK, Execution
<1>6. \A f \in executions : f.job = j => f.attempts < a
  BY <1>1, <1>5 DEF IInv, AttemptsAreFenced
<1>7. a \notin committed[j]
  BY <1>1 DEF IInv, TypeOK, AttemptsAreFenced
<1>8. \A b \in Nat : b = a => Counted(j, b)'
  BY <1>1 DEF Counted, a
<1>9. AttemptsAreFenced'
  <2>1. \A f, g \in executions' : (f.job = g.job /\ f.attempts = g.attempts) => f = g
    <3>1. \A f \in executions : ~(f.job = e.job /\ f.attempts = e.attempts)
      BY <1>1, <1>4, <1>5, <1>6
    <3> QED
      BY <1>2, <3>1 DEF IInv, AttemptsAreFenced
  <2>2. \A f \in executions' : Counted(f.job, f.attempts)'
    BY <1>1, <1>2, <1>4, <1>5, <1>8 DEF IInv, AttemptsAreFenced, TablesKept
  <2>3. \A k \in Jobs : \A b \in committed'[k] : Counted(k, b)'
    BY <1>1, <1>3 DEF IInv, TypeOK, AttemptsAreFenced, TablesKept
  <2> QED
    BY <2>1, <2>2, <2>3 DEF AttemptsAreFenced
<1>10. WorkOncePerAttempt'
  BY <1>2, <1>3, <1>4, <1>7 DEF IInv, WorkOncePerAttempt
<1>11. CompletedMeansDone'
  BY <1>1, <1>3 DEF IInv, CompletedMeansDone
<1>12. ProcessesTyped
  <2>1. activeJobs' \in [Workers -> SUBSET Jobs]
    BY DEF Claim, IInv, TypeOK
  <2>2. executions' \subseteq Execution
    BY <1>2, <1>4 DEF IInv, TypeOK
  <2> QED
    BY <2>1, <2>2, <1>3 DEF ProcessesTyped, IInv, TypeOK
<1> QED
  BY <1>1, <1>9, <1>10, <1>11, <1>12, Conclude DEF CallsOK

LEMMA ClaimAckLostStep ==
  ASSUME IInv, NEW w \in Workers, NEW j \in Jobs, ClaimAckLost(w, j)
  PROVE  IInv'
<1>1. /\ TablesKept
      /\ \A k \in Jobs : background_jobs'[k].status = "COMPLETED"
                              => background_jobs[k].status = "COMPLETED"
  BY ClaimedRow DEF ClaimAckLost
<1>2. UNCHANGED <<process, calls, orphaned, committed>>
  BY DEF ClaimAckLost
<1>3. CallsOK'
  BY <1>1, <1>2, QuietStep DEF calls
<1>4. ProcessesTyped
  BY <1>2, FaultTyped DEF ClaimAckLost, ProcessesTyped, IInv, TypeOK, calls
<1> QED
  BY <1>1, <1>3, <1>4, Conclude

\* The handler ends: its work is committed under the call's own attempt, which
\* nobody else holds.
LEMMA CommitWorkStep ==
  ASSUME IInv, NEW e \in executions, CommitWork(e)
  PROVE  IInv'
<1>1. /\ e.job \in Jobs /\ e.attempts \in Nat
      /\ e.phase = "working"
      /\ committed' = [committed EXCEPT ![e.job] = @ \cup {e.attempts}]
      /\ UNCHANGED <<tables, process, activeJobs, orphaned>>
  BY DEF CommitWork, IInv, TypeOK, Execution
<1>2. TablesKept
  BY <1>1, SameTablesKept DEF IInv
<1>3. PICK p \in {"done", "failed"} : Proceed(e, p)
  BY DEF CommitWork
<1>4. \A j \in Jobs : committed'[j] =
          IF j = e.job THEN committed[j] \cup {e.attempts} ELSE committed[j]
  BY <1>1 DEF IInv, TypeOK
<1>5. executions' \subseteq Execution /\ AttemptsAreFenced'
  BY <1>1, <1>2, <1>3, <1>4, ProceedKeeps
<1>6. WorkOncePerAttempt'
  <2>1. \A f \in executions : f # e => ~(f.job = e.job /\ f.attempts = e.attempts)
    BY DEF IInv, AttemptsAreFenced
  <2>2. \A f \in executions : f.job \in Jobs
    BY DEF IInv, TypeOK, Execution
  <2>3. \A f \in executions : f # e =>
            /\ f.phase = "working" => f.attempts \notin committed'[f.job]
            /\ f.phase = "done" => f.attempts \in committed'[f.job]
    BY <1>4, <2>1, <2>2 DEF IInv, WorkOncePerAttempt
  <2> DEFINE g == [e EXCEPT !.phase = p]
  <2>4. /\ executions' = (executions \ {e}) \cup {g}
        /\ g.job = e.job /\ g.attempts = e.attempts /\ g.phase = p
    BY <1>3 DEF Proceed, IInv, TypeOK, Execution
  <2> HIDE DEF g
  <2>5. g.attempts \in committed'[g.job]
    BY <1>1, <1>4, <2>4
  <2> QED
    BY <1>3, <2>3, <2>4, <2>5 DEF WorkOncePerAttempt
<1>7. CompletedMeansDone'
  BY <1>1, <1>4 DEF IInv, CompletedMeansDone, tables
<1>8. ProcessesTyped
  <2>1. faults' \in Faults
    BY FaultTyped DEF CommitWork, IInv
  <2>2. committed' \in [Jobs -> SUBSET Nat]
    BY <1>1 DEF IInv, TypeOK
  <2> QED
    BY <1>1, <1>5, <2>1, <2>2 DEF ProcessesTyped, IInv, TypeOK
<1> QED
  BY <1>2, <1>5, <1>6, <1>7, <1>8, Conclude DEF CallsOK

\* A call that fails commits nothing more, so it may hold any attempt.
LEMMA FailStep ==
  ASSUME IInv, NEW e \in executions, TablesKept, Proceed(e, "failed"),
         committed' = committed
  PROVE  executions' \subseteq Execution /\ AttemptsAreFenced' /\ WorkOncePerAttempt'
<1>1. executions' \subseteq Execution /\ AttemptsAreFenced'
  BY ProceedKeeps DEF IInv, TypeOK
<1> DEFINE g == [e EXCEPT !.phase = "failed"]
<1>2. executions' = (executions \ {e}) \cup {g} /\ g.phase = "failed"
  BY DEF Proceed, IInv, TypeOK, Execution
<1> HIDE DEF g
<1>3. WorkOncePerAttempt'
  BY <1>2 DEF IInv, WorkOncePerAttempt
<1> QED
  BY <1>1, <1>3

LEMMA WorkOrCompleteFailsStep ==
  ASSUME IInv, NEW e \in executions, WorkFails(e) \/ CompleteFails(e)
  PROVE  IInv'
<1>1. /\ Proceed(e, "failed")
      /\ UNCHANGED <<tables, process, activeJobs, orphaned, committed>>
  BY DEF WorkFails, CompleteFails
<1>2. TablesKept
  BY <1>1, SameTablesKept DEF IInv
<1>3. executions' \subseteq Execution /\ AttemptsAreFenced' /\ WorkOncePerAttempt'
  BY <1>1, <1>2, FailStep
<1>4. CompletedMeansDone'
  BY <1>1 DEF IInv, CompletedMeansDone, tables
<1>5. faults' \in Faults
  BY FaultTyped DEF WorkFails, CompleteFails, IInv
<1>6. ProcessesTyped
  BY <1>1, <1>3, <1>5 DEF ProcessesTyped, IInv, TypeOK
<1> QED
  BY <1>2, <1>3, <1>4, <1>6, Conclude DEF CallsOK

\* completeJob completes the job of a call that has committed its work.
LEMMA CompleteStep ==
  ASSUME IInv, NEW e \in executions, Complete(e)
  PROVE  IInv'
<1>1. /\ e.job \in Jobs /\ e.worker \in Workers /\ e.phase = "done"
      /\ background_jobs' = [background_jobs EXCEPT ![e.job] = Completed(@)]
      /\ UNCHANGED <<nextJob, dead_letter_jobs, process, orphaned, committed>>
  BY DEF Complete, IInv, TypeOK, Execution
<1>2. \A j \in Jobs :
          /\ background_jobs'[j] \in Row
          /\ background_jobs'[j].attempts = background_jobs[j].attempts
          /\ background_jobs'[j].attempts \in Nat
          /\ background_jobs'[j].status = "ABSENT" <=> background_jobs[j].status = "ABSENT"
          /\ j # e.job => background_jobs'[j] = background_jobs[j]
  <2>1. \A row \in Row :
          /\ Completed(row) \in Row
          /\ Completed(row).attempts = row.attempts
          /\ row.attempts \in Nat
          /\ Completed(row).status = "ABSENT" <=> row.status = "ABSENT"
    BY DEF Completed, Row
  <2>2. \A j \in Jobs :
          /\ background_jobs[j] \in Row
          /\ background_jobs'[j] =
                IF j = e.job THEN Completed(background_jobs[j]) ELSE background_jobs[j]
    BY <1>1 DEF IInv, TypeOK
  <2> QED
    BY <2>1, <2>2 DEF Row
<1>3. TablesKept
  <2>1. background_jobs' \in [Jobs -> Row]
    BY <1>1, <1>2 DEF IInv, TypeOK
  <2> QED
    BY <1>1, <1>2, <2>1, RewriteKeeps DEF IInv
<1>4. CompletedMeansDone'
  <2>1. committed[e.job] # {}
    BY <1>1 DEF IInv, WorkOncePerAttempt
  <2> QED
    BY <1>1, <1>2, <2>1 DEF IInv, CompletedMeansDone
<1>5. faults' \in Faults
  BY FaultTyped DEF Complete, IInv
<1>6. CASE Return(e)
  <2>1. executions' \subseteq executions
    BY <1>6 DEF Return
  <2>2. AttemptsAreFenced' /\ WorkOncePerAttempt'
    BY <1>1, <1>3, <2>1 DEF IInv, TypeOK, Execution, AttemptsAreFenced,
                            WorkOncePerAttempt, TablesKept
  <2>3. ProcessesTyped
    BY <1>1, <1>5, <1>6, <2>1 DEF Return, ProcessesTyped, IInv, TypeOK
  <2> QED
    BY <1>3, <1>4, <2>2, <2>3, Conclude DEF CallsOK
<1>7. CASE Proceed(e, "failed") /\ UNCHANGED activeJobs
  <2>1. executions' \subseteq Execution /\ AttemptsAreFenced' /\ WorkOncePerAttempt'
    BY <1>1, <1>3, <1>7, FailStep
  <2>2. ProcessesTyped
    BY <1>1, <1>5, <1>7, <2>1 DEF ProcessesTyped, IInv, TypeOK
  <2> QED
    BY <1>3, <1>4, <2>1, <2>2, Conclude DEF CallsOK
<1> QED
  BY <1>6, <1>7 DEF Complete

\* Recording a failure, and the recovery transaction: see SettleKeeps.
LEMMA SettleStep ==
  ASSUME IInv,
         \/ \E e \in executions : RecordFailure(e)
         \/ \E w \in Workers : ResetOrphans(w)
  PROVE  IInv'
<1>1. CASE \E e \in executions : RecordFailure(e)
  <2>1. PICK e \in executions : RecordFailure(e)
    BY <1>1
  <2> DEFINE read == {[job_id |-> e.job, attempts |-> e.attempts]}
  <2>2. /\ read \subseteq [job_id : Jobs, attempts : Nat]
        /\ e.worker \in Workers
    BY DEF IInv, TypeOK, Execution
  <2>3. /\ Settle(read) /\ Return(e)
        /\ UNCHANGED <<nextJob, process, orphaned, committed, faults>>
    BY <2>1 DEF RecordFailure
  <2> HIDE DEF read
  <2>4. /\ TablesKept
        /\ \A j \in Jobs : background_jobs'[j].status = "COMPLETED"
                               => background_jobs[j].status = "COMPLETED"
    BY <2>2, <2>3, SettleKeeps DEF IInv
  <2>5. CallsOK'
    BY <2>3, <2>4, QuietStep DEF Return
  <2>6. ProcessesTyped
    BY <2>2, <2>3 DEF Return, ProcessesTyped, IInv, TypeOK
  <2> QED
    BY <2>4, <2>5, <2>6, Conclude
<1>2. CASE \E w \in Workers : ResetOrphans(w)
  <2>1. PICK w \in Workers : ResetOrphans(w)
    BY <1>2
  <2>2. /\ orphaned[w] \subseteq [job_id : Jobs, attempts : Nat]
        /\ Settle(orphaned[w])
        /\ UNCHANGED <<nextJob, process, calls, committed, faults>>
    BY <2>1 DEF ResetOrphans, IInv, TypeOK
  <2>3. /\ TablesKept
        /\ \A j \in Jobs : background_jobs'[j].status = "COMPLETED"
                               => background_jobs[j].status = "COMPLETED"
    BY <2>2, SettleKeeps DEF IInv
  <2>4. CallsOK'
    BY <2>2, <2>3, QuietStep DEF calls
  <2>5. ProcessesTyped
    BY <2>1, <2>2 DEF ResetOrphans, ProcessesTyped, IInv, TypeOK, calls
  <2> QED
    BY <2>3, <2>4, <2>5, Conclude
<1> QED
  BY <1>1, <1>2

\* Heartbeats and the passage of time rewrite the due and stale marks only.
LEMMA ClockStep ==
  ASSUME IInv,
         \/ \E w \in Workers : Heartbeat(w)
         \/ \E j \in Jobs : HeartbeatExpires(j) \/ BackoffExpires(j)
  PROVE  IInv'
<1>1. UNCHANGED <<nextJob, dead_letter_jobs, process, calls, orphaned, committed>>
  BY DEF Heartbeat, HeartbeatExpires, BackoffExpires
<1>2. /\ background_jobs' \in [Jobs -> Row]
      /\ \A j \in Jobs :
            /\ background_jobs'[j].attempts = background_jobs[j].attempts
            /\ background_jobs'[j].attempts \in Nat
            /\ background_jobs'[j].status = background_jobs[j].status
  <2>1. CASE \E w \in Workers : Heartbeat(w)
    <3>1. PICK w \in Workers : Heartbeat(w)
      BY <2>1
    <3>2. \A j \in Jobs : (background_jobs[j].stale /\ ~Beats(w, j)) \in BOOLEAN
      OBVIOUS
    <3>3. background_jobs' = [j \in Jobs |->
              [background_jobs[j] EXCEPT !.stale = @ /\ ~Beats(w, j)]]
      BY <3>1 DEF Heartbeat
    <3>4. \A row \in Row, b \in BOOLEAN :
            /\ [row EXCEPT !.stale = b] \in Row
            /\ [row EXCEPT !.stale = b].attempts = row.attempts /\ row.attempts \in Nat
            /\ [row EXCEPT !.stale = b].status = row.status
      BY DEF Row
    <3> QED
      BY <3>2, <3>3, <3>4 DEF IInv, TypeOK
  <2>2. CASE \E j \in Jobs : HeartbeatExpires(j) \/ BackoffExpires(j)
    <3>1. PICK j \in Jobs :
            \/ background_jobs' = [background_jobs EXCEPT ![j].stale = TRUE]
            \/ background_jobs' = [background_jobs EXCEPT ![j].due = TRUE]
      BY <2>2 DEF HeartbeatExpires, BackoffExpires
    <3> DEFINE row == background_jobs[j]
               new == IF background_jobs' = [background_jobs EXCEPT ![j].stale = TRUE]
                      THEN [row EXCEPT !.stale = TRUE] ELSE [row EXCEPT !.due = TRUE]
    <3>2. new \in Row /\ new.attempts = row.attempts /\ new.status = row.status
      BY DEF IInv, TypeOK, Row
    <3>3. background_jobs' = [background_jobs EXCEPT ![j] = new]
      BY <3>1
    <3> HIDE DEF new
    <3>4. \A k \in Jobs : background_jobs[k] \in Row /\ background_jobs[k].attempts \in Nat
      BY DEF IInv, TypeOK, Row
    <3> QED
      BY <3>2, <3>3, <3>4 DEF IInv, TypeOK
  <2> QED
    BY <2>1, <2>2
<1>3. TablesKept
  BY <1>1, <1>2, RewriteKeeps DEF IInv
<1>4. CallsOK'
  BY <1>1, <1>2, <1>3, QuietStep DEF calls
<1>5. faults' \in Faults
  BY FaultTyped DEF Heartbeat, HeartbeatExpires, BackoffExpires, IInv
<1>6. ProcessesTyped
  BY <1>1, <1>5 DEF ProcessesTyped, IInv, TypeOK, calls
<1> QED
  BY <1>3, <1>4, <1>6, Conclude

\* Steps of the processes that leave the tables and the committed work alone.
LEMMA ProcessStep ==
  ASSUME IInv,
         \/ \E w \in Workers : \/ Start(w) \/ Stop(w) \/ Exit(w) \/ Crash(w)
                              \/ FindOrphanedJobs(w) \/ RecoveryFails(w)
         \/ \E e \in executions : RecordFailureFails(e)
         \/ UNCHANGED vars
  PROVE  IInv'
<1>1. UNCHANGED tables /\ UNCHANGED committed
  BY DEF Start, Stop, Exit, Crash, Vanish, FindOrphanedJobs, RecoveryFails,
         RecordFailureFails, vars
<1>2. TablesKept
  BY <1>1, SameTablesKept DEF IInv
<1>3. executions' \subseteq executions
  BY DEF Start, Stop, Exit, Crash, Vanish, FindOrphanedJobs, RecoveryFails,
         RecordFailureFails, Return, vars, calls
<1>4. CallsOK'
  BY <1>1, <1>2, <1>3, QuietStep DEF tables
<1>5. faults' \in Faults
  BY FaultTyped DEF Start, Stop, Exit, Crash, FindOrphanedJobs, RecoveryFails,
                    RecordFailureFails, vars, IInv
<1>6. process' \in [Workers -> {"new", "up", "draining", "dead"}]
  BY DEF Start, Stop, Exit, Crash, Vanish, FindOrphanedJobs, RecoveryFails,
         RecordFailureFails, vars, IInv, TypeOK
<1>7. activeJobs' \in [Workers -> SUBSET Jobs]
  BY DEF Start, Stop, Exit, Crash, Vanish, FindOrphanedJobs, RecoveryFails,
         RecordFailureFails, Return, vars, calls, IInv, TypeOK
<1>8. orphaned' \in [Workers -> SUBSET [job_id : Jobs, attempts : Nat]]
  BY DEF Start, Stop, Exit, Crash, Vanish, FindOrphanedJobs, RecoveryFails,
         RecordFailureFails, vars, IInv, TypeOK, Row
<1>9. ProcessesTyped
  BY <1>1, <1>3, <1>5, <1>6, <1>7, <1>8 DEF ProcessesTyped, IInv, TypeOK
<1> QED
  BY <1>2, <1>4, <1>9, Conclude

\* Every step keeps the inductive invariant.
LEMMA NextIInv == IInv /\ [Next]_vars => IInv'
<1> SUFFICES ASSUME IInv, [Next]_vars PROVE IInv'
  OBVIOUS
<1>1. CASE Enqueue
  BY <1>1, EnqueueStep
<1>2. CASE \E w \in Workers, j \in Jobs : Claim(w, j)
  BY <1>2, ClaimStep
<1>3. CASE \E w \in Workers, j \in Jobs : ClaimAckLost(w, j)
  BY <1>3, ClaimAckLostStep
<1>4. CASE \E e \in executions : CommitWork(e)
  BY <1>4, CommitWorkStep
<1>5. CASE \E e \in executions : WorkFails(e) \/ CompleteFails(e)
  BY <1>5, WorkOrCompleteFailsStep
<1>6. CASE \E e \in executions : Complete(e)
  BY <1>6, CompleteStep
<1>7. CASE \/ \E e \in executions : RecordFailure(e)
           \/ \E w \in Workers : ResetOrphans(w)
  BY <1>7, SettleStep
<1>8. CASE \/ \E w \in Workers : Heartbeat(w)
           \/ \E j \in Jobs : HeartbeatExpires(j) \/ BackoffExpires(j)
  BY <1>8, ClockStep
<1>9. CASE \/ \E w \in Workers : \/ Start(w) \/ Stop(w) \/ Exit(w) \/ Crash(w)
                                \/ FindOrphanedJobs(w) \/ RecoveryFails(w)
           \/ \E e \in executions : RecordFailureFails(e)
           \/ UNCHANGED vars
  BY <1>9, ProcessStep
<1> QED
  BY <1>1, <1>2, <1>3, <1>4, <1>5, <1>6, <1>7, <1>8, <1>9 DEF Next, Work, Execute

\* The inductive invariant holds in every reachable state.
THEOREM Invariance == Spec => []IInv
BY InitIInv, NextIInv, PTL DEF Spec

\* Every variable of the job queue keeps its type.
THEOREM TypeCorrect == Spec => []TypeOK
BY Invariance, PTL DEF IInv

\* However executions and recoveries race, no job is lost between
\* background_jobs and dead_letter_jobs, and none is in both or buried twice.
THEOREM JobsHaveOneHome == Spec => []OneHome
BY Invariance, PTL DEF IInv

\* No two executions of a job ever share an attempt, and claimNextJob never
\* hands out an attempt that was already held or committed under.
THEOREM AttemptsFence == Spec => []AttemptsAreFenced
BY Invariance, PTL DEF IInv

\* An attempt's work is committed at most once, a call that is about to
\* complete its job has committed it, and so has one of a COMPLETED job.
THEOREM CompletionIsHonest == Spec => []WorkIsDoneOnce
<1>1. IInv => WorkIsDoneOnce
  BY DEF IInv, WorkIsDoneOnce
<1> QED
  BY <1>1, Invariance, PTL

-----------------------------------------------------------------------------
(* What a step never does, whatever goes wrong. *)

\* failJob and moveToDlq, however stale the attempts they were given.
LEMMA SettleMovesOn ==
  ASSUME TypeOK, NEW read, Settle(read), NEW j \in Jobs, Queued(j)
  PROVE  dead_letter_jobs \subseteq dead_letter_jobs' /\ MovesOn(j)
<1>1. /\ background_jobs[j] \in Row
      /\ background_jobs'[j] = IF j \in Spent(read) THEN AbsentRow
                               ELSE IF \E x \in read : x.job_id = j
                               THEN Failed(background_jobs[j]) ELSE background_jobs[j]
      /\ dead_letter_jobs' = dead_letter_jobs \cup Letters(Spent(read))
  BY DEF Settle, TypeOK
<1>2. CASE j \in Spent(read)
  <2>1. [job_id |-> j, attempts |-> background_jobs[j].attempts] \in dead_letter_jobs'
    BY <1>1, <1>2 DEF Letters
  <2>2. ~Queued(j)'
    BY <1>1, <1>2 DEF Queued, AbsentRow
  <2> QED
    BY <1>1, <2>1, <2>2 DEF MovesOn
<1>3. CASE j \notin Spent(read)
  <2>1. background_jobs'[j] \in {Failed(background_jobs[j]), background_jobs[j]}
    BY <1>1, <1>3
  <2>2. /\ background_jobs'[j].attempts = background_jobs[j].attempts
        /\ background_jobs'[j].status \in {background_jobs[j].status, "RETRYING"}
    BY <1>1, <2>1 DEF Failed, Row
  <2> QED
    BY <1>1, <2>2 DEF MovesOn, Queued
<1> QED
  BY <1>2, <1>3

\* A statement that claims one row.
LEMMA ClaimMovesOn ==
  ASSUME TypeOK, NEW w \in Workers, NEW k \in Jobs, First(k),
         background_jobs' = [background_jobs EXCEPT ![k] = Claimed(@, w)],
         NEW j \in Jobs, Queued(j)
  PROVE  MovesOn(j)
<1>1. background_jobs[k] \in Row /\ Claimable(k)
  BY DEF TypeOK, First
<1>2. CASE j = k
  <2>1. background_jobs'[j] = Claimed(background_jobs[j], w)
    BY <1>2 DEF TypeOK
  <2>2. /\ background_jobs'[j].status = "RUNNING"
        /\ background_jobs'[j].attempts = background_jobs[j].attempts + 1
    BY <1>1, <1>2, <2>1 DEF Claimed, Row
  <2> QED
    BY <1>1, <1>2, <2>2 DEF MovesOn
<1>3. CASE j # k
  BY <1>3 DEF MovesOn, Queued, TypeOK
<1> QED
  BY <1>2, <1>3

\* Statements that neither count an attempt nor delete a row.
LEMMA RewriteMovesOn ==
  ASSUME NEW j \in Jobs, Queued(j),
         background_jobs'[j].attempts = background_jobs[j].attempts,
         background_jobs'[j].status \in {background_jobs[j].status, "COMPLETED"}
  PROVE  MovesOn(j)
BY DEF MovesOn, Queued

\* Every step adds to the letters and to the work that is committed.
LEMMA NextAdds ==
  ASSUME IInv, [Next]_vars
  PROVE  /\ dead_letter_jobs \subseteq dead_letter_jobs'
         /\ \A j \in Jobs : committed[j] \subseteq committed'[j]
<1>1. CASE \E e \in executions : CommitWork(e)
  <2>1. PICK e \in executions : CommitWork(e)
    BY <1>1
  <2>2. committed' = [committed EXCEPT ![e.job] = @ \cup {e.attempts}]
    BY <2>1 DEF CommitWork
  <2>3. dead_letter_jobs' = dead_letter_jobs
    BY <2>1 DEF CommitWork, tables
  <2> QED
    BY <2>2, <2>3 DEF IInv, TypeOK
<1>2. CASE \/ \E e \in executions : RecordFailure(e)
           \/ \E w \in Workers : ResetOrphans(w)
  BY <1>2 DEF RecordFailure, ResetOrphans, Settle
<1>3. CASE \/ Enqueue
           \/ \E w \in Workers :
                 \/ Start(w) \/ Stop(w) \/ Exit(w) \/ Crash(w)
                 \/ Heartbeat(w) \/ FindOrphanedJobs(w) \/ RecoveryFails(w)
                 \/ \E j \in Jobs : Claim(w, j) \/ ClaimAckLost(w, j)
           \/ \E e \in executions :
                 WorkFails(e) \/ Complete(e) \/ CompleteFails(e) \/ RecordFailureFails(e)
           \/ \E j \in Jobs : HeartbeatExpires(j) \/ BackoffExpires(j)
           \/ UNCHANGED vars
  <2>1. UNCHANGED <<dead_letter_jobs, committed>>
    BY <1>3 DEF Enqueue, Start, Stop, Exit, Crash, Vanish, Heartbeat, FindOrphanedJobs,
       RecoveryFails, Claim, ClaimAckLost, WorkFails, Complete, CompleteFails,
       RecordFailureFails, HeartbeatExpires, BackoffExpires, tables, vars
  <2> QED
    BY <2>1
<1> QED
  BY <1>1, <1>2, <1>3 DEF Next, Work, Execute

\* Every step moves every job on.
LEMMA NextMovesOn ==
  ASSUME IInv, [Next]_vars, NEW j \in Jobs, Queued(j)
  PROVE  MovesOn(j)
<1> DEFINE row == background_jobs[j]
<1>1. row \in Row /\ nextJob \in Nat /\ ~(nextJob <= MaxJobs /\ j = nextJob)
  BY JobQueueAssumption DEF IInv, TypeOK, OneHome, Jobs
<1>2. CASE Enqueue
  <2>1. background_jobs'[j] = row
    BY <1>1, <1>2 DEF Enqueue, IInv, TypeOK
  <2> QED
    BY <1>1, <2>1, RewriteMovesOn
<1>3. CASE \E w \in Workers, k \in Jobs : Claim(w, k) \/ ClaimAckLost(w, k)
  BY <1>3, ClaimMovesOn DEF Claim, ClaimAckLost, IInv
<1>4. CASE \/ \E e \in executions : RecordFailure(e)
           \/ \E w \in Workers : ResetOrphans(w)
  BY <1>4, SettleMovesOn DEF RecordFailure, ResetOrphans, IInv
<1>5. CASE \E e \in executions : Complete(e)
  <2>1. background_jobs'[j] \in {row, Completed(row)}
    BY <1>5 DEF Complete, IInv, TypeOK, Execution
  <2>2. /\ background_jobs'[j].attempts = row.attempts
        /\ background_jobs'[j].status \in {row.status, "COMPLETED"}
    BY <1>1, <2>1 DEF Completed, Row
  <2> QED
    BY <2>2, RewriteMovesOn
<1>6. CASE \/ \E w \in Workers : Heartbeat(w)
           \/ \E k \in Jobs : HeartbeatExpires(k) \/ BackoffExpires(k)
  <2>1. /\ background_jobs'[j].attempts = row.attempts
        /\ background_jobs'[j].status = row.status
    BY <1>1, <1>6 DEF Heartbeat, HeartbeatExpires, BackoffExpires, IInv, TypeOK, Row
  <2> QED
    BY <2>1, RewriteMovesOn
<1>7. CASE \/ \E w \in Workers : \/ Start(w) \/ Stop(w) \/ Exit(w) \/ Crash(w)
                                \/ FindOrphanedJobs(w) \/ RecoveryFails(w)
           \/ \E e \in executions :
                 CommitWork(e) \/ WorkFails(e) \/ CompleteFails(e) \/ RecordFailureFails(e)
           \/ UNCHANGED vars
  <2>1. UNCHANGED background_jobs
    BY <1>7 DEF Start, Stop, Exit, Crash, Vanish, FindOrphanedJobs, RecoveryFails, CommitWork,
       WorkFails, CompleteFails, RecordFailureFails, tables, vars
  <2> QED
    BY <2>1, RewriteMovesOn
<1> QED
  BY <1>2, <1>3, <1>4, <1>5, <1>6, <1>7 DEF Next, Work, Execute

\* However stale what a worker knows when it writes: nothing but a claim counts an
\* attempt, a claim takes only what waits and is due, and no letter is rewritten.
THEOREM HistoryIsKept == Spec => HistoryStays
<1>1. IInv /\ [Next]_vars =>
        [ /\ dead_letter_jobs \subseteq dead_letter_jobs'
          /\ \A j \in Jobs : committed[j] \subseteq committed'[j]
          /\ \A j \in Jobs : Queued(j) => MovesOn(j) ]_vars
  BY NextAdds, NextMovesOn
<1> QED
  BY <1>1, Invariance, PTL DEF Spec, HistoryStays

-----------------------------------------------------------------------------
(* What repetitions cost.  The work of a job is repeated only after a crash, a  *)
(* stop, a lost answer, a failed completion or a lack of time, and each of them *)
(* pays for one repetition of each job.                                         *)

\* The calls of a job that may still commit its work, or that may still put it up
\* for another attempt.
Open(j) == {e \in executions : e.job = j /\ e.phase # "done"}

\* The job is up for a claim, or will be enqueued.
Awaited(j) == j >= nextJob \/ Claimable(j)

\* The row of a running job for which nobody sends heartbeats, or sends them late.
Lost(j) ==
    /\ background_jobs[j].status = "RUNNING"
    /\ background_jobs[j].stale \/ ~(\E w \in Workers : Beats(w, j))

\* The job may come up for another attempt, although no call is open.
Returning(j) ==
    \/ Listed(j)
    \/ Lost(j)
    \/ background_jobs[j].status = "RETRYING" /\ ~background_jobs[j].due

Chances(j) == (IF Awaited(j) THEN 1 ELSE 0) + (IF Returning(j) THEN 1 ELSE 0)

\* The books balance: every attempt that has committed the work, every open call
\* and every chance of another attempt but the first is paid for with a fault.
Paid(j) ==
    /\ IsFiniteSet(committed[j])
    /\ IsFiniteSet(Open(j))
    /\ Cardinality(committed[j]) + Cardinality(Open(j)) + Chances(j) <= 1 + faults.count

\* The numbers in the books.
LEMMA Numbers ==
  ASSUME TypeOK, TypeOK', NEW j \in Jobs
  PROVE  /\ faults.count \in Nat /\ faults'.count \in Nat
         /\ Chances(j) \in Nat /\ Chances(j)' \in Nat
BY DEF TypeOK, Faults, Chances

\* One step: work is committed, calls open and close, chances come and go, and
\* faults pay for the difference.
LEMMA Account ==
  ASSUME TypeOK, TypeOK', NEW j \in Jobs, Paid(j),
         IsFiniteSet(committed'[j]), IsFiniteSet(Open(j)'),
         Cardinality(committed'[j]) + Cardinality(Open(j)') + Chances(j)' + faults.count
           <= Cardinality(committed[j]) + Cardinality(Open(j)) + Chances(j) + faults'.count
  PROVE  Paid(j)'
<1>1. /\ Cardinality(committed[j]) \in Nat
      /\ Cardinality(Open(j)) \in Nat
      /\ Cardinality(committed'[j]) \in Nat
      /\ Cardinality(Open(j)') \in Nat
  BY FS_CardinalityType DEF Paid
<1>2. Cardinality(committed'[j]) + Cardinality(Open(j)') + Chances(j)' <= 1 + faults'.count
  BY <1>1, Numbers DEF Paid
<1> QED
  BY <1>2 DEF Paid

\* Nothing is committed and no call is opened.
LEMMA NoWork ==
  ASSUME TypeOK, TypeOK', NEW j \in Jobs, Paid(j),
         committed'[j] = committed[j], Open(j)' \subseteq Open(j),
         Chances(j)' + faults.count <= Chances(j) + faults'.count
  PROVE  Paid(j)'
<1>1. /\ IsFiniteSet(committed'[j])
      /\ Cardinality(committed[j]) \in Nat
      /\ Cardinality(committed'[j]) = Cardinality(committed[j])
  BY FS_CardinalityType DEF Paid
<1>2. /\ IsFiniteSet(Open(j)')
      /\ Cardinality(Open(j)') <= Cardinality(Open(j))
      /\ Cardinality(Open(j)') \in Nat
      /\ Cardinality(Open(j)) \in Nat
  BY FS_CardinalityType, FS_Subset DEF Paid
<1> QED
  BY <1>1, <1>2, Numbers, Account

\* One element more makes a set larger by at most one.
LEMMA OneMore ==
  ASSUME NEW S, NEW x, IsFiniteSet(S)
  PROVE  /\ IsFiniteSet(S \cup {x})
         /\ Cardinality(S \cup {x}) <= Cardinality(S) + 1
<1>1. Cardinality(S) \in Nat
  BY FS_CardinalityType
<1>2. /\ IsFiniteSet(S \cup {x})
      /\ Cardinality(S \cup {x}) = IF x \in S THEN Cardinality(S) ELSE Cardinality(S) + 1
  BY FS_AddElement
<1> QED
  BY <1>1, <1>2

\* What becomes of the open calls when a call proceeds.
LEMMA ProceedOpens ==
  ASSUME NEW j \in Jobs, IsFiniteSet(Open(j)), NEW e \in executions, e \in Execution,
         NEW p \in {"done", "failed"}, Proceed(e, p)
  PROVE  /\ IsFiniteSet(Open(j)')
         /\ e.job # j => Open(j)' = Open(j)
         /\ e.phase = "working" /\ p = "done" /\ e.job = j =>
               Cardinality(Open(j)') <= Cardinality(Open(j)) - 1
         /\ e.phase = "working" /\ p = "failed" => Cardinality(Open(j)') <= Cardinality(Open(j))
         /\ Cardinality(Open(j)') <= Cardinality(Open(j)) + 1
<1> DEFINE next == [e EXCEPT !.phase = p]
<1>1. /\ next.job = e.job
      /\ next.phase = p
      /\ executions' = (executions \ {e}) \cup {next}
  BY DEF Proceed, Execution
<1>2. Cardinality(Open(j)) \in Nat
  BY FS_CardinalityType
<1> HIDE DEF next
<1>3. CASE e.job # j
  <2>1. Open(j)' = Open(j)
    BY <1>1, <1>3 DEF Open
  <2> QED
    BY <1>2, <1>3, <2>1
<1>4. CASE e.job = j /\ p = "done"
  <2>1. Open(j)' = Open(j) \ {e}
    BY <1>1, <1>4 DEF Open
  <2>2. /\ IsFiniteSet(Open(j)')
        /\ Cardinality(Open(j)') = IF e \in Open(j) THEN Cardinality(Open(j)) - 1
                                   ELSE Cardinality(Open(j))
    BY <2>1, FS_RemoveElement
  <2>3. e.phase = "working" => e \in Open(j)
    BY <1>4 DEF Open
  <2> QED
    BY <1>2, <1>4, <2>2, <2>3
<1>5. CASE e.job = j /\ p = "failed"
  <2> DEFINE rest == Open(j) \ {e}
  <2>1. Open(j)' = rest \cup {next}
    BY <1>1, <1>5 DEF Open
  <2>2. /\ IsFiniteSet(rest)
        /\ Cardinality(rest) = IF e \in Open(j) THEN Cardinality(Open(j)) - 1
                               ELSE Cardinality(Open(j))
    BY FS_RemoveElement
  <2>3. e.phase = "working" => e \in Open(j)
    BY <1>5 DEF Open
  <2> HIDE DEF rest
  <2>4. /\ IsFiniteSet(Open(j)')
        /\ Cardinality(Open(j)') <= Cardinality(rest) + 1
    BY <2>1, <2>2, OneMore
  <2>5. Cardinality(rest) \in Int /\ Cardinality(Open(j)') \in Int
    BY <2>2, <2>4, FS_CardinalityType
  <2> QED
    BY <1>2, <1>5, <2>2, <2>3, <2>4, <2>5
<1> QED
  BY <1>3, <1>4, <1>5

\* A job whose row, heartbeats and readers stay has the chances it had.
LEMMA SameChances ==
  ASSUME NEW j \in Jobs, background_jobs'[j] = background_jobs[j],
         j >= nextJob' => j >= nextJob,
         Listed(j)' => Listed(j),
         \A w \in Workers : Beats(w, j) => Beats(w, j)'
  PROVE  Chances(j)' <= Chances(j)
<1>1. Awaited(j)' => Awaited(j)
  BY DEF Awaited, Claimable
<1>2. Returning(j)' => Returning(j)
  BY DEF Returning, Lost
<1> QED
  BY <1>1, <1>2 DEF Chances

\* A call that works commits, or fails; one that is done fails to complete.
LEMMA ProceedPaid ==
  ASSUME IInv, IInv', NEW j \in Jobs, Paid(j), NEW e \in executions,
         CommitWork(e) \/ WorkFails(e) \/ CompleteFails(e)
  PROVE  Paid(j)'
<1> USE DEF IInv
<1>1. UNCHANGED <<nextJob, background_jobs, orphaned, process, activeJobs>>
  BY DEF CommitWork, WorkFails, CompleteFails, tables
<1>2. Chances(j)' <= Chances(j)
  <2>1. Listed(j)' => Listed(j)
    BY <1>1 DEF Listed
  <2>2. \A w \in Workers : Beats(w, j) => Beats(w, j)'
    BY <1>1 DEF Beats
  <2> QED
    BY <1>1, <2>1, <2>2, SameChances
<1>3. e \in Execution
  BY DEF TypeOK
<1>4. /\ Chances(j) \in Nat /\ Chances(j)' \in Nat
      /\ faults.count \in Nat /\ faults'.count \in Nat
      /\ IsFiniteSet(committed[j]) /\ IsFiniteSet(Open(j))
  BY DEF Chances, TypeOK, Faults, Paid
<1>5. /\ Cardinality(committed[j]) \in Nat
      /\ Cardinality(Open(j)) \in Nat
  BY <1>4, FS_CardinalityType
<1>6. CASE CommitWork(e) /\ e.job = j
  <2>1. committed'[j] = committed[j] \cup {e.attempts}
    BY <1>6 DEF CommitWork, TypeOK
  <2>2. /\ IsFiniteSet(committed'[j])
        /\ Cardinality(committed'[j]) \in Nat
        /\ Cardinality(committed'[j]) <= Cardinality(committed[j]) + 1
    <3> DEFINE old == committed[j]
    <3>1. IsFiniteSet(old)
      BY <1>4
    <3> HIDE DEF old
    <3>2. IsFiniteSet(old \cup {e.attempts}) /\ Cardinality(old \cup {e.attempts}) <= Cardinality(old) + 1
      BY <3>1, OneMore
    <3>3. Cardinality(old \cup {e.attempts}) \in Nat
      BY <3>2, FS_CardinalityType
    <3> QED
      BY <2>1, <3>2, <3>3 DEF old
  <2>3. CASE Proceed(e, "done") /\ UNCHANGED faults
    <3>1. IsFiniteSet(Open(j)') /\ Cardinality(Open(j)') <= Cardinality(Open(j)) - 1
      BY <1>3, <1>4, <1>6, <2>3, ProceedOpens DEF CommitWork
    <3>2. Cardinality(Open(j)') \in Nat
      BY <3>1, FS_CardinalityType
    <3> QED
      BY <1>2, <1>4, <1>5, <2>2, <2>3, <3>1, <3>2, Account
  <2>4. CASE Proceed(e, "failed") /\ Fault("ack_lost")
    <3>1. IsFiniteSet(Open(j)') /\ Cardinality(Open(j)') <= Cardinality(Open(j))
      BY <1>3, <1>4, <1>6, <2>4, ProceedOpens DEF CommitWork
    <3>2. Cardinality(Open(j)') \in Nat /\ faults'.count = faults.count + 1
      BY <2>4, <3>1, FS_CardinalityType DEF Fault
    <3> QED
      BY <1>2, <1>4, <1>5, <2>2, <3>1, <3>2, Account
  <2> QED
    BY <1>6, <2>3, <2>4 DEF CommitWork
<1>7. CASE (WorkFails(e) \/ CompleteFails(e)) /\ e.job = j
  <2>1. Proceed(e, "failed") /\ committed' = committed
    BY <1>7 DEF WorkFails, CompleteFails
  <2>2. IsFiniteSet(Open(j)') /\ Cardinality(Open(j)') \in Nat
    BY <1>3, <1>4, <2>1, ProceedOpens, FS_CardinalityType
  <2>3. CASE WorkFails(e)
    <3>1. Cardinality(Open(j)') <= Cardinality(Open(j)) /\ faults' = faults
      BY <1>3, <1>4, <2>1, <2>3, ProceedOpens DEF WorkFails
    <3> QED
      BY <1>2, <1>4, <1>5, <2>1, <2>2, <3>1, Account
  <2>4. CASE CompleteFails(e)
    <3>1. Cardinality(Open(j)') <= Cardinality(Open(j)) + 1 /\ faults'.count = faults.count + 1
      BY <1>3, <1>4, <2>1, <2>4, ProceedOpens DEF CompleteFails, Fault
    <3> QED
      BY <1>2, <1>4, <1>5, <2>1, <2>2, <3>1, Account
  <2> QED
    BY <1>7, <2>3, <2>4
<1>8. CASE e.job # j
  <2>1. committed'[j] = committed[j]
    BY <1>3, <1>8 DEF CommitWork, WorkFails, CompleteFails, TypeOK, Execution
  <2>2. Open(j)' = Open(j)
    BY <1>3, <1>4, <1>8, ProceedOpens DEF CommitWork, WorkFails, CompleteFails
  <2>3. faults.count <= faults'.count
    BY <1>4 DEF CommitWork, WorkFails, CompleteFails, Fault
  <2> QED
    BY <1>2, <1>4, <2>1, <2>2, <2>3, NoWork
<1> QED
  BY <1>6, <1>7, <1>8

\* A claim turns a chance into a call.
LEMMA ClaimPaid ==
  ASSUME IInv, IInv', NEW j \in Jobs, Paid(j), NEW w \in Workers, NEW k \in Jobs, Claim(w, k)
  PROVE  Paid(j)'
<1> USE DEF IInv
<1>1. /\ nextJob' = nextJob /\ orphaned' = orphaned /\ process' = process
      /\ committed' = committed /\ faults' = faults
      /\ background_jobs' = [background_jobs EXCEPT ![k] = Claimed(@, w)]
      /\ activeJobs' = [activeJobs EXCEPT ![w] = @ \cup {k}]
      /\ process[w] = "up" /\ Claimable(k)
  BY DEF Claim, First
<1>2. CASE j # k
  <2>1. Open(j)' \subseteq Open(j)
    BY <1>2 DEF Claim, Open
  <2>2. background_jobs'[j] = background_jobs[j]
    BY <1>1, <1>2 DEF TypeOK
  <2>3. \A x \in Workers : Beats(x, j) => Beats(x, j)'
    BY <1>1, <2>2 DEF Beats, TypeOK
  <2>4. Chances(j)' <= Chances(j)
    BY <1>1, <2>2, <2>3, SameChances DEF Listed
  <2> QED
    BY <1>1, <2>1, <2>4, Numbers, NoWork
<1>3. CASE j = k
  <2> DEFINE call == [ job |-> k, worker |-> w, attempts |-> background_jobs'[k].attempts,
                       phase |-> "working" ]
  <2>1. Open(j)' = Open(j) \cup {call}
    BY <1>3 DEF Claim, Open
  <2> HIDE DEF call
  <2>2. /\ IsFiniteSet(Open(j)')
        /\ Cardinality(Open(j)') <= Cardinality(Open(j)) + 1
    BY <2>1, OneMore DEF Paid
  <2>3. Awaited(j) /\ ~Awaited(j)'
    <3>1. k < nextJob
      BY <1>1 DEF OneHome, Queued, Claimable
    <3>2. background_jobs'[k].status = "RUNNING"
      BY <1>1 DEF TypeOK, Claimed, Row
    <3> QED
      BY <1>1, <1>3, <3>1, <3>2 DEF Awaited, Claimable, TypeOK, Jobs
  <2>4. Returning(j)' => Returning(j)
    <3>1. /\ background_jobs'[k].status = "RUNNING"
          /\ background_jobs'[k].owner = w
          /\ background_jobs'[k].stale = FALSE
      BY <1>1 DEF TypeOK, Claimed, Row
    <3>2. k \in activeJobs'[w]
      BY <1>1 DEF TypeOK
    <3>3. Beats(w, k)'
      BY <1>1, <3>1, <3>2 DEF Beats
    <3>4. Listed(j)' => Listed(j)
      BY <1>1 DEF Listed
    <3> QED
      BY <1>3, <3>1, <3>3, <3>4 DEF Returning, Lost
  <2>5. Chances(j)' + 1 <= Chances(j)
    BY <2>3, <2>4 DEF Chances
  <2>6. /\ Cardinality(Open(j)) \in Nat /\ Cardinality(Open(j)') \in Nat
        /\ Cardinality(committed[j]) \in Nat
    BY <2>2, FS_CardinalityType DEF Paid
  <2>7. IsFiniteSet(committed'[j])
    BY <1>1 DEF Paid
  <2> QED
    BY <1>1, <2>2, <2>5, <2>6, <2>7, Numbers, Account
<1> QED
  BY <1>2, <1>3

\* A completed job is up again only if a recovery has read its row.
LEMMA CompletePaid ==
  ASSUME IInv, IInv', NEW j \in Jobs, Paid(j), NEW e \in executions, Complete(e)
  PROVE  Paid(j)'
<1> USE DEF IInv
<1>1. /\ nextJob' = nextJob /\ orphaned' = orphaned /\ process' = process
      /\ committed' = committed
      /\ background_jobs' = [background_jobs EXCEPT ![e.job] = Completed(@)]
      /\ e.phase = "done"
  BY DEF Complete
<1>2. e \in Execution /\ e.job \in Jobs
  BY DEF TypeOK, Execution
<1>3. Listed(j)' => Listed(j)
  BY <1>1 DEF Listed
<1>4. Chances(j)' <= Chances(j)
  <2>1. CASE j = e.job
    <3>1. background_jobs'[j].status \in {"COMPLETED", "ABSENT"}
      BY <1>1, <1>2, <2>1 DEF TypeOK, Completed, Row
    <3>2. Awaited(j)' => Awaited(j)
      BY <1>1, <3>1 DEF Awaited, Claimable
    <3>3. Returning(j)' => Returning(j)
      BY <1>3, <3>1 DEF Returning, Lost
    <3> QED
      BY <3>2, <3>3 DEF Chances
  <2>2. CASE j # e.job
    <3>1. background_jobs'[j] = background_jobs[j]
      BY <1>1, <1>2, <2>2 DEF TypeOK
    <3>2. \A w \in Workers : Beats(w, j) => Beats(w, j)'
      BY <1>1, <1>2, <2>2, <3>1 DEF Beats, TypeOK, Complete, Return
    <3> QED
      BY <1>1, <1>3, <3>1, <3>2, SameChances
  <2> QED
    BY <2>1, <2>2
<1>5. CASE Return(e) /\ UNCHANGED faults
  <2>1. Open(j)' \subseteq Open(j)
    BY <1>5 DEF Return, Open
  <2> QED
    BY <1>1, <1>4, <1>5, <2>1, Numbers, NoWork
<1>6. CASE Proceed(e, "failed") /\ Fault("ack_lost")
  <2>1. /\ IsFiniteSet(Open(j)')
        /\ Cardinality(Open(j)') <= Cardinality(Open(j)) + 1
    BY <1>2, <1>6, ProceedOpens DEF Paid
  <2>2. /\ Cardinality(Open(j)) \in Nat /\ Cardinality(Open(j)') \in Nat
        /\ Cardinality(committed[j]) \in Nat
        /\ IsFiniteSet(committed'[j])
    BY <1>1, <2>1, FS_CardinalityType DEF Paid
  <2>3. faults'.count = faults.count + 1
    BY <1>6 DEF Fault
  <2> QED
    BY <1>1, <1>4, <2>1, <2>2, <2>3, Numbers, Account
<1> QED
  BY <1>5, <1>6 DEF Complete

\* Whoever resets or buries a job takes it from those who can claim it; rows that
\* are not read stay.
LEMMA SettledChances ==
  ASSUME TypeOK, NEW j \in Jobs, NEW read, Settle(read), nextJob' = nextJob,
         Listed(j)' => Listed(j)
  PROVE  /\ Awaited(j)' => Awaited(j)
         /\ (\A x \in read : x.job_id # j) => background_jobs'[j] = background_jobs[j]
<1>1. j \in Spent(read) => \E x \in read : x.job_id = j
  BY DEF Spent
<1>2. (\A x \in read : x.job_id # j) => background_jobs'[j] = background_jobs[j]
  BY <1>1 DEF Settle
<1>3. CASE \E x \in read : x.job_id = j
  <2>1. background_jobs'[j] = AbsentRow \/ background_jobs'[j] = Failed(background_jobs[j])
    BY <1>3 DEF Settle
  <2>2. background_jobs[j] \in Row
    BY DEF TypeOK
  <2>3. background_jobs'[j].status = "ABSENT" \/ background_jobs'[j].due = FALSE
    <3> DEFINE row == background_jobs[j]
    <3>1. row \in Row
      BY <2>2
    <3> HIDE DEF row
    <3>2. Failed(row).status = "ABSENT" \/ Failed(row).due = FALSE
      BY <3>1 DEF Failed, Row
    <3> QED
      BY <2>1, <3>2 DEF row, AbsentRow
  <2>4. ~Claimable(j)'
    BY <2>3 DEF Claimable
  <2> QED
    BY <1>3, <2>4 DEF Awaited
<1>4. CASE \A x \in read : x.job_id # j
  BY <1>2, <1>4 DEF Awaited, Claimable
<1> QED
  BY <1>2, <1>3, <1>4

\* A call that failed leaves its job to the next attempt.
LEMMA RecordFailurePaid ==
  ASSUME IInv, IInv', NEW j \in Jobs, Paid(j), NEW e \in executions, RecordFailure(e)
  PROVE  Paid(j)'
<1> USE DEF IInv
<1> DEFINE read == {[job_id |-> e.job, attempts |-> e.attempts]}
<1>1. /\ nextJob' = nextJob /\ orphaned' = orphaned /\ process' = process
      /\ committed' = committed /\ faults' = faults
      /\ e.phase = "failed" /\ Settle(read)
      /\ executions' = executions \ {e}
      /\ activeJobs' = [activeJobs EXCEPT ![e.worker] = @ \ {e.job}]
  BY DEF RecordFailure, Return
<1>2. e \in Execution /\ e.job \in Jobs
  BY DEF TypeOK, Execution
<1>3. Listed(j)' => Listed(j)
  BY <1>1 DEF Listed
<1>4. \A x \in read : x.job_id = e.job
  OBVIOUS
<1> HIDE DEF read
<1>5. /\ Awaited(j)' => Awaited(j)
      /\ j # e.job => background_jobs'[j] = background_jobs[j]
  BY <1>1, <1>3, <1>4, SettledChances
<1>6. CASE j = e.job
  <2>1. Open(j)' = Open(j) \ {e} /\ e \in Open(j)
    BY <1>1, <1>6 DEF Open
  <2>2. /\ IsFiniteSet(Open(j)')
        /\ Cardinality(Open(j)') = Cardinality(Open(j)) - 1
    BY <2>1, FS_RemoveElement DEF Paid
  <2>3. Chances(j)' <= Chances(j) + 1
    BY <1>5 DEF Chances
  <2>4. /\ Cardinality(Open(j)) \in Nat /\ Cardinality(Open(j)') \in Nat
        /\ Cardinality(committed[j]) \in Nat
        /\ IsFiniteSet(committed'[j])
    BY <1>1, <2>2, FS_CardinalityType DEF Paid
  <2> QED
    BY <1>1, <2>2, <2>3, <2>4, Numbers, Account
<1>7. CASE j # e.job
  <2>1. Open(j)' \subseteq Open(j)
    BY <1>1 DEF Open
  <2>2. \A w \in Workers : Beats(w, j) => Beats(w, j)'
    BY <1>1, <1>2, <1>5, <1>7 DEF Beats, TypeOK
  <2>3. Chances(j)' <= Chances(j)
    BY <1>1, <1>3, <1>5, <1>7, <2>2, SameChances
  <2> QED
    BY <1>1, <2>1, <2>3, Numbers, NoWork
<1> QED
  BY <1>6, <1>7

\* A recovery resets jobs that it has read, so that each of them has its chance already.
LEMMA ResetOrphansPaid ==
  ASSUME IInv, IInv', NEW j \in Jobs, Paid(j), NEW w \in Workers, ResetOrphans(w)
  PROVE  Paid(j)'
<1> USE DEF IInv
<1>1. /\ nextJob' = nextJob /\ process' = process
      /\ committed' = committed /\ faults' = faults
      /\ executions' = executions /\ activeJobs' = activeJobs
      /\ Settle(orphaned[w])
      /\ orphaned' = [orphaned EXCEPT ![w] = {}]
  BY DEF ResetOrphans, calls
<1>2. Listed(j)' => Listed(j)
  BY <1>1 DEF Listed, TypeOK
<1>3. /\ Awaited(j)' => Awaited(j)
      /\ ~Listed(j) => background_jobs'[j] = background_jobs[j]
  BY <1>1, <1>2, SettledChances DEF Listed
<1>4. Chances(j)' <= Chances(j)
  <2>1. CASE Listed(j)
    BY <1>3, <2>1 DEF Chances, Returning
  <2>2. CASE ~Listed(j)
    <3>1. \A x \in Workers : Beats(x, j) => Beats(x, j)'
      BY <1>1, <1>3, <2>2 DEF Beats
    <3> QED
      BY <1>1, <1>2, <1>3, <2>2, <3>1, SameChances
  <2> QED
    BY <2>1, <2>2
<1>5. Open(j)' \subseteq Open(j)
  BY <1>1 DEF Open
<1> QED
  BY <1>1, <1>4, <1>5, Numbers, NoWork

\* Enqueueing a job makes it the chance it was expected to be.
LEMMA EnqueuePaid ==
  ASSUME IInv, IInv', NEW j \in Jobs, Paid(j), Enqueue
  PROVE  Paid(j)'
<1> USE DEF IInv
<1>1. /\ nextJob \in Jobs /\ nextJob' = nextJob + 1
      /\ orphaned' = orphaned /\ process' = process
      /\ committed' = committed /\ faults' = faults
      /\ executions' = executions /\ activeJobs' = activeJobs
      /\ background_jobs' = [background_jobs EXCEPT
            ![nextJob] = [AbsentRow EXCEPT !.status = "PENDING", !.due = TRUE]]
  BY DEF Enqueue, calls, TypeOK, Jobs
<1>2. Listed(j)' => Listed(j)
  BY <1>1 DEF Listed
<1>3. Chances(j)' <= Chances(j)
  <2>1. CASE j = nextJob
    <3>1. background_jobs'[j].status = "PENDING"
      BY <1>1, <2>1 DEF TypeOK, AbsentRow
    <3>2. Returning(j)' => Returning(j)
      BY <1>2, <3>1 DEF Returning, Lost
    <3>3. Awaited(j)
      BY <2>1 DEF Awaited, Jobs
    <3> QED
      BY <3>2, <3>3 DEF Chances
  <2>2. CASE j # nextJob
    <3>1. background_jobs'[j] = background_jobs[j]
      BY <1>1, <2>2 DEF TypeOK
    <3>2. j >= nextJob' => j >= nextJob
      BY <1>1 DEF Jobs
    <3>3. \A w \in Workers : Beats(w, j) => Beats(w, j)'
      BY <1>1, <3>1 DEF Beats
    <3> QED
      BY <1>2, <3>1, <3>2, <3>3, SameChances
  <2> QED
    BY <2>1, <2>2
<1>4. Open(j)' \subseteq Open(j)
  BY <1>1 DEF Open
<1> QED
  BY <1>1, <1>3, <1>4, Numbers, NoWork

\* A row turns stale, or comes up again, for free only if it is already lost or
\* waits for its backoff.
LEMMA ClockPaid ==
  ASSUME IInv, IInv', NEW j \in Jobs, Paid(j), NEW k \in Jobs,
         HeartbeatExpires(k) \/ BackoffExpires(k)
  PROVE  Paid(j)'
<1> USE DEF IInv
<1>1. /\ nextJob' = nextJob /\ orphaned' = orphaned /\ process' = process
      /\ committed' = committed
      /\ executions' = executions /\ activeJobs' = activeJobs
      /\ faults' = faults \/ faults'.count = faults.count + 1
  BY DEF HeartbeatExpires, BackoffExpires, calls, Fault
<1>2. Listed(j)' <=> Listed(j)
  BY <1>1 DEF Listed
<1>3. Open(j)' \subseteq Open(j)
  BY <1>1 DEF Open
<1>4. CASE j # k
  <2>1. background_jobs'[j] = background_jobs[j]
    BY <1>4 DEF TypeOK, HeartbeatExpires, BackoffExpires
  <2>2. \A w \in Workers : Beats(w, j) => Beats(w, j)'
    BY <1>1, <2>1 DEF Beats
  <2>3. Chances(j)' <= Chances(j)
    BY <1>1, <1>2, <2>1, <2>2, SameChances
  <2> QED
    BY <1>1, <1>3, <2>3, Numbers, NoWork
<1>5. CASE j = k /\ HeartbeatExpires(k)
  <2>1. background_jobs[j].status = "RUNNING" /\ background_jobs'[j].status = "RUNNING"
    BY <1>5 DEF HeartbeatExpires, TypeOK, Row
  <2>2. Awaited(j)' => Awaited(j)
    BY <1>1, <2>1 DEF Awaited, Claimable
  <2>3. faults' = faults => Returning(j)
    <3>1. SUFFICES ASSUME faults' = faults, \E w \in Workers : Beats(w, j)
                   PROVE FALSE
      BY <2>1 DEF Returning, Lost
    <3>2. faults'.count = faults.count + 1
      BY <1>5, <3>1 DEF HeartbeatExpires, Fault
    <3> QED
      BY <3>1, <3>2, Numbers
  <2>4. Chances(j)' + faults.count <= Chances(j) + faults'.count
    BY <1>1, <2>2, <2>3, Numbers DEF Chances
  <2> QED
    BY <1>1, <1>3, <2>4, NoWork
<1>6. CASE j = k /\ BackoffExpires(k)
  <2>1. /\ background_jobs[j].status = "RETRYING" /\ ~background_jobs[j].due
        /\ background_jobs'[j].status = "RETRYING" /\ background_jobs'[j].due
    BY <1>6 DEF BackoffExpires, TypeOK, Row
  <2>2. Returning(j)
    BY <2>1 DEF Returning
  <2>3. Returning(j)' => Listed(j)
    BY <1>2, <2>1 DEF Returning, Lost
  <2>4. faults' = faults => ~Listed(j)
    <3>1. SUFFICES ASSUME faults' = faults, Listed(j) PROVE FALSE
      OBVIOUS
    <3>2. faults'.count = faults.count + 1
      BY <1>6, <3>1 DEF BackoffExpires, Unfinished, Fault
    <3> QED
      BY <3>1, <3>2, Numbers
  <2>5. Chances(j)' + faults.count <= Chances(j) + faults'.count
    BY <1>1, <2>2, <2>3, <2>4, Numbers DEF Chances
  <2> QED
    BY <1>1, <1>3, <2>5, NoWork
<1> QED
  BY <1>4, <1>5, <1>6

\* Processes start, send heartbeats, look for orphans, stop, exit and die.
LEMMA ProcessPaid ==
  ASSUME IInv, IInv', NEW j \in Jobs, Paid(j), NEW w \in Workers,
         \/ Start(w) \/ Stop(w) \/ Exit(w) \/ Crash(w)
         \/ Heartbeat(w) \/ FindOrphanedJobs(w) \/ RecoveryFails(w)
  PROVE  Paid(j)'
<1> USE DEF IInv
<1>1. /\ nextJob' = nextJob /\ committed' = committed
      /\ Open(j)' \subseteq Open(j)
  BY DEF Start, Stop, Exit, Crash, Vanish, Heartbeat, FindOrphanedJobs, RecoveryFails,
         tables, calls, Open
<1>2. CASE Start(w)
  <2>1. \A x \in Workers : Beats(x, j) => Beats(x, j)'
    BY <1>2 DEF Start, tables, calls, Beats, TypeOK
  <2>2. Chances(j)' <= Chances(j)
    BY <1>1, <1>2, <2>1, SameChances DEF Start, tables, Listed
  <2> QED
    BY <1>1, <1>2, <2>2, Numbers, NoWork DEF Start
<1>3. CASE Stop(w) \/ Crash(w)
  <2>1. /\ background_jobs' = background_jobs
        /\ faults'.count = faults.count + 1
    BY <1>3 DEF Stop, Crash, Vanish, tables, Fault
  <2>2. Awaited(j)' => Awaited(j)
    BY <1>1, <2>1 DEF Awaited, Claimable
  <2>3. Chances(j)' <= Chances(j) + 1
    BY <2>2 DEF Chances
  <2> QED
    BY <1>1, <2>1, <2>3, Numbers, NoWork
<1>4. CASE Exit(w)
  <2>1. \A x \in Workers : Beats(x, j) => Beats(x, j)'
    BY <1>4 DEF Exit, Vanish, tables, Beats, TypeOK
  <2>2. Listed(j)' => Listed(j)
    BY <1>4 DEF Exit, Vanish, Listed, TypeOK
  <2>3. Chances(j)' <= Chances(j)
    BY <1>1, <1>4, <2>1, <2>2, SameChances DEF Exit, Vanish, tables
  <2> QED
    BY <1>1, <1>4, <2>3, Numbers, NoWork DEF Exit
<1>5. CASE Heartbeat(w)
  <2>1. /\ background_jobs'[j].status = background_jobs[j].status
        /\ background_jobs'[j].due = background_jobs[j].due
        /\ background_jobs'[j].owner = background_jobs[j].owner
        /\ background_jobs'[j].stale => background_jobs[j].stale
    BY <1>5 DEF Heartbeat, TypeOK, Row
  <2>2. \A x \in Workers : Beats(x, j) => Beats(x, j)'
    BY <1>5, <2>1 DEF Heartbeat, calls, Beats
  <2>3. Listed(j)' => Listed(j)
    BY <1>5 DEF Heartbeat, Listed
  <2>4. (Awaited(j)' => Awaited(j)) /\ (Returning(j)' => Returning(j))
    BY <1>1, <2>1, <2>2, <2>3 DEF Awaited, Claimable, Returning, Lost
  <2>5. Chances(j)' <= Chances(j)
    BY <2>4 DEF Chances
  <2> QED
    BY <1>1, <1>5, <2>5, Numbers, NoWork DEF Heartbeat
<1>6. CASE FindOrphanedJobs(w)
  <2>1. /\ background_jobs' = background_jobs /\ faults' = faults
        /\ process' = process /\ activeJobs' = activeJobs
    BY <1>6 DEF FindOrphanedJobs, tables, calls
  <2>2. Listed(j)' => Listed(j) \/ Lost(j)
    BY <1>6 DEF FindOrphanedJobs, Listed, Lost, TypeOK
  <2>3. (Awaited(j)' => Awaited(j)) /\ (Lost(j)' => Lost(j))
    BY <1>1, <2>1 DEF Awaited, Claimable, Lost, Beats
  <2>4. Returning(j)' => Returning(j)
    BY <2>1, <2>2, <2>3 DEF Returning
  <2>5. Chances(j)' <= Chances(j)
    BY <2>3, <2>4 DEF Chances
  <2> QED
    BY <1>1, <2>1, <2>5, Numbers, NoWork
<1>7. CASE RecoveryFails(w)
  <2>1. \A x \in Workers : Beats(x, j) => Beats(x, j)'
    BY <1>7 DEF RecoveryFails, tables, calls, Beats
  <2>2. Listed(j)' => Listed(j)
    BY <1>7 DEF RecoveryFails, Listed, TypeOK
  <2>3. Chances(j)' <= Chances(j)
    BY <1>1, <1>7, <2>1, <2>2, SameChances DEF RecoveryFails, tables
  <2>4. faults.count <= faults'.count
    BY <1>7, Numbers DEF RecoveryFails, Fault
  <2> QED
    BY <1>1, <2>3, <2>4, Numbers, NoWork
<1> QED
  BY <1>2, <1>3, <1>4, <1>5, <1>6, <1>7

\* Errors whose own fault pays for what they leave behind.
LEMMA LostAnswerPaid ==
  ASSUME IInv, IInv', NEW j \in Jobs, Paid(j),
         \/ \E w \in Workers, k \in Jobs : ClaimAckLost(w, k)
         \/ \E e \in executions : RecordFailureFails(e)
  PROVE  Paid(j)'
<1> USE DEF IInv
<1>1. /\ committed' = committed /\ faults'.count = faults.count + 1
      /\ Open(j)' \subseteq Open(j)
      /\ nextJob' = nextJob
  BY DEF ClaimAckLost, RecordFailureFails, Return, Fault, tables, calls, Open
<1>2. Awaited(j)' => Awaited(j)
  <2>1. CASE \E w \in Workers, k \in Jobs : ClaimAckLost(w, k)
    <3>1. PICK w \in Workers, k \in Jobs : ClaimAckLost(w, k)
      BY <2>1
    <3>2. background_jobs' = [background_jobs EXCEPT ![k] = Claimed(@, w)] /\ Claimable(k)
      BY <3>1 DEF ClaimAckLost, First
    <3>3. CASE j = k
      BY <3>2, <3>3 DEF Awaited
    <3>4. CASE j # k
      BY <1>1, <3>2, <3>4 DEF Awaited, Claimable, TypeOK
    <3> QED
      BY <3>3, <3>4
  <2>2. CASE \E e \in executions : RecordFailureFails(e)
    BY <1>1, <2>2 DEF RecordFailureFails, tables, Awaited, Claimable
  <2> QED
    BY <2>1, <2>2
<1>3. Chances(j)' <= Chances(j) + 1
  BY <1>2 DEF Chances
<1> QED
  BY <1>1, <1>3, Numbers, NoWork

\* The inductive invariant.
RepeatsInv == IInv /\ \A j \in Jobs : Paid(j)

\* The initial state satisfies the invariant, and every step keeps it.
LEMMA InitRepeats == Init => RepeatsInv
<1> SUFFICES ASSUME Init PROVE RepeatsInv
  OBVIOUS
<1>1. IInv
  BY InitIInv
<1>2. ASSUME NEW j \in Jobs PROVE Paid(j)
  <2>1. committed[j] = {} /\ Open(j) = {}
    BY DEF Init, Open
  <2>2. ~Returning(j)
    BY DEF Init, Returning, Listed, Lost, AbsentRow
  <2>3. Chances(j) <= 1 /\ faults.count = 0
    BY <2>2 DEF Chances, Init
  <2> QED
    BY <2>1, <2>3, FS_EmptySet DEF Paid, Chances
<1> QED
  BY <1>1, <1>2 DEF RepeatsInv

LEMMA NextRepeats == RepeatsInv /\ [Next]_vars => RepeatsInv'
<1> SUFFICES ASSUME RepeatsInv, [Next]_vars PROVE RepeatsInv'
  OBVIOUS
<1>1. IInv /\ IInv'
  BY NextIInv DEF RepeatsInv
<1>2. ASSUME NEW j \in Jobs PROVE Paid(j)'
  <2>1. Paid(j)
    BY DEF RepeatsInv
  <2>2. CASE Enqueue
    BY <1>1, <2>1, <2>2, EnqueuePaid
  <2>3. CASE \E w \in Workers :
                \/ Start(w) \/ Stop(w) \/ Exit(w) \/ Crash(w)
                \/ Heartbeat(w) \/ FindOrphanedJobs(w) \/ RecoveryFails(w)
    BY <1>1, <2>1, <2>3, ProcessPaid
  <2>4. CASE \E w \in Workers, k \in Jobs : Claim(w, k)
    BY <1>1, <2>1, <2>4, ClaimPaid
  <2>5. CASE \/ \E w \in Workers, k \in Jobs : ClaimAckLost(w, k)
             \/ \E e \in executions : RecordFailureFails(e)
    BY <1>1, <2>1, <2>5, LostAnswerPaid
  <2>6. CASE \E w \in Workers : ResetOrphans(w)
    BY <1>1, <2>1, <2>6, ResetOrphansPaid
  <2>7. CASE \E e \in executions : CommitWork(e) \/ WorkFails(e) \/ CompleteFails(e)
    BY <1>1, <2>1, <2>7, ProceedPaid
  <2>8. CASE \E e \in executions : Complete(e)
    BY <1>1, <2>1, <2>8, CompletePaid
  <2>9. CASE \E e \in executions : RecordFailure(e)
    BY <1>1, <2>1, <2>9, RecordFailurePaid
  <2>10. CASE \E k \in Jobs : HeartbeatExpires(k) \/ BackoffExpires(k)
    BY <1>1, <2>1, <2>10, ClockPaid
  <2>11. CASE UNCHANGED vars
    BY <2>1, <2>11 DEF vars, tables, calls, Paid, Open, Chances, Awaited, Claimable, Returning,
                       Listed, Lost, Beats
  <2> QED
    BY <2>2, <2>3, <2>4, <2>5, <2>6, <2>7, <2>8, <2>9, <2>10, <2>11 DEF Next, Work, Execute
<1> QED
  BY <1>1, <1>2 DEF RepeatsInv

\* However workers crash, stop, stall and lose answers, the work of a job is
\* committed at most once more than things went wrong.
THEOREM RepeatsArePaid == Spec => []RepeatsCostFaults
<1>1. RepeatsInv => RepeatsCostFaults
  <2> SUFFICES ASSUME RepeatsInv, NEW j \in Jobs
               PROVE  Cardinality(committed[j]) <= 1 + faults.count
    BY DEF RepeatsCostFaults
  <2>1. Paid(j) /\ faults.count \in Nat
    BY DEF RepeatsInv, IInv, TypeOK, Faults
  <2>2. Cardinality(committed[j]) \in Nat /\ Cardinality(Open(j)) \in Nat
    BY <2>1, FS_CardinalityType DEF Paid
  <2> QED
    BY <2>1, <2>2 DEF Paid, Chances
<1> QED
  BY <1>1, InitRepeats, NextRepeats, PTL DEF Spec

-----------------------------------------------------------------------------
(* While all is timely. *)

\* Only live processes have calls in progress, and recoveries read rows that
\* existed.
CallsTracked ==
    /\ \A e \in executions : process[e.worker] \in {"up", "draining"}
    /\ \A w \in Workers : \A o \in orphaned[w] : o.job_id < nextJob

\* Nobody can claim a job that a call executes or a recovery has read, and a
\* call of a worker that is up keeps its row from the recoveries.
CallsExclusive ==
    /\ \A e, f \in executions : e.job = f.job => e = f
    /\ \A j \in Jobs : Claimable(j) => ~Busy(j) /\ ~Listed(j)
    /\ \A e \in executions : process[e.worker] = "up" =>
          /\ e.job \in activeJobs[e.worker]
          /\ ~Listed(e.job)
          /\ \/ /\ background_jobs[e.job].status = "RUNNING"
                /\ background_jobs[e.job].owner = e.worker
                /\ ~background_jobs[e.job].stale
             \/ background_jobs[e.job].status = "COMPLETED" /\ e.phase = "failed"

\* What calls and recoveries know of the attempts of a job is what its row says.
ReadingsTrue ==
    /\ \A e \in executions :
          Queued(e.job) => e.attempts = background_jobs[e.job].attempts
    /\ \A w \in Workers : \A o \in orphaned[w] :
          Queued(o.job_id) => o.attempts = background_jobs[o.job_id].attempts

\* What can be claimed has an attempt left, and what is buried has none.
AttemptsLeft ==
    /\ \A j \in Jobs : background_jobs[j].attempts <= MaxAttempts
    /\ \A j \in Jobs : background_jobs[j].status \in {"PENDING", "RETRYING"} =>
          background_jobs[j].attempts < MaxAttempts
    /\ \A d \in dead_letter_jobs : d.attempts = MaxAttempts

Calm == CallsExclusive /\ ReadingsTrue /\ AttemptsLeft

\* The inductive invariant, together with IInv.
TimelyInv == CallsTracked /\ (Timely => Calm)

LEMMA InitTimely == Init => TimelyInv
<1> SUFFICES ASSUME Init PROVE TimelyInv
  OBVIOUS
<1> USE JobQueueAssumption DEF Init, AbsentRow
<1>1. CallsTracked
  BY DEF CallsTracked
<1>2. CallsExclusive /\ ReadingsTrue /\ AttemptsLeft
  BY DEF CallsExclusive, ReadingsTrue, AttemptsLeft, Claimable
<1> QED
  BY <1>1, <1>2 DEF TimelyInv, Calm

\* Steps that leave the tables alone and start nothing.
LEMMA QuietCalm ==
  ASSUME IInv, Calm, UNCHANGED tables,
         executions' \subseteq executions,
         \A w \in Workers : orphaned'[w] \subseteq orphaned[w],
         \A e \in executions' : process'[e.worker] = "up" =>
            /\ process[e.worker] = "up"
            /\ e.job \in activeJobs[e.worker] => e.job \in activeJobs'[e.worker]
  PROVE  Calm'
<1>1. /\ background_jobs' = background_jobs
      /\ dead_letter_jobs' = dead_letter_jobs
  BY DEF tables
<1>2. \A j \in Jobs : /\ Claimable(j)' <=> Claimable(j)
                      /\ Busy(j)' => Busy(j)
                      /\ Listed(j)' => Listed(j)
                      /\ Queued(j)' <=> Queued(j)
  BY <1>1 DEF Claimable, Busy, Listed, Queued
<1>3. \A e \in executions : e.job \in Jobs
  BY DEF IInv, TypeOK, Execution
<1>4. CallsExclusive'
  BY <1>1, <1>2, <1>3 DEF Calm, CallsExclusive
<1>5. \A w \in Workers : \A o \in orphaned[w] : o.job_id \in Jobs
  BY DEF IInv, TypeOK
<1>6. ReadingsTrue'
  BY <1>1, <1>2, <1>3, <1>5 DEF Calm, ReadingsTrue
<1>7. AttemptsLeft'
  BY <1>1 DEF Calm, AttemptsLeft
<1> QED
  BY <1>4, <1>6, <1>7 DEF Calm

LEMMA ProcessCalm ==
  ASSUME IInv, CallsTracked, Calm,
         \/ \E w \in Workers : Start(w) \/ Stop(w) \/ Exit(w) \/ Crash(w) \/ RecoveryFails(w)
         \/ UNCHANGED vars
  PROVE  Calm'
<1>1. UNCHANGED tables /\ executions' \subseteq executions
  BY DEF Start, Stop, Exit, Crash, Vanish, RecoveryFails, vars, calls
<1>2. \A w \in Workers : orphaned'[w] \subseteq orphaned[w]
  BY DEF Start, Stop, Exit, Crash, Vanish, RecoveryFails, vars, IInv, TypeOK
<1>3. \A e \in executions' : process'[e.worker] = "up" =>
          /\ process[e.worker] = "up"
          /\ e.job \in activeJobs[e.worker] => e.job \in activeJobs'[e.worker]
  <2> SUFFICES ASSUME NEW e \in executions', process'[e.worker] = "up"
               PROVE  /\ process[e.worker] = "up"
                      /\ e.job \in activeJobs[e.worker] => e.job \in activeJobs'[e.worker]
    OBVIOUS
  <2>1. e \in executions /\ e.worker \in Workers /\ process[e.worker] \in {"up", "draining"}
    BY <1>1 DEF CallsTracked, IInv, TypeOK, Execution
  <2>2. CASE \E w \in Workers : Exit(w) \/ Crash(w)
    BY <2>1, <2>2 DEF Exit, Crash, Vanish, IInv, TypeOK
  <2>3. CASE \E w \in Workers : Start(w) \/ Stop(w)
    BY <2>1, <2>3 DEF Start, Stop, calls, IInv, TypeOK
  <2>4. CASE (\E w \in Workers : RecoveryFails(w)) \/ UNCHANGED vars
    BY <2>1, <2>4 DEF RecoveryFails, vars, calls
  <2> QED
    BY <2>2, <2>3, <2>4
<1> QED
  BY <1>1, <1>2, <1>3, QuietCalm

LEMMA RecordFailureFailsCalm ==
  ASSUME IInv, Calm, NEW e \in executions, RecordFailureFails(e)
  PROVE  Calm'
<1>1. /\ UNCHANGED tables /\ UNCHANGED <<process, orphaned>>
      /\ executions' = executions \ {e}
      /\ activeJobs' = [activeJobs EXCEPT ![e.worker] = @ \ {e.job}]
  BY DEF RecordFailureFails, Return
<1>2. \A f \in executions' : f.job \in activeJobs[f.worker] => f.job \in activeJobs'[f.worker]
  BY <1>1 DEF Calm, CallsExclusive, IInv, TypeOK, Execution
<1> QED
  BY <1>1, <1>2, QuietCalm

\* A recovery reads rows that no worker beats for.
LEMMA FindOrphanedJobsCalm ==
  ASSUME IInv, Calm, NEW w \in Workers, FindOrphanedJobs(w)
  PROVE  Calm'
<1>1. /\ UNCHANGED <<tables, process, calls>>
      /\ \A v \in Workers : v # w => orphaned'[v] = orphaned[v]
      /\ \A o \in orphaned'[w] :
            /\ o.job_id \in Jobs
            /\ background_jobs[o.job_id].status = "RUNNING"
            /\ background_jobs[o.job_id].stale
            /\ o.attempts = background_jobs[o.job_id].attempts
  BY DEF FindOrphanedJobs, IInv, TypeOK
<1>2. \A j \in Jobs : Listed(j)' =>
        Listed(j) \/ (background_jobs[j].status = "RUNNING" /\ background_jobs[j].stale)
  BY <1>1 DEF Listed
<1>3. \A j \in Jobs : /\ Claimable(j)' <=> Claimable(j)
                      /\ Busy(j)' <=> Busy(j)
                      /\ Queued(j)' <=> Queued(j)
  BY <1>1 DEF Claimable, Busy, Queued, tables, calls
<1>4. \A e \in executions : e.job \in Jobs
  BY DEF IInv, TypeOK, Execution
<1>5. CallsExclusive'
  BY <1>1, <1>2, <1>3, <1>4 DEF Calm, CallsExclusive, Claimable, tables, calls
<1>6. ReadingsTrue'
  BY <1>1, <1>3, <1>4 DEF Calm, ReadingsTrue, tables, calls, IInv, TypeOK
<1>7. AttemptsLeft'
  BY <1>1 DEF Calm, AttemptsLeft, tables
<1> QED
  BY <1>5, <1>6, <1>7 DEF Calm

\* A call goes on.  Only the call of a worker that drains, or one that has
\* failed, does not own its row.
LEMMA ProceedCalm ==
  ASSUME IInv, Calm, NEW e \in executions, NEW p \in {"done", "failed"}, Proceed(e, p),
         e.phase \in {"working", "done"},
         UNCHANGED <<tables, process, activeJobs, orphaned>>
  PROVE  Calm'
<1> DEFINE g == [e EXCEPT !.phase = p]
<1>1. /\ executions' = (executions \ {e}) \cup {g}
      /\ g.job = e.job /\ g.worker = e.worker /\ g.attempts = e.attempts /\ g.phase = p
  BY DEF Proceed, IInv, TypeOK, Execution
<1> HIDE DEF g
<1>2. /\ background_jobs' = background_jobs /\ dead_letter_jobs' = dead_letter_jobs
      /\ UNCHANGED <<process, activeJobs, orphaned>>
  BY DEF tables
<1>3. \A j : Busy(j)' <=> Busy(j)
  BY <1>1 DEF Busy
<1>4. \A j \in Jobs : /\ Claimable(j)' <=> Claimable(j)
                      /\ Listed(j)' <=> Listed(j)
                      /\ Queued(j)' <=> Queued(j)
  BY <1>2 DEF Claimable, Listed, Queued
<1>5. \A f \in executions : f.job \in Jobs
  BY DEF IInv, TypeOK, Execution
<1>6. \A f, h \in executions' : f.job = h.job => f = h
  BY <1>1 DEF Calm, CallsExclusive
<1>7. \A f \in executions' : process'[f.worker] = "up" =>
          /\ f.job \in activeJobs'[f.worker]
          /\ ~Listed(f.job)'
          /\ \/ /\ background_jobs'[f.job].status = "RUNNING"
                /\ background_jobs'[f.job].owner = f.worker
                /\ ~background_jobs'[f.job].stale
             \/ background_jobs'[f.job].status = "COMPLETED" /\ f.phase = "failed"
  <2> SUFFICES ASSUME NEW f \in executions', process[f.worker] = "up"
               PROVE  /\ f.job \in activeJobs[f.worker]
                      /\ ~Listed(f.job)'
                      /\ \/ /\ background_jobs[f.job].status = "RUNNING"
                            /\ background_jobs[f.job].owner = f.worker
                            /\ ~background_jobs[f.job].stale
                         \/ background_jobs[f.job].status = "COMPLETED" /\ f.phase = "failed"
    BY <1>2
  <2>1. CASE f \in executions
    BY <1>4, <1>5, <2>1 DEF Calm, CallsExclusive
  <2>2. CASE f = g
    BY <1>1, <1>4, <1>5, <2>2 DEF Calm, CallsExclusive
  <2> QED
    BY <1>1, <2>1, <2>2
<1>8. CallsExclusive'
  BY <1>3, <1>4, <1>6, <1>7 DEF Calm, CallsExclusive
<1>9. \A f \in executions' : Queued(f.job)' => f.attempts = background_jobs'[f.job].attempts
  BY <1>1, <1>2, <1>4, <1>5 DEF Calm, ReadingsTrue
<1>10. ReadingsTrue'
  BY <1>2, <1>4, <1>9 DEF Calm, ReadingsTrue, IInv, TypeOK
<1>11. AttemptsLeft'
  BY <1>2 DEF Calm, AttemptsLeft
<1> QED
  BY <1>8, <1>10, <1>11 DEF Calm

LEMMA WorkCalm ==
  ASSUME IInv, Calm, NEW e \in executions, CommitWork(e) \/ WorkFails(e) \/ CompleteFails(e)
  PROVE  Calm'
<1>1. PICK p \in {"done", "failed"} : Proceed(e, p)
  BY DEF CommitWork, WorkFails, CompleteFails
<1>2. e.phase \in {"working", "done"} /\ UNCHANGED <<tables, process, activeJobs, orphaned>>
  BY DEF CommitWork, WorkFails, CompleteFails
<1> QED
  BY <1>1, <1>2, ProceedCalm

\* Steps that rewrite rows, without making anything claimable or changing what
\* it takes to read or to run a job.
LEMMA RewriteCalm ==
  ASSUME IInv, Calm, UNCHANGED <<dead_letter_jobs, process, orphaned>>,
         \A f \in executions' : \E e \in executions :
            f.job = e.job /\ f.worker = e.worker /\ f.attempts = e.attempts,
         \A f, h \in executions' : f.job = h.job => f = h,
         \A j \in Jobs :
            /\ background_jobs'[j].attempts = background_jobs[j].attempts
            /\ background_jobs'[j].status = "ABSENT" <=> background_jobs[j].status = "ABSENT"
            /\ background_jobs'[j].status \in {"PENDING", "RETRYING"}
                  => background_jobs[j].status \in {"PENDING", "RETRYING"}
            /\ Claimable(j)' => Claimable(j) \/ (~Busy(j) /\ ~Listed(j)),
         \A f \in executions' : process[f.worker] = "up" =>
            /\ f.job \in activeJobs'[f.worker]
            /\ \/ /\ background_jobs'[f.job].status = "RUNNING"
                  /\ background_jobs'[f.job].owner = f.worker
                  /\ ~background_jobs'[f.job].stale
               \/ background_jobs'[f.job].status = "COMPLETED" /\ f.phase = "failed"
  PROVE  Calm'
<1>1. \A e \in executions : e.job \in Jobs
  BY DEF IInv, TypeOK, Execution
<1>2. \A j : /\ Busy(j)' => Busy(j)
             /\ Listed(j)' <=> Listed(j)
  BY DEF Busy, Listed
<1>3. \A j \in Jobs : Claimable(j)' => ~Busy(j)' /\ ~Listed(j)'
  BY <1>2 DEF Calm, CallsExclusive
<1>4. \A f \in executions' : process[f.worker] = "up" => ~Listed(f.job)'
  BY <1>2 DEF Calm, CallsExclusive
<1>5. CallsExclusive'
  BY <1>3, <1>4 DEF CallsExclusive
<1>6. \A j \in Jobs : Queued(j)' <=> Queued(j)
  BY DEF Queued
<1>7. \A f \in executions' : Queued(f.job)' => f.attempts = background_jobs'[f.job].attempts
  BY <1>1, <1>6 DEF Calm, ReadingsTrue
<1>8. \A w \in Workers : \A o \in orphaned[w] : o.job_id \in Jobs
  BY DEF IInv, TypeOK
<1>9. ReadingsTrue'
  BY <1>6, <1>7, <1>8 DEF Calm, ReadingsTrue
<1>10. AttemptsLeft'
  BY DEF Calm, AttemptsLeft
<1> QED
  BY <1>5, <1>9, <1>10 DEF Calm

LEMMA CompleteCalm ==
  ASSUME IInv, Calm, NEW e \in executions, Complete(e)
  PROVE  Calm'
<1>1. /\ e.job \in Jobs /\ e.worker \in Workers /\ e.phase = "done"
      /\ background_jobs' = [background_jobs EXCEPT ![e.job] = Completed(@)]
      /\ UNCHANGED <<dead_letter_jobs, process, orphaned>>
  BY DEF Complete, IInv, TypeOK, Execution
<1>2. \A j \in Jobs :
          /\ background_jobs'[j].attempts = background_jobs[j].attempts
          /\ background_jobs'[j].status = "ABSENT" <=> background_jobs[j].status = "ABSENT"
          /\ background_jobs'[j].status \in {"PENDING", "RETRYING"}
                => background_jobs[j].status \in {"PENDING", "RETRYING"}
          /\ Claimable(j)' => Claimable(j)
          /\ j # e.job => background_jobs'[j] = background_jobs[j]
          /\ j = e.job => background_jobs'[j].status \in {"ABSENT", "COMPLETED"}
  BY <1>1 DEF Completed, Claimable, IInv, TypeOK, Row
<1>3. \A f \in executions : f # e => f.job # e.job
  BY DEF Calm, CallsExclusive
<1>4. \A f \in executions : f.job \in Jobs
  BY DEF IInv, TypeOK, Execution
<1>5. CASE Return(e)
  <2>1. /\ executions' = executions \ {e}
        /\ \A f \in executions' : f.job \in activeJobs[f.worker] => f.job \in activeJobs'[f.worker]
    BY <1>1, <1>3, <1>5 DEF Return, IInv, TypeOK, Execution
  <2>2. \A f \in executions' : process[f.worker] = "up" =>
            /\ f.job \in activeJobs'[f.worker]
            /\ \/ /\ background_jobs'[f.job].status = "RUNNING"
                  /\ background_jobs'[f.job].owner = f.worker
                  /\ ~background_jobs'[f.job].stale
               \/ background_jobs'[f.job].status = "COMPLETED" /\ f.phase = "failed"
    BY <1>2, <1>3, <1>4, <2>1 DEF Calm, CallsExclusive
  <2>3. \A f, h \in executions' : f.job = h.job => f = h
    BY <2>1 DEF Calm, CallsExclusive
  <2> QED
    BY <1>1, <1>2, <2>1, <2>2, <2>3, RewriteCalm
<1>6. CASE Proceed(e, "failed") /\ UNCHANGED activeJobs
  <2> DEFINE g == [e EXCEPT !.phase = "failed"]
  <2>1. /\ executions' = (executions \ {e}) \cup {g}
        /\ g.job = e.job /\ g.worker = e.worker /\ g.attempts = e.attempts /\ g.phase = "failed"
    BY <1>6 DEF Proceed, IInv, TypeOK, Execution
  <2> HIDE DEF g
  <2>2. process[e.worker] = "up" =>
            /\ e.job \in activeJobs[e.worker]
            /\ background_jobs'[e.job].status = "COMPLETED"
    BY <1>1, <1>2 DEF Calm, CallsExclusive
  <2>3. \A f \in executions' : process[f.worker] = "up" =>
            /\ f.job \in activeJobs'[f.worker]
            /\ \/ /\ background_jobs'[f.job].status = "RUNNING"
                  /\ background_jobs'[f.job].owner = f.worker
                  /\ ~background_jobs'[f.job].stale
               \/ background_jobs'[f.job].status = "COMPLETED" /\ f.phase = "failed"
    BY <1>2, <1>3, <1>4, <1>6, <2>1, <2>2 DEF Calm, CallsExclusive
  <2>4. \A f, h \in executions' : f.job = h.job => f = h
    BY <2>1 DEF Calm, CallsExclusive
  <2>5. \A f \in executions' : \E h \in executions :
            f.job = h.job /\ f.worker = h.worker /\ f.attempts = h.attempts
    BY <2>1
  <2> QED
    BY <1>1, <1>2, <2>3, <2>4, <2>5, RewriteCalm
<1> QED
  BY <1>5, <1>6 DEF Complete

\* What failJob and moveToDlq make of a row, and which letters they write.
LEMMA SettledRows ==
  ASSUME TypeOK, NEW read, read \subseteq [job_id : Jobs, attempts : Nat], Settle(read)
  PROVE  /\ \A j \in Jobs : ~(\E x \in read : x.job_id = j) =>
                background_jobs'[j] = background_jobs[j]
         /\ \A j \in Jobs : (\E x \in read : x.job_id = j) =>
                \/ background_jobs'[j].status = "ABSENT" /\ background_jobs'[j].attempts = 0
                \/ /\ Queued(j) /\ j \notin Spent(read)
                   /\ background_jobs'[j].status = "RETRYING"
                   /\ ~background_jobs'[j].due
                   /\ background_jobs'[j].attempts = background_jobs[j].attempts
                \/ ~Queued(j) /\ background_jobs'[j] = background_jobs[j]
         /\ \A d \in dead_letter_jobs' :
                \/ d \in dead_letter_jobs
                \/ /\ d.job_id \in Spent(read) /\ Queued(d.job_id)
                   /\ d.attempts = background_jobs[d.job_id].attempts
<1>1. /\ background_jobs' = [j \in Jobs |->
              IF j \in Spent(read) THEN AbsentRow
              ELSE IF \E x \in read : x.job_id = j THEN Failed(background_jobs[j])
              ELSE background_jobs[j]]
      /\ dead_letter_jobs' = dead_letter_jobs \cup Letters(Spent(read))
  BY DEF Settle
<1>2. \A j \in Spent(read) : \E x \in read : x.job_id = j
  BY DEF Spent
<1>3. \A j \in Jobs : ~(\E x \in read : x.job_id = j) =>
          background_jobs'[j] = background_jobs[j]
  BY <1>1, <1>2
<1>4. ASSUME NEW j \in Jobs, \E x \in read : x.job_id = j
      PROVE  \/ background_jobs'[j].status = "ABSENT" /\ background_jobs'[j].attempts = 0
             \/ /\ Queued(j) /\ j \notin Spent(read)
                /\ background_jobs'[j].status = "RETRYING"
                /\ ~background_jobs'[j].due
                /\ background_jobs'[j].attempts = background_jobs[j].attempts
             \/ ~Queued(j) /\ background_jobs'[j] = background_jobs[j]
  <2>1. CASE j \in Spent(read)
    BY <1>1, <2>1 DEF AbsentRow
  <2>2. CASE j \notin Spent(read)
    <3>1. background_jobs'[j] = Failed(background_jobs[j]) /\ background_jobs[j] \in Row
      BY <1>1, <1>4, <2>2 DEF TypeOK
    <3> QED
      BY <2>2, <3>1 DEF Failed, Queued, Row
  <2> QED
    BY <2>1, <2>2
<1>5. \A d \in Letters(Spent(read)) :
          /\ d.job_id \in Spent(read) /\ Queued(d.job_id)
          /\ d.attempts = background_jobs[d.job_id].attempts
  BY DEF Letters
<1> QED
  BY <1>1, <1>3, <1>4, <1>5

\* Whoever settles a job has read its attempts, and no worker that is up
\* executes it any more.
LEMMA SettleCalm ==
  ASSUME IInv, Calm, NEW read, read \subseteq [job_id : Jobs, attempts : Nat], Settle(read),
         \A x \in read : Queued(x.job_id) => x.attempts = background_jobs[x.job_id].attempts,
         UNCHANGED process,
         executions' \subseteq executions,
         \A w \in Workers : orphaned'[w] \subseteq orphaned[w],
         \A f \in executions' : process[f.worker] = "up" =>
            /\ \A x \in read : x.job_id # f.job
            /\ f.job \in activeJobs[f.worker] => f.job \in activeJobs'[f.worker]
  PROVE  Calm'
<1>1. /\ \A j \in Jobs : ~(\E x \in read : x.job_id = j) =>
             background_jobs'[j] = background_jobs[j]
      /\ \A j \in Jobs : (\E x \in read : x.job_id = j) =>
             \/ background_jobs'[j].status = "ABSENT" /\ background_jobs'[j].attempts = 0
             \/ /\ Queued(j) /\ j \notin Spent(read)
                /\ background_jobs'[j].status = "RETRYING"
                /\ ~background_jobs'[j].due
                /\ background_jobs'[j].attempts = background_jobs[j].attempts
             \/ ~Queued(j) /\ background_jobs'[j] = background_jobs[j]
      /\ \A d \in dead_letter_jobs' :
             \/ d \in dead_letter_jobs
             \/ /\ d.job_id \in Spent(read) /\ Queued(d.job_id)
                /\ d.attempts = background_jobs[d.job_id].attempts
  BY SettledRows DEF IInv
<1>2. \A j \in Jobs : /\ Claimable(j)' => Claimable(j)
                      /\ Busy(j)' => Busy(j)
                      /\ Listed(j)' => Listed(j)
                      /\ Queued(j)' =>
                            Queued(j) /\ background_jobs'[j].attempts = background_jobs[j].attempts
  BY <1>1 DEF Claimable, Busy, Listed, Queued
<1>3. \A e \in executions : e.job \in Jobs
  BY DEF IInv, TypeOK, Execution
<1>4. CallsExclusive'
  <2>1. \A f \in executions' : process[f.worker] = "up" =>
          background_jobs'[f.job] = background_jobs[f.job]
    BY <1>1, <1>3
  <2> QED
    BY <1>2, <1>3, <2>1 DEF Calm, CallsExclusive
<1>5. \A w \in Workers : \A o \in orphaned[w] : o.job_id \in Jobs
  BY DEF IInv, TypeOK
<1>6. ReadingsTrue'
  BY <1>2, <1>3, <1>5 DEF Calm, ReadingsTrue
<1>7. \A j \in Spent(read) : \E x \in read : x.job_id = j /\ x.attempts >= MaxAttempts
  BY DEF Spent
<1>8. \A j \in Jobs : background_jobs[j].attempts \in Nat /\ background_jobs[j].attempts <= MaxAttempts
  BY DEF Calm, AttemptsLeft, IInv, TypeOK, Row
<1>9. MaxAttempts \in Nat
  BY JobQueueAssumption
<1>10. ASSUME NEW j \in Jobs, Queued(j), j \in Spent(read)
       PROVE  background_jobs[j].attempts = MaxAttempts
  BY <1>7, <1>8, <1>9, <1>10
<1>11. ASSUME NEW j \in Jobs, Queued(j), j \notin Spent(read), \E x \in read : x.job_id = j
       PROVE  background_jobs[j].attempts < MaxAttempts
  <2>1. PICK x \in read : x.job_id = j
    BY <1>11
  <2>2. x.attempts = background_jobs[j].attempts /\ ~(x.attempts >= MaxAttempts)
    BY <1>11, <2>1 DEF Spent
  <2> QED
    BY <1>8, <1>9, <2>2
<1>12. AttemptsLeft'
  <2>1. \A j \in Jobs : background_jobs'[j].attempts <= MaxAttempts
    BY <1>1, <1>8, <1>9
  <2>2. \A j \in Jobs : background_jobs'[j].status \in {"PENDING", "RETRYING"} =>
            background_jobs'[j].attempts < MaxAttempts
    BY <1>1, <1>11 DEF Calm, AttemptsLeft
  <2>3. \A d \in dead_letter_jobs' : d.attempts = MaxAttempts
    <3>1. Spent(read) \subseteq Jobs
      BY DEF Spent
    <3> QED
      BY <1>1, <1>10, <3>1 DEF Calm, AttemptsLeft
  <2> QED
    BY <2>1, <2>2, <2>3 DEF AttemptsLeft
<1> QED
  BY <1>4, <1>6, <1>12 DEF Calm

LEMMA RecordFailureCalm ==
  ASSUME IInv, Calm, NEW e \in executions, RecordFailure(e)
  PROVE  Calm'
<1> DEFINE read == {[job_id |-> e.job, attempts |-> e.attempts]}
<1>1. /\ Settle(read)
      /\ executions' = executions \ {e}
      /\ activeJobs' = [activeJobs EXCEPT ![e.worker] = @ \ {e.job}]
      /\ UNCHANGED <<process, orphaned>>
  BY DEF RecordFailure, Return
<1>2. /\ read \subseteq [job_id : Jobs, attempts : Nat]
      /\ \A x \in read : x.job_id = e.job /\ x.attempts = e.attempts
  BY DEF IInv, TypeOK, Execution
<1> HIDE DEF read
<1>3. \A f \in executions' : f.job # e.job
  BY <1>1 DEF Calm, CallsExclusive
<1>4. \A f \in executions' : f.job \in activeJobs[f.worker] => f.job \in activeJobs'[f.worker]
  BY <1>1, <1>3 DEF IInv, TypeOK, Execution
<1>5. \A x \in read : Queued(x.job_id) => x.attempts = background_jobs[x.job_id].attempts
  BY <1>2 DEF Calm, ReadingsTrue
<1> QED
  BY <1>1, <1>2, <1>3, <1>4, <1>5, SettleCalm

LEMMA ResetOrphansCalm ==
  ASSUME IInv, Calm, NEW w \in Workers, ResetOrphans(w)
  PROVE  Calm'
<1>1. /\ Settle(orphaned[w])
      /\ orphaned' = [orphaned EXCEPT ![w] = {}]
      /\ UNCHANGED <<process, calls>>
  BY DEF ResetOrphans
<1>2. orphaned[w] \subseteq [job_id : Jobs, attempts : Nat]
  BY DEF IInv, TypeOK
<1>3. \A v \in Workers : orphaned'[v] \subseteq orphaned[v]
  BY <1>1 DEF IInv, TypeOK
<1>4. \A x \in orphaned[w] : Queued(x.job_id) => x.attempts = background_jobs[x.job_id].attempts
  BY DEF Calm, ReadingsTrue
<1>5. \A f \in executions : process[f.worker] = "up" => \A x \in orphaned[w] : x.job_id # f.job
  BY DEF Calm, CallsExclusive, Listed
<1> QED
  BY <1>1, <1>2, <1>3, <1>4, <1>5, SettleCalm DEF calls

\* A job that can be claimed is nobody's, and has an attempt left.
LEMMA ClaimedCalm ==
  ASSUME IInv, Calm, NEW w \in Workers, NEW j \in Jobs, First(j),
         background_jobs' = [background_jobs EXCEPT ![j] = Claimed(@, w)],
         UNCHANGED <<dead_letter_jobs, process, orphaned>>
  PROVE  /\ ~Busy(j) /\ ~Listed(j)
         /\ background_jobs'[j].status = "RUNNING"
         /\ background_jobs'[j].owner = w
         /\ ~background_jobs'[j].stale
         /\ \A k \in Jobs : k # j => background_jobs'[k] = background_jobs[k]
         /\ AttemptsLeft'
         /\ \A v \in Workers : \A o \in orphaned[v] :
               Queued(o.job_id)' => o.attempts = background_jobs'[o.job_id].attempts
         /\ \A k \in Jobs : Claimable(k)' => Claimable(k) /\ k # j
<1>1. Claimable(j) /\ background_jobs[j] \in Row
  BY DEF First, IInv, TypeOK
<1>2. ~Busy(j) /\ ~Listed(j)
  BY <1>1 DEF Calm, CallsExclusive
<1>3. /\ background_jobs'[j] = Claimed(background_jobs[j], w)
      /\ \A k \in Jobs : k # j => background_jobs'[k] = background_jobs[k]
  BY DEF IInv, TypeOK
<1>4. /\ background_jobs'[j].status = "RUNNING"
      /\ background_jobs'[j].attempts = background_jobs[j].attempts + 1
  BY <1>1, <1>3, ClaimedTyped
<1>5. background_jobs'[j].owner = w /\ ~background_jobs'[j].stale
  <2>1. background_jobs[j].attempts + 1 \in Nat
    BY <1>1 DEF Row
  <2>2. \A n \in Nat :
          LET r == [background_jobs[j] EXCEPT !.status = "RUNNING", !.owner = w,
                                              !.stale = FALSE, !.attempts = n]
          IN  r.owner = w /\ r.stale = FALSE
    BY <1>1 DEF Row
  <2> QED
    BY <1>3, <2>1, <2>2 DEF Claimed
<1>6. background_jobs[j].attempts < MaxAttempts
  BY <1>1 DEF Calm, AttemptsLeft, Claimable
<1>7. background_jobs'[j].attempts <= MaxAttempts
  BY <1>1, <1>4, <1>6, JobQueueAssumption DEF Row
<1>8. AttemptsLeft'
  BY <1>3, <1>4, <1>7 DEF Calm, AttemptsLeft
<1>9. \A v \in Workers : \A o \in orphaned[v] :
          Queued(o.job_id)' => o.attempts = background_jobs'[o.job_id].attempts
  <2> SUFFICES ASSUME NEW v \in Workers, NEW o \in orphaned[v], Queued(o.job_id)'
               PROVE  o.attempts = background_jobs'[o.job_id].attempts
    OBVIOUS
  <2>1. o.job_id # j /\ o.job_id \in Jobs
    BY <1>2 DEF Listed, IInv, TypeOK
  <2>2. background_jobs'[o.job_id] = background_jobs[o.job_id]
    BY <1>3, <2>1
  <2>3. Queued(o.job_id)
    BY <2>2 DEF Queued
  <2> QED
    BY <2>2, <2>3 DEF Calm, ReadingsTrue
<1>10. \A k \in Jobs : Claimable(k)' => Claimable(k) /\ k # j
  BY <1>3, <1>4 DEF Claimable
<1> QED
  BY <1>2, <1>3, <1>4, <1>5, <1>8, <1>9, <1>10

LEMMA ClaimCalm ==
  ASSUME IInv, CallsTracked, Calm, NEW w \in Workers, NEW j \in Jobs, Claim(w, j)
  PROVE  Calm'
<1> DEFINE e == [ job |-> j, worker |-> w, attempts |-> background_jobs'[j].attempts,
                  phase |-> "working" ]
<1>1. /\ process[w] = "up"
      /\ First(j)
      /\ background_jobs' = [background_jobs EXCEPT ![j] = Claimed(@, w)]
      /\ executions' = executions \cup {e}
      /\ activeJobs' = [activeJobs EXCEPT ![w] = @ \cup {j}]
      /\ UNCHANGED <<dead_letter_jobs, process, orphaned>>
  BY DEF Claim
<1>2. /\ ~Busy(j) /\ ~Listed(j)
      /\ background_jobs'[j].status = "RUNNING"
      /\ background_jobs'[j].owner = w
      /\ ~background_jobs'[j].stale
      /\ \A k \in Jobs : k # j => background_jobs'[k] = background_jobs[k]
      /\ AttemptsLeft'
      /\ \A v \in Workers : \A o \in orphaned[v] :
            Queued(o.job_id)' => o.attempts = background_jobs'[o.job_id].attempts
      /\ \A k \in Jobs : Claimable(k)' => Claimable(k) /\ k # j
  BY <1>1, ClaimedCalm
<1>3. e.job = j /\ e.worker = w /\ e.attempts = background_jobs'[j].attempts
  OBVIOUS
<1> HIDE DEF e
<1>4. \A f \in executions : f.job \in Jobs /\ f.worker \in Workers /\ f.job # j
  BY <1>2 DEF Busy, IInv, TypeOK, Execution
<1>5. \A k : Listed(k)' <=> Listed(k)
  BY <1>1 DEF Listed
<1>6. \A k \in Jobs : Claimable(k)' => ~Busy(k)' /\ ~Listed(k)'
  BY <1>1, <1>2, <1>3, <1>5 DEF Calm, CallsExclusive, Busy
<1>7. \A f, h \in executions' : f.job = h.job => f = h
  BY <1>1, <1>3, <1>4 DEF Calm, CallsExclusive
<1>8. \A f \in executions' : process'[f.worker] = "up" =>
          /\ f.job \in activeJobs'[f.worker]
          /\ ~Listed(f.job)'
          /\ \/ /\ background_jobs'[f.job].status = "RUNNING"
                /\ background_jobs'[f.job].owner = f.worker
                /\ ~background_jobs'[f.job].stale
             \/ background_jobs'[f.job].status = "COMPLETED" /\ f.phase = "failed"
  <2> SUFFICES ASSUME NEW f \in executions', process[f.worker] = "up"
               PROVE  /\ f.job \in activeJobs'[f.worker]
                      /\ ~Listed(f.job)'
                      /\ \/ /\ background_jobs'[f.job].status = "RUNNING"
                            /\ background_jobs'[f.job].owner = f.worker
                            /\ ~background_jobs'[f.job].stale
                         \/ background_jobs'[f.job].status = "COMPLETED" /\ f.phase = "failed"
    BY <1>1
  <2>1. CASE f = e
    BY <1>1, <1>2, <1>3, <1>5, <2>1 DEF IInv, TypeOK
  <2>2. CASE f \in executions
    <3>1. f.job \in activeJobs'[f.worker]
      BY <1>1, <1>4, <2>2 DEF Calm, CallsExclusive, IInv, TypeOK
    <3> QED
      BY <1>2, <1>4, <1>5, <2>2, <3>1 DEF Calm, CallsExclusive
  <2> QED
    BY <1>1, <2>1, <2>2
<1>9. CallsExclusive'
  BY <1>6, <1>7, <1>8 DEF CallsExclusive
<1>10. \A f \in executions' : Queued(f.job)' => f.attempts = background_jobs'[f.job].attempts
  BY <1>1, <1>2, <1>3, <1>4 DEF Calm, ReadingsTrue, Queued
<1>11. ReadingsTrue'
  BY <1>1, <1>2, <1>10 DEF ReadingsTrue
<1> QED
  BY <1>2, <1>9, <1>11 DEF Calm

LEMMA ClaimAckLostCalm ==
  ASSUME IInv, Calm, NEW w \in Workers, NEW j \in Jobs, ClaimAckLost(w, j)
  PROVE  Calm'
<1>1. /\ First(j)
      /\ background_jobs' = [background_jobs EXCEPT ![j] = Claimed(@, w)]
      /\ UNCHANGED <<dead_letter_jobs, process, activeJobs, executions, orphaned>>
  BY DEF ClaimAckLost, calls
<1>2. /\ ~Busy(j) /\ ~Listed(j)
      /\ \A k \in Jobs : k # j => background_jobs'[k] = background_jobs[k]
      /\ AttemptsLeft'
      /\ \A v \in Workers : \A o \in orphaned[v] :
            Queued(o.job_id)' => o.attempts = background_jobs'[o.job_id].attempts
      /\ \A k \in Jobs : Claimable(k)' => Claimable(k) /\ k # j
  BY <1>1, ClaimedCalm
<1>3. \A f \in executions : f.job \in Jobs /\ background_jobs'[f.job] = background_jobs[f.job]
  BY <1>2 DEF Busy, IInv, TypeOK, Execution
<1>4. \A k : (Listed(k)' <=> Listed(k)) /\ (Busy(k)' <=> Busy(k))
  BY <1>1 DEF Listed, Busy
<1>5. CallsExclusive'
  BY <1>1, <1>2, <1>3, <1>4 DEF Calm, CallsExclusive
<1>6. ReadingsTrue'
  BY <1>1, <1>2, <1>3 DEF Calm, ReadingsTrue, Queued
<1> QED
  BY <1>2, <1>5, <1>6 DEF Calm

\* A job id that was not issued has no calls and no readers.
LEMMA EnqueueCalm ==
  ASSUME IInv, CallsTracked, Calm, Enqueue
  PROVE  Calm'
<1> DEFINE new == [AbsentRow EXCEPT !.status = "PENDING", !.due = TRUE]
<1>1. new.status = "PENDING" /\ new.attempts = 0
  BY DEF AbsentRow
<1>2. /\ nextJob \in Jobs
      /\ background_jobs' = [background_jobs EXCEPT ![nextJob] = new]
      /\ UNCHANGED <<dead_letter_jobs, process, activeJobs, executions, orphaned>>
  BY JobQueueAssumption DEF Enqueue, IInv, TypeOK, Jobs, calls
<1> HIDE DEF new
<1>3. /\ background_jobs'[nextJob] = new
      /\ \A k \in Jobs : k # nextJob => background_jobs'[k] = background_jobs[k]
  BY <1>2 DEF IInv, TypeOK
<1>4. \A e \in executions : e.job \in Jobs /\ e.job # nextJob
  <2> SUFFICES ASSUME NEW e \in executions PROVE e.job \in Jobs /\ e.job < nextJob
    BY <1>2 DEF Jobs
  <2>1. e.job \in Jobs /\ Counted(e.job, e.attempts)
    BY DEF IInv, TypeOK, Execution, AttemptsAreFenced
  <2>2. Queued(e.job) \/ Buried(e.job)
    BY <2>1 DEF Counted, Buried
  <2> QED
    BY <2>1, <2>2 DEF IInv, OneHome
<1>5. \A w \in Workers : \A o \in orphaned[w] : o.job_id \in Jobs /\ o.job_id # nextJob
  BY <1>2 DEF CallsTracked, IInv, TypeOK, Jobs
<1>6. ~Busy(nextJob) /\ ~Listed(nextJob)
  BY <1>4, <1>5 DEF Busy, Listed
<1>7. \A k : (Listed(k)' <=> Listed(k)) /\ (Busy(k)' <=> Busy(k))
  BY <1>2 DEF Listed, Busy
<1>8. \A k \in Jobs : Claimable(k)' => Claimable(k) \/ k = nextJob
  BY <1>3 DEF Claimable
<1>9. CallsExclusive'
  BY <1>2, <1>3, <1>4, <1>6, <1>7, <1>8 DEF Calm, CallsExclusive
<1>10. ReadingsTrue'
  BY <1>2, <1>3, <1>4, <1>5 DEF Calm, ReadingsTrue, Queued
<1>11. AttemptsLeft'
  BY <1>1, <1>2, <1>3, JobQueueAssumption DEF Calm, AttemptsLeft
<1> QED
  BY <1>9, <1>10, <1>11 DEF Calm

\* Heartbeats come, and while all is timely no row goes stale for which one
\* does, nor does a backoff end while the job is not let go.
LEMMA ClockCalm ==
  ASSUME IInv, CallsTracked, Calm, Timely',
         \/ \E w \in Workers : Heartbeat(w)
         \/ \E j \in Jobs : HeartbeatExpires(j) \/ BackoffExpires(j)
  PROVE  Calm'
<1>1. UNCHANGED <<dead_letter_jobs, process, activeJobs, executions, orphaned>>
  BY DEF Heartbeat, HeartbeatExpires, BackoffExpires, calls
<1>2. \A f \in executions : f.job \in Jobs /\ f.worker \in Workers
  BY DEF IInv, TypeOK, Execution
<1>3. \A k \in Jobs :
        /\ background_jobs'[k].attempts = background_jobs[k].attempts
        /\ background_jobs'[k].status = background_jobs[k].status
        /\ background_jobs'[k].owner = background_jobs[k].owner
        /\ Claimable(k)' => Claimable(k) \/ (~Busy(k) /\ ~Listed(k))
        /\ (background_jobs'[k].stale => background_jobs[k].stale) \/ ~\E w \in Workers : Beats(w, k)
  <2>1. CASE \E w \in Workers : Heartbeat(w)
    <3>1. PICK w \in Workers : Heartbeat(w)
      BY <2>1
    <3>2. background_jobs' = [k \in Jobs |->
              [background_jobs[k] EXCEPT !.stale = @ /\ ~Beats(w, k)]]
      BY <3>1 DEF Heartbeat
    <3>3. \A k \in Jobs : (background_jobs[k].stale /\ ~Beats(w, k)) \in BOOLEAN
      OBVIOUS
    <3>4. \A k \in Jobs :
            /\ background_jobs'[k].attempts = background_jobs[k].attempts
            /\ background_jobs'[k].status = background_jobs[k].status
            /\ background_jobs'[k].owner = background_jobs[k].owner
            /\ background_jobs'[k].due = background_jobs[k].due
            /\ background_jobs'[k].stale => background_jobs[k].stale
      BY <3>2, <3>3 DEF IInv, TypeOK, Row
    <3> QED
      BY <3>4 DEF Claimable
  <2>2. CASE \E j \in Jobs : HeartbeatExpires(j)
    <3>1. PICK j \in Jobs : HeartbeatExpires(j)
      BY <2>2
    <3>2. ~\E w \in Workers : Beats(w, j)
      BY <3>1 DEF HeartbeatExpires, Fault, Timely, IInv, TypeOK, Faults
    <3>3. \A k \in Jobs :
            /\ background_jobs'[k].attempts = background_jobs[k].attempts
            /\ background_jobs'[k].status = background_jobs[k].status
            /\ background_jobs'[k].owner = background_jobs[k].owner
            /\ background_jobs'[k].due = background_jobs[k].due
            /\ k # j => background_jobs'[k].stale = background_jobs[k].stale
      BY <3>1 DEF HeartbeatExpires, IInv, TypeOK, Row
    <3> QED
      BY <3>2, <3>3 DEF Claimable
  <2>3. CASE \E j \in Jobs : BackoffExpires(j)
    <3>1. PICK j \in Jobs : BackoffExpires(j)
      BY <2>3
    <3>2. ~Unfinished(j) /\ background_jobs[j].status = "RETRYING"
      BY <3>1 DEF BackoffExpires, Fault, Timely, IInv, TypeOK, Faults
    <3>3. ~Listed(j)
      BY <3>2 DEF Unfinished
    <3>4. ASSUME NEW e \in executions, e.job = j
          PROVE  FALSE
      <4>1. process[e.worker] = "up"
        BY <3>2, <3>4 DEF Unfinished, CallsTracked
      <4> QED
        BY <3>2, <3>4, <4>1 DEF Calm, CallsExclusive
    <3>5. \A k \in Jobs :
            /\ background_jobs'[k].attempts = background_jobs[k].attempts
            /\ background_jobs'[k].status = background_jobs[k].status
            /\ background_jobs'[k].owner = background_jobs[k].owner
            /\ background_jobs'[k].stale = background_jobs[k].stale
            /\ k # j => background_jobs'[k].due = background_jobs[k].due
      <4>1. /\ background_jobs' = [background_jobs EXCEPT ![j].due = TRUE]
            /\ background_jobs \in [Jobs -> Row]
        BY <3>1 DEF BackoffExpires, IInv, TypeOK
      <4> QED
        BY <4>1 DEF Row
    <3> QED
      BY <3>3, <3>4, <3>5 DEF Claimable, Busy
  <2> QED
    BY <2>1, <2>2, <2>3
<1>4. \A f \in executions : process[f.worker] = "up" =>
          /\ f.job \in activeJobs[f.worker]
          /\ \/ /\ background_jobs'[f.job].status = "RUNNING"
                /\ background_jobs'[f.job].owner = f.worker
                /\ ~background_jobs'[f.job].stale
             \/ background_jobs'[f.job].status = "COMPLETED" /\ f.phase = "failed"
  BY <1>2, <1>3 DEF Calm, CallsExclusive, Beats
<1>5. \A f, h \in executions : f.job = h.job => f = h
  BY DEF Calm, CallsExclusive
<1> QED
  BY <1>1, <1>3, <1>4, <1>5, RewriteCalm

\* A call begins with a worker that is up, and ends no later than its process.
LEMMA TrackedStep ==
  ASSUME IInv, CallsTracked, [Next]_vars
  PROVE  CallsTracked'
<1>1. \A e \in executions : e.worker \in Workers /\ process[e.worker] \in {"up", "draining"}
  BY DEF CallsTracked, IInv, TypeOK, Execution
<1>2. \A e \in executions' : process'[e.worker] \in {"up", "draining"}
  <2>1. CASE \E w \in Workers, j \in Jobs : Claim(w, j)
    BY <1>1, <2>1 DEF Claim
  <2>2. CASE \E w \in Workers : Exit(w) \/ Crash(w)
    BY <1>1, <2>2 DEF Exit, Crash, Vanish, IInv, TypeOK
  <2>3. CASE \E w \in Workers : Start(w) \/ Stop(w)
    BY <1>1, <2>3 DEF Start, Stop, calls, IInv, TypeOK
  <2>4. CASE \E e \in executions : CommitWork(e) \/ WorkFails(e) \/ Complete(e) \/ CompleteFails(e)
                                   \/ RecordFailure(e) \/ RecordFailureFails(e)
    <3>1. PICK e \in executions :
            CommitWork(e) \/ WorkFails(e) \/ Complete(e) \/ CompleteFails(e)
              \/ RecordFailure(e) \/ RecordFailureFails(e)
      BY <2>4
    <3>2. process' = process
      BY <3>1 DEF CommitWork, WorkFails, Complete, CompleteFails, RecordFailure, RecordFailureFails
    <3>3. CASE \E p \in {"done", "failed"} : Proceed(e, p)
      BY <1>1, <3>2, <3>3 DEF Proceed, IInv, TypeOK, Execution
    <3>4. CASE Return(e)
      BY <1>1, <3>2, <3>4 DEF Return
    <3> QED
      BY <3>1, <3>3, <3>4 DEF CommitWork, WorkFails, Complete, CompleteFails,
                              RecordFailure, RecordFailureFails
  <2>5. CASE UNCHANGED <<process, executions>>
    BY <1>1, <2>5
  <2> QED
    BY <2>1, <2>2, <2>3, <2>4, <2>5 DEF Next, Work, Execute, Enqueue, ClaimAckLost, Heartbeat,
       FindOrphanedJobs, ResetOrphans, RecoveryFails, HeartbeatExpires, BackoffExpires, vars, calls
<1>3. \A w \in Workers : \A o \in orphaned'[w] : o.job_id < nextJob'
  <2>1. nextJob \in Nat /\ nextJob' \in {nextJob, nextJob + 1}
    <3>1. nextJob \in Nat
      BY JobQueueAssumption DEF IInv, TypeOK
    <3>2. CASE Enqueue
      BY <3>1, <3>2 DEF Enqueue
    <3>3. CASE Work \/ UNCHANGED vars
      <4>1. UNCHANGED nextJob
        BY <3>3 DEF Work, Execute, Start, Stop, Exit, Crash, Vanish, Claim, ClaimAckLost,
           Heartbeat, FindOrphanedJobs, ResetOrphans, RecoveryFails, CommitWork, WorkFails,
           Complete, RecordFailure, CompleteFails, RecordFailureFails, HeartbeatExpires,
           BackoffExpires, vars, tables
      <4> QED
        BY <3>1, <4>1
    <3> QED
      BY <3>1, <3>2, <3>3 DEF Next
  <2>2. \A w \in Workers : \A o \in orphaned[w] : o.job_id \in Nat /\ o.job_id < nextJob
    BY DEF CallsTracked, IInv, TypeOK, Jobs
  <2>3. CASE \E w \in Workers : FindOrphanedJobs(w)
    <3>1. PICK w \in Workers : FindOrphanedJobs(w)
      BY <2>3
    <3>2. \A o \in orphaned'[w] : o.job_id \in Jobs /\ Queued(o.job_id)
      BY <3>1 DEF FindOrphanedJobs, IInv, TypeOK, Queued
    <3>3. \A o \in orphaned'[w] : o.job_id < nextJob'
      BY <3>1, <3>2 DEF FindOrphanedJobs, tables, IInv, OneHome
    <3>4. \A v \in Workers : v # w => orphaned'[v] = orphaned[v]
      BY <3>1 DEF FindOrphanedJobs, IInv, TypeOK
    <3> QED
      BY <2>1, <2>2, <3>3, <3>4
  <2>4. CASE \A w \in Workers : orphaned'[w] \subseteq orphaned[w]
    BY <2>1, <2>2, <2>4
  <2>5. CASE \E w \in Workers : ResetOrphans(w) \/ RecoveryFails(w) \/ Exit(w) \/ Crash(w)
    <3>1. \A w \in Workers : orphaned'[w] \subseteq orphaned[w]
      BY <2>5 DEF ResetOrphans, RecoveryFails, Exit, Crash, Vanish, IInv, TypeOK
    <3> QED
      BY <2>4, <3>1
  <2>6. CASE UNCHANGED orphaned
    BY <2>4, <2>6
  <2> QED
    BY <2>3, <2>5, <2>6 DEF Next, Work, Execute, Enqueue, Start, Stop, Claim, ClaimAckLost,
       Heartbeat, CommitWork, WorkFails, Complete, RecordFailure, CompleteFails,
       RecordFailureFails, HeartbeatExpires, BackoffExpires, vars
<1> QED
  BY <1>2, <1>3 DEF CallsTracked

\* What is late stays late.
LEMMA StillTimely ==
  ASSUME IInv, [Next]_vars, Timely'
  PROVE  Timely
<1>1. UNCHANGED faults \/ \E kind : Fault(kind)
  BY DEF Next, Work, Execute, Enqueue, Start, Stop, Exit, Crash, Claim, ClaimAckLost, Heartbeat,
     FindOrphanedJobs, ResetOrphans, RecoveryFails, CommitWork, WorkFails, Complete,
     RecordFailure, CompleteFails, RecordFailureFails, HeartbeatExpires, BackoffExpires, vars
<1>2. faults.kinds \subseteq faults'.kinds
  BY <1>1 DEF Fault
<1> QED
  BY <1>2 DEF Timely

LEMMA NextTimely ==
  ASSUME IInv, TimelyInv, [Next]_vars
  PROVE  TimelyInv'
<1>1. CallsTracked'
  BY TrackedStep DEF TimelyInv
<1>2. ASSUME Timely' PROVE Calm'
  <2>1. CallsTracked /\ Calm
    BY <1>2, StillTimely DEF TimelyInv
  <2>2. CASE \/ \E w \in Workers : Start(w) \/ Stop(w) \/ Exit(w) \/ Crash(w) \/ RecoveryFails(w)
             \/ UNCHANGED vars
    BY <2>1, <2>2, ProcessCalm
  <2>3. CASE \E e \in executions : RecordFailureFails(e)
    BY <2>1, <2>3, RecordFailureFailsCalm
  <2>4. CASE \E w \in Workers : FindOrphanedJobs(w)
    BY <2>1, <2>4, FindOrphanedJobsCalm
  <2>5. CASE \E e \in executions : CommitWork(e) \/ WorkFails(e) \/ CompleteFails(e)
    BY <2>1, <2>5, WorkCalm
  <2>6. CASE \E e \in executions : Complete(e)
    BY <2>1, <2>6, CompleteCalm
  <2>7. CASE \E e \in executions : RecordFailure(e)
    BY <2>1, <2>7, RecordFailureCalm
  <2>8. CASE \E w \in Workers : ResetOrphans(w)
    BY <2>1, <2>8, ResetOrphansCalm
  <2>9. CASE \E w \in Workers, j \in Jobs : Claim(w, j)
    BY <2>1, <2>9, ClaimCalm
  <2>10. CASE \E w \in Workers, j \in Jobs : ClaimAckLost(w, j)
    BY <2>1, <2>10, ClaimAckLostCalm
  <2>11. CASE Enqueue
    BY <2>1, <2>11, EnqueueCalm
  <2>12. CASE \/ \E w \in Workers : Heartbeat(w)
              \/ \E j \in Jobs : HeartbeatExpires(j) \/ BackoffExpires(j)
    BY <1>2, <2>1, <2>12, ClockCalm
  <2> QED
    BY <2>2, <2>3, <2>4, <2>5, <2>6, <2>7, <2>8, <2>9, <2>10, <2>11, <2>12 DEF Next, Work, Execute
<1> QED
  BY <1>1, <1>2 DEF TimelyInv

\* The invariant of the timely queue holds in every reachable state.
THEOREM TimelyInvariance == Spec => []TimelyInv
<1>1. IInv /\ TimelyInv /\ [Next]_vars => TimelyInv'
  BY NextTimely
<1> QED
  BY <1>1, InitTimely, Invariance, PTL DEF Spec

\* While heartbeats are on time and backoffs outlast recoveries and drains, the
\* attempts of a job are made one after the other, no more than MaxAttempts of
\* them, and a job is buried only after all of them: whatever crashes, stops,
\* fails in the database or loses its acknowledgement.
THEOREM AttemptsAreTimely == Spec => []TimelyAttempts
<1>1. TimelyInv => TimelyAttempts
  BY DEF TimelyInv, Calm, CallsExclusive, AttemptsLeft, TimelyAttempts, SingleExecution,
         AttemptsWithinMax
<1> QED
  BY <1>1, TimelyInvariance, PTL

-----------------------------------------------------------------------------
(* The queue keeps its promise. *)

\* What Promise says of the tables.
StatusOf == [j \in Jobs |->
    IF Buried(j) THEN "DEAD_LETTER" ELSE background_jobs[j].status]

AttemptsOf == [j \in Jobs |->
    IF Buried(j) THEN (CHOOSE d \in dead_letter_jobs : d.job_id = j).attempts
    ELSE background_jobs[j].attempts]

\* The same without a choice.
Reported ==
    /\ \A j \in Jobs : ~Buried(j) =>
          /\ StatusOf[j] = background_jobs[j].status
          /\ AttemptsOf[j] = background_jobs[j].attempts
    /\ \A d \in dead_letter_jobs :
          /\ d.job_id \in Jobs
          /\ StatusOf[d.job_id] = "DEAD_LETTER"
          /\ AttemptsOf[d.job_id] = d.attempts

LEMMA TheLetter ==
  ASSUME NEW letters, NEW d \in letters, \A c \in letters : c.job_id = d.job_id => c = d
  PROVE  (CHOOSE c \in letters : c.job_id = d.job_id) = d
  OBVIOUS

LEMMA TablesReported == IInv => Reported
<1> SUFFICES ASSUME IInv PROVE Reported
  OBVIOUS
<1>1. \A j \in Jobs : ~Buried(j) =>
          /\ StatusOf[j] = background_jobs[j].status
          /\ AttemptsOf[j] = background_jobs[j].attempts
  BY DEF StatusOf, AttemptsOf
<1>2. ASSUME NEW d \in dead_letter_jobs
      PROVE  /\ d.job_id \in Jobs
             /\ StatusOf[d.job_id] = "DEAD_LETTER"
             /\ AttemptsOf[d.job_id] = d.attempts
  <2>1. d.job_id \in Jobs /\ Buried(d.job_id)
    BY DEF IInv, TypeOK, Buried
  <2>2. (CHOOSE c \in dead_letter_jobs : c.job_id = d.job_id) = d
    BY TheLetter DEF IInv, OneHome
  <2> QED
    BY <2>1, <2>2 DEF StatusOf, AttemptsOf
<1> QED
  BY <1>1, <1>2 DEF Reported

LEMMA NextTablesReported == IInv' => Reported'
  BY TablesReported, PTL

\* A step that changes neither letters nor statuses nor attempts is invisible.
LEMMA Invisible ==
  ASSUME UNCHANGED dead_letter_jobs,
         \A j \in Jobs : /\ background_jobs'[j].status = background_jobs[j].status
                         /\ background_jobs'[j].attempts = background_jobs[j].attempts
  PROVE  StatusOf' = StatusOf /\ AttemptsOf' = AttemptsOf
  BY DEF StatusOf, AttemptsOf, Buried

\* What stops, lost answers and bad timing would break: a job is RUNNING as long
\* as a call is in progress, and what a recovery has read is not COMPLETED.
CallsOwnRows ==
    /\ \A w \in Workers : process[w] # "draining"
    /\ \A e \in executions : background_jobs[e.job].status = "RUNNING"
    /\ \A w \in Workers : \A o \in orphaned[w] :
          background_jobs[o.job_id].status \in {"RUNNING", "RETRYING", "ABSENT"}
    /\ \A j \in Jobs : ~Queued(j) => background_jobs[j].attempts = 0

\* The invariants of the queue while it can be relied upon.
Reliable == IInv /\ CallsTracked /\ Calm /\ CallsOwnRows

\* Nobody reads a row, as an orphan, that a call is at work on.
LEMMA BusyIsNotListed ==
  ASSUME Reliable, NEW e \in executions
  PROVE  ~Listed(e.job)
  BY DEF Reliable, CallsTracked, Calm, CallsExclusive, CallsOwnRows, IInv, TypeOK, Execution

\* Steps that change neither letters nor statuses nor attempts, and start no call.
LEMMA QuietPromise ==
  ASSUME Reliable, UNCHANGED dead_letter_jobs,
         \A j \in Jobs : /\ background_jobs'[j].status = background_jobs[j].status
                         /\ background_jobs'[j].attempts = background_jobs[j].attempts,
         \A w \in Workers : process'[w] # "draining",
         \A e \in executions' : \E f \in executions : e.job = f.job,
         \A w \in Workers : \A o \in orphaned'[w] :
            /\ o.job_id \in Jobs
            /\ background_jobs[o.job_id].status \in {"RUNNING", "RETRYING", "ABSENT"}
  PROVE  CallsOwnRows' /\ StatusOf' = StatusOf /\ AttemptsOf' = AttemptsOf
<1>1. \A e \in executions : e.job \in Jobs
  BY DEF Reliable, IInv, TypeOK, Execution
<1>2. CallsOwnRows'
  BY <1>1 DEF Reliable, CallsOwnRows, Queued
<1>3. StatusOf' = StatusOf /\ AttemptsOf' = AttemptsOf
  BY Invisible
<1> QED
  BY <1>2, <1>3

LEMMA EnqueuePromise ==
  ASSUME Reliable, NEW j \in Jobs, j = nextJob, Enqueue
  PROVE  CallsOwnRows' /\ Lifecycle!Enqueue(j)
<1>1. /\ ~Queued(j) /\ ~Buried(j)
      /\ \A w \in Workers : \A o \in orphaned[w] : o.job_id \in Jobs /\ o.job_id # j
      /\ \A e \in executions : e.job \in Jobs /\ e.job # j
  <2>1. ~Queued(j) /\ ~Buried(j)
    BY DEF Reliable, IInv, OneHome, Jobs
  <2>2. \A w \in Workers : \A o \in orphaned[w] : o.job_id \in Jobs /\ o.job_id # j
    BY DEF Reliable, CallsTracked, IInv, TypeOK, Jobs
  <2>3. \A e \in executions : e.job \in Jobs /\ e.job # j
    BY <2>1 DEF Reliable, CallsOwnRows, Queued, IInv, TypeOK, Execution
  <2> QED
    BY <2>1, <2>2, <2>3
<1>2. UNCHANGED <<dead_letter_jobs, process, executions, orphaned>>
  BY DEF Enqueue, calls
<1>3. /\ background_jobs'[j].status = "PENDING"
      /\ background_jobs'[j].attempts = 0
      /\ \A k \in Jobs : k # j => background_jobs'[k] = background_jobs[k]
  BY DEF Enqueue, AbsentRow, Reliable, IInv, TypeOK
<1>4. background_jobs[j].status = "ABSENT" /\ background_jobs[j].attempts = 0
  BY <1>1 DEF Queued, Reliable, CallsOwnRows
<1>5. CallsOwnRows'
  BY <1>1, <1>2, <1>3 DEF Reliable, CallsOwnRows, Queued
<1>6. \A k \in Jobs : Buried(k)' <=> Buried(k)
  BY <1>2 DEF Buried
<1>7. StatusOf[j] = "ABSENT" /\ StatusOf' = [StatusOf EXCEPT ![j] = "PENDING"]
  BY <1>1, <1>3, <1>4, <1>6 DEF StatusOf
<1>8. UNCHANGED AttemptsOf
  BY <1>2, <1>3, <1>4, <1>6 DEF AttemptsOf
<1> QED
  BY <1>5, <1>7, <1>8 DEF Lifecycle!Enqueue, Lifecycle!Become, StatusOf, AttemptsOf

LEMMA ClaimPromise ==
  ASSUME Reliable, NEW w \in Workers, NEW j \in Jobs, Claim(w, j)
  PROVE  CallsOwnRows' /\ Lifecycle!Claim(j)
<1>1. /\ Claimable(j) /\ background_jobs[j] \in Row
      /\ Queued(j) /\ ~Buried(j)
      /\ background_jobs[j].status \in {"PENDING", "RETRYING"}
      /\ background_jobs[j].attempts < MaxAttempts
  BY DEF Claim, First, Claimable, Queued, Reliable, Calm, AttemptsLeft, IInv, TypeOK, OneHome
<1>2. UNCHANGED <<dead_letter_jobs, process, orphaned>>
  BY DEF Claim
<1>3. /\ background_jobs'[j] = Claimed(background_jobs[j], w)
      /\ \A k \in Jobs : k # j => background_jobs'[k] = background_jobs[k]
  BY DEF Claim, Reliable, IInv, TypeOK
<1>4. /\ background_jobs'[j].status = "RUNNING"
      /\ background_jobs'[j].attempts = background_jobs[j].attempts + 1
  BY <1>1, <1>3, ClaimedTyped
<1>5. \A e \in executions' : e.job \in Jobs /\ (e \in executions \/ e.job = j)
  BY DEF Claim, Reliable, IInv, TypeOK, Execution
<1>6. \A v \in Workers : \A o \in orphaned[v] : o.job_id \in Jobs
  BY DEF Reliable, IInv, TypeOK
<1>7. CallsOwnRows'
  BY <1>2, <1>3, <1>4, <1>5, <1>6 DEF Reliable, CallsOwnRows, Queued
<1>8. \A k \in Jobs : Buried(k)' <=> Buried(k)
  BY <1>2 DEF Buried
<1>9. /\ StatusOf[j] \in {"PENDING", "RETRYING"}
      /\ StatusOf' = [StatusOf EXCEPT ![j] = "RUNNING"]
  BY <1>1, <1>3, <1>4, <1>8 DEF StatusOf
<1>10. /\ AttemptsOf[j] = background_jobs[j].attempts
       /\ AttemptsOf'[j] = background_jobs[j].attempts + 1
       /\ \A k \in Jobs : k # j => AttemptsOf'[k] = AttemptsOf[k]
  BY <1>1, <1>2, <1>3, <1>4, <1>8 DEF AttemptsOf
<1>11. AttemptsOf' = [AttemptsOf EXCEPT ![j] = @ + 1]
  <2>1. AttemptsOf' = [k \in Jobs |-> AttemptsOf'[k]] /\ AttemptsOf = [k \in Jobs |-> AttemptsOf[k]]
    BY DEF AttemptsOf
  <2> QED
    BY <1>10, <2>1
<1> QED
  BY <1>1, <1>7, <1>9, <1>10, <1>11 DEF Lifecycle!Claim, Lifecycle!Become, StatusOf, AttemptsOf

LEMMA CompletePromise ==
  ASSUME Reliable, NEW e \in executions, Complete(e), UNCHANGED faults
  PROVE  CallsOwnRows' /\ Lifecycle!Complete(e.job)
<1>1. /\ e.job \in Jobs /\ background_jobs[e.job] \in Row
      /\ background_jobs[e.job].status = "RUNNING"
      /\ ~Buried(e.job)
  BY DEF Reliable, CallsOwnRows, IInv, TypeOK, Execution, OneHome, Queued
<1>2. /\ executions' = executions \ {e}
      /\ UNCHANGED <<dead_letter_jobs, process, orphaned>>
  <2>1. ~Fault("ack_lost")
    BY DEF Fault, Reliable, IInv, TypeOK, Faults
  <2> QED
    BY <2>1 DEF Complete, Return
<1>3. /\ background_jobs'[e.job].status = "COMPLETED"
      /\ background_jobs'[e.job].attempts = background_jobs[e.job].attempts
      /\ \A j \in Jobs : j # e.job => background_jobs'[j] = background_jobs[j]
  BY <1>1 DEF Complete, Completed, Row, Reliable, IInv, TypeOK
<1>4. \A f \in executions' : f.job \in Jobs /\ f.job # e.job
  BY <1>2 DEF Reliable, Calm, CallsExclusive, IInv, TypeOK, Execution
<1>5. \A w \in Workers : \A o \in orphaned[w] : o.job_id \in Jobs /\ o.job_id # e.job
  BY BusyIsNotListed DEF Listed, Reliable, IInv, TypeOK
<1>6. CallsOwnRows'
  BY <1>1, <1>2, <1>3, <1>4, <1>5 DEF Reliable, CallsOwnRows, Queued
<1>7. \A j \in Jobs : Buried(j)' <=> Buried(j)
  BY <1>2 DEF Buried
<1>8. StatusOf[e.job] = "RUNNING" /\ StatusOf' = [StatusOf EXCEPT ![e.job] = "COMPLETED"]
  BY <1>1, <1>3, <1>7 DEF StatusOf
<1>9. UNCHANGED AttemptsOf
  BY <1>2, <1>3, <1>7 DEF AttemptsOf
<1> QED
  BY <1>6, <1>8, <1>9 DEF Lifecycle!Complete, Lifecycle!Become, StatusOf, AttemptsOf
\* Whoever settles jobs retires those that are RUNNING, and changes no other.
LEMMA SettlePromise ==
  ASSUME Reliable, Reported, Reported', NEW read,
         read \subseteq [job_id : Jobs, attempts : Nat], Settle(read),
         \A x \in read : /\ Queued(x.job_id) => x.attempts = background_jobs[x.job_id].attempts
                         /\ background_jobs[x.job_id].status \in {"RUNNING", "RETRYING", "ABSENT"},
         UNCHANGED process,
         \A e \in executions' : e \in executions /\ \A x \in read : x.job_id # e.job,
         \A w \in Workers : orphaned'[w] \subseteq orphaned[w]
  PROVE  /\ CallsOwnRows'
         /\ \E S \in SUBSET Jobs : Lifecycle!Retire(S)
<1> DEFINE IsRead(j) == \E x \in read : x.job_id = j
           S == {j \in Jobs : IsRead(j) /\ background_jobs[j].status = "RUNNING"}
<1>1. /\ \A j \in Jobs : ~IsRead(j) => background_jobs'[j] = background_jobs[j]
      /\ \A j \in Jobs : IsRead(j) =>
             \/ background_jobs'[j].status = "ABSENT" /\ background_jobs'[j].attempts = 0
             \/ /\ Queued(j) /\ j \notin Spent(read)
                /\ background_jobs'[j].status = "RETRYING"
                /\ ~background_jobs'[j].due
                /\ background_jobs'[j].attempts = background_jobs[j].attempts
             \/ ~Queued(j) /\ background_jobs'[j] = background_jobs[j]
      /\ \A d \in dead_letter_jobs' :
             \/ d \in dead_letter_jobs
             \/ /\ d.job_id \in Spent(read) /\ Queued(d.job_id)
                /\ d.attempts = background_jobs[d.job_id].attempts
  BY SettledRows DEF Reliable, IInv
<1>2. dead_letter_jobs' = dead_letter_jobs \cup
          {[job_id |-> j, attempts |-> background_jobs[j].attempts] :
              j \in {k \in Spent(read) : Queued(k)}}
  BY DEF Settle, Letters
<1>3. \A j \in Spent(read) : j \in Jobs /\ IsRead(j) /\ background_jobs'[j].status = "ABSENT"
  BY DEF Spent, Settle, AbsentRow
<1>4. \A j \in Jobs : /\ background_jobs[j].attempts \in Nat
                      /\ background_jobs[j].attempts <= MaxAttempts
                      /\ background_jobs[j].status = "RETRYING"
                            => background_jobs[j].attempts < MaxAttempts
  BY DEF Reliable, Calm, AttemptsLeft, IInv, TypeOK, Row
<1>5. \A j \in Jobs : IsRead(j) /\ Queued(j) =>
          (j \in Spent(read) <=> ~(background_jobs[j].attempts < MaxAttempts))
  BY <1>4, JobQueueAssumption DEF Spent
<1> HIDE DEF IsRead
<1>6. CallsOwnRows'
  <2>1. \A e \in executions' : e.job \in Jobs /\ ~IsRead(e.job)
    BY DEF IsRead, Reliable, IInv, TypeOK, Execution
  <2>2. \A w \in Workers : \A o \in orphaned[w] : o.job_id \in Jobs
    BY DEF Reliable, IInv, TypeOK
  <2> QED
    BY <1>1, <2>1, <2>2 DEF Reliable, CallsOwnRows, Queued
<1>7. \A j \in Jobs : Queued(j) => ~Buried(j)
  BY DEF Reliable, IInv, OneHome
<1>8. ASSUME NEW j \in S
      PROVE  /\ StatusOf[j] = "RUNNING"
             /\ AttemptsOf[j] = background_jobs[j].attempts
             /\ StatusOf'[j] = IF AttemptsOf[j] < MaxAttempts THEN "RETRYING" ELSE "DEAD_LETTER"
             /\ AttemptsOf'[j] = AttemptsOf[j]
  <2>1. j \in Jobs /\ IsRead(j) /\ Queued(j) /\ background_jobs[j].status = "RUNNING"
    BY DEF Queued
  <2>2. StatusOf[j] = "RUNNING" /\ AttemptsOf[j] = background_jobs[j].attempts
    BY <1>7, <2>1 DEF Reported
  <2>3. CASE j \in Spent(read)
    <3>1. [job_id |-> j, attempts |-> background_jobs[j].attempts] \in dead_letter_jobs'
      BY <1>2, <2>1, <2>3
    <3>2. StatusOf'[j] = "DEAD_LETTER" /\ AttemptsOf'[j] = background_jobs[j].attempts
      BY <3>1 DEF Reported
    <3> QED
      BY <1>5, <2>1, <2>2, <2>3, <3>2
  <2>4. CASE j \notin Spent(read)
    <3>1. /\ background_jobs'[j].status = "RETRYING"
          /\ background_jobs'[j].attempts = background_jobs[j].attempts
      <4>1. background_jobs'[j] = Failed(background_jobs[j]) /\ background_jobs[j] \in Row
        BY <2>1, <2>4 DEF Settle, IsRead, Reliable, IInv, TypeOK
      <4> QED
        BY <2>1, <4>1 DEF Failed, Row
    <3>2. ~Buried(j)'
      BY <1>1, <1>7, <2>1, <2>4 DEF Buried
    <3> QED
      BY <1>5, <2>1, <2>2, <2>4, <3>1, <3>2 DEF Reported
  <2> QED
    BY <2>3, <2>4
<1>9. ASSUME NEW j \in Jobs, j \notin S
      PROVE  StatusOf'[j] = StatusOf[j] /\ AttemptsOf'[j] = AttemptsOf[j]
  <2>1. ~(Queued(j) /\ j \in Spent(read))
    <3>1. CASE IsRead(j) /\ Queued(j)
      <4>1. background_jobs[j].status = "RETRYING"
        BY <1>9, <3>1 DEF IsRead, Queued
      <4> QED
        BY <1>4, <1>5, <3>1, <4>1
    <3> QED
      BY <1>3, <3>1
  <2>2. CASE Buried(j)
    <3>1. PICK d \in dead_letter_jobs : d.job_id = j
      BY <2>2 DEF Buried
    <3>2. d \in dead_letter_jobs'
      BY <1>2
    <3> QED
      BY <3>1, <3>2 DEF Reported
  <2>3. CASE ~Buried(j)
    <3>1. ~Buried(j)'
      BY <1>1, <2>1, <2>3 DEF Buried
    <3>2. /\ background_jobs'[j].status = background_jobs[j].status
          /\ background_jobs'[j].attempts = background_jobs[j].attempts
      <4>1. CASE ~IsRead(j)
        BY <1>1, <4>1
      <4>2. CASE IsRead(j) /\ ~Queued(j)
        BY <1>1, <4>2 DEF Queued, Reliable, CallsOwnRows
      <4>3. CASE IsRead(j) /\ Queued(j)
        <5>1. background_jobs[j].status = "RETRYING"
          BY <1>9, <4>3 DEF IsRead, Queued
        <5>2. background_jobs'[j] = Failed(background_jobs[j]) /\ background_jobs[j] \in Row
          BY <2>1, <4>3 DEF Settle, IsRead, Reliable, IInv, TypeOK
        <5> QED
          BY <5>1, <5>2 DEF Failed, Row
      <4> QED
        BY <4>1, <4>2, <4>3
    <3> QED
      BY <2>3, <3>1, <3>2 DEF Reported
  <2> QED
    BY <2>2, <2>3
<1>10. /\ DOMAIN StatusOf = Jobs /\ DOMAIN StatusOf' = Jobs
       /\ StatusOf' = [j \in Jobs |-> StatusOf'[j]]
       /\ AttemptsOf = [j \in Jobs |-> AttemptsOf[j]]
       /\ AttemptsOf' = [j \in Jobs |-> AttemptsOf'[j]]
  BY DEF StatusOf, AttemptsOf
<1>11. AttemptsOf' = AttemptsOf
  BY <1>8, <1>9, <1>10
<1>12. StatusOf' = [j \in Jobs |->
          IF j \notin S THEN StatusOf[j]
          ELSE IF AttemptsOf[j] < MaxAttempts THEN "RETRYING" ELSE "DEAD_LETTER"]
  BY <1>8, <1>9, <1>10
<1>13. S \in SUBSET Jobs /\ \A j \in S : StatusOf[j] = "RUNNING"
  BY <1>8
<1> HIDE DEF S
<1>14. PICK R \in SUBSET Jobs : R = S
  BY <1>13
<1>15. Lifecycle!Retire(R)
  BY <1>11, <1>12, <1>13, <1>14 DEF Lifecycle!Retire, StatusOf, AttemptsOf
<1> QED
  BY <1>6, <1>14, <1>15

LEMMA RecordFailurePromise ==
  ASSUME Reliable, Reported, Reported', NEW e \in executions, RecordFailure(e)
  PROVE  /\ CallsOwnRows'
         /\ \E S \in SUBSET Jobs : Lifecycle!Retire(S)
<1> DEFINE read == {[job_id |-> e.job, attempts |-> e.attempts]}
<1>1. Settle(read) /\ executions' = executions \ {e} /\ UNCHANGED <<process, orphaned>>
  BY DEF RecordFailure, Return
<1>2. /\ read \subseteq [job_id : Jobs, attempts : Nat]
      /\ \A x \in read : x.job_id = e.job /\ x.attempts = e.attempts
  BY DEF Reliable, IInv, TypeOK, Execution
<1> HIDE DEF read
<1>3. \A x \in read : /\ Queued(x.job_id) => x.attempts = background_jobs[x.job_id].attempts
                      /\ background_jobs[x.job_id].status \in {"RUNNING", "RETRYING", "ABSENT"}
  BY <1>2 DEF Reliable, Calm, ReadingsTrue, CallsOwnRows
<1>4. \A f \in executions' : f \in executions /\ \A x \in read : x.job_id # f.job
  BY <1>1, <1>2 DEF Reliable, Calm, CallsExclusive
<1> QED
  BY <1>1, <1>2, <1>3, <1>4, SettlePromise

LEMMA ResetOrphansPromise ==
  ASSUME Reliable, Reported, Reported', NEW w \in Workers, ResetOrphans(w)
  PROVE  /\ CallsOwnRows'
         /\ \E S \in SUBSET Jobs : Lifecycle!Retire(S)
<1>1. Settle(orphaned[w]) /\ UNCHANGED <<process, executions>>
  BY DEF ResetOrphans, calls
<1>2. /\ orphaned[w] \subseteq [job_id : Jobs, attempts : Nat]
      /\ \A v \in Workers : orphaned'[v] \subseteq orphaned[v]
  BY DEF ResetOrphans, Reliable, IInv, TypeOK
<1>3. \A x \in orphaned[w] :
          /\ Queued(x.job_id) => x.attempts = background_jobs[x.job_id].attempts
          /\ background_jobs[x.job_id].status \in {"RUNNING", "RETRYING", "ABSENT"}
  BY DEF Reliable, Calm, ReadingsTrue, CallsOwnRows
<1>4. \A f \in executions : \A x \in orphaned[w] : x.job_id # f.job
  BY BusyIsNotListed DEF Listed
<1> QED
  BY <1>1, <1>2, <1>3, <1>4, SettlePromise

\* Processes, and whatever only calls and recoveries know.
LEMMA ProcessPromise ==
  ASSUME Reliable, Disturbances \subseteq {"crash", "db_error"},
         \/ \E w \in Workers :
               \/ Start(w) \/ Stop(w) \/ Exit(w) \/ Crash(w)
               \/ FindOrphanedJobs(w) \/ RecoveryFails(w)
         \/ \E e \in executions :
               CommitWork(e) \/ WorkFails(e) \/ CompleteFails(e) \/ RecordFailureFails(e)
         \/ UNCHANGED vars
  PROVE  CallsOwnRows' /\ StatusOf' = StatusOf /\ AttemptsOf' = AttemptsOf
<1>1. UNCHANGED <<background_jobs, dead_letter_jobs>>
  BY DEF Start, Stop, Exit, Crash, Vanish, FindOrphanedJobs, RecoveryFails, CommitWork,
     WorkFails, CompleteFails, RecordFailureFails, vars, tables
<1>2. \A w \in Workers : ~Stop(w) /\ process[w] # "draining"
  BY DEF Stop, Fault, Reliable, CallsOwnRows
<1>3. \A w \in Workers : process'[w] # "draining"
  BY <1>2 DEF Start, Exit, Crash, Vanish, FindOrphanedJobs, RecoveryFails, CommitWork,
     WorkFails, CompleteFails, RecordFailureFails, vars, Reliable, IInv, TypeOK
<1>4. \A e \in executions' : \E f \in executions : e.job = f.job
  <2>1. CASE executions' \subseteq executions
    BY <2>1
  <2>2. ASSUME NEW e \in executions, NEW p, Proceed(e, p)
        PROVE  \A f \in executions' : f \in executions \/ f.job = e.job
    BY <2>2 DEF Proceed, Reliable, IInv, TypeOK, Execution
  <2>3. CASE \E e \in executions : CommitWork(e) \/ WorkFails(e) \/ CompleteFails(e)
    BY <2>2, <2>3 DEF CommitWork, WorkFails, CompleteFails
  <2> QED
    BY <2>1, <2>3 DEF Start, Stop, Exit, Crash, Vanish, FindOrphanedJobs, RecoveryFails,
       RecordFailureFails, Return, calls, vars
<1>5. \A w \in Workers : \A o \in orphaned'[w] :
          /\ o.job_id \in Jobs
          /\ background_jobs[o.job_id].status \in {"RUNNING", "RETRYING", "ABSENT"}
  <2>1. \A w \in Workers : \A o \in orphaned[w] :
            /\ o.job_id \in Jobs
            /\ background_jobs[o.job_id].status \in {"RUNNING", "RETRYING", "ABSENT"}
    BY DEF Reliable, CallsOwnRows, IInv, TypeOK
  <2>2. CASE \E w \in Workers : FindOrphanedJobs(w)
    <3>1. PICK w \in Workers : FindOrphanedJobs(w)
      BY <2>2
    <3>2. \A o \in orphaned'[w] :
              o.job_id \in Jobs /\ background_jobs[o.job_id].status = "RUNNING"
      BY <3>1 DEF FindOrphanedJobs, Reliable, IInv, TypeOK
    <3>3. \A v \in Workers : v # w => orphaned'[v] = orphaned[v]
      BY <3>1 DEF FindOrphanedJobs, Reliable, IInv, TypeOK
    <3> QED
      BY <2>1, <3>2, <3>3
  <2>3. CASE \A w \in Workers : orphaned'[w] \subseteq orphaned[w]
    BY <2>1, <2>3
  <2> QED
    BY <2>2, <2>3 DEF Start, Stop, Exit, Crash, Vanish, RecoveryFails, CommitWork, WorkFails,
       CompleteFails, RecordFailureFails, vars, Reliable, IInv, TypeOK
<1> QED
  BY <1>1, <1>3, <1>4, <1>5, QuietPromise

\* Heartbeats and the clock.
LEMMA ClockPromise ==
  ASSUME Reliable,
         \/ \E w \in Workers : Heartbeat(w)
         \/ \E j \in Jobs : HeartbeatExpires(j) \/ BackoffExpires(j)
  PROVE  CallsOwnRows' /\ StatusOf' = StatusOf /\ AttemptsOf' = AttemptsOf
<1>1. UNCHANGED <<dead_letter_jobs, process, executions, orphaned>>
  BY DEF Heartbeat, HeartbeatExpires, BackoffExpires, calls
<1>2. \A j \in Jobs : /\ background_jobs'[j].status = background_jobs[j].status
                      /\ background_jobs'[j].attempts = background_jobs[j].attempts
  BY DEF Heartbeat, HeartbeatExpires, BackoffExpires, Reliable, IInv, TypeOK, Row
<1>3. \A w \in Workers : \A o \in orphaned'[w] :
          /\ o.job_id \in Jobs
          /\ background_jobs[o.job_id].status \in {"RUNNING", "RETRYING", "ABSENT"}
  BY <1>1 DEF Reliable, CallsOwnRows, IInv, TypeOK
<1>4. \A w \in Workers : process'[w] # "draining"
  BY <1>1 DEF Reliable, CallsOwnRows
<1> QED
  BY <1>1, <1>2, <1>3, <1>4, QuietPromise

\* Every step of a reliable queue is a step of the lives of its jobs, or invisible.
LEMMA NextPromise ==
  ASSUME Reliable, IInv', Disturbances \subseteq {"crash", "db_error"}, [Next]_vars
  PROVE  /\ CallsOwnRows'
         /\ Lifecycle!Next \/ (StatusOf' = StatusOf /\ AttemptsOf' = AttemptsOf)
<1>1. Reported /\ Reported'
  BY TablesReported, NextTablesReported DEF Reliable
<1>2. \A kind : Fault(kind) => kind \in {"crash", "db_error"} /\ ~UNCHANGED faults
  BY DEF Fault, Reliable, IInv, TypeOK, Faults
<1>3. CASE Enqueue
  <2>1. PICK j \in Jobs : j = nextJob
    BY <1>3, JobQueueAssumption DEF Enqueue, Jobs, Reliable, IInv, TypeOK
  <2> QED
    BY <1>3, <2>1, EnqueuePromise DEF Lifecycle!Next
<1>4. CASE \E w \in Workers, j \in Jobs : Claim(w, j) \/ ClaimAckLost(w, j)
  <2>1. \A w \in Workers, j \in Jobs : ~ClaimAckLost(w, j)
    BY <1>2 DEF ClaimAckLost
  <2> QED
    BY <1>4, <2>1, ClaimPromise DEF Lifecycle!Next
<1>5. CASE \E e \in executions : Complete(e)
  <2>1. PICK e \in executions : Complete(e)
    BY <1>5
  <2>2. UNCHANGED faults
    BY <1>2, <2>1 DEF Complete
  <2>3. e.job \in Jobs
    BY DEF Reliable, IInv, TypeOK, Execution
  <2> QED
    BY <2>1, <2>2, <2>3, CompletePromise DEF Lifecycle!Next
<1>6. CASE \E e \in executions : RecordFailure(e)
  BY <1>1, <1>6, RecordFailurePromise DEF Lifecycle!Next
<1>7. CASE \E w \in Workers : ResetOrphans(w)
  BY <1>1, <1>7, ResetOrphansPromise DEF Lifecycle!Next
<1>8. CASE \/ \E w \in Workers : Heartbeat(w)
           \/ \E j \in Jobs : HeartbeatExpires(j) \/ BackoffExpires(j)
  BY <1>8, ClockPromise
<1>9. CASE \/ \E w \in Workers :
                 \/ Start(w) \/ Stop(w) \/ Exit(w) \/ Crash(w)
                 \/ FindOrphanedJobs(w) \/ RecoveryFails(w)
           \/ \E e \in executions :
                 CommitWork(e) \/ WorkFails(e) \/ CompleteFails(e) \/ RecordFailureFails(e)
           \/ UNCHANGED vars
  BY <1>9, ProcessPromise
<1> QED
  BY <1>3, <1>4, <1>5, <1>6, <1>7, <1>8, <1>9 DEF Next, Work, Execute

\* Nothing is late unless it is a disturbance.
LEMMA AlwaysTimely ==
  ASSUME IInv, Disturbances \subseteq {"crash", "db_error"}
  PROVE  Timely
  BY DEF Timely, IInv, TypeOK, Faults

\* As long as nothing worse happens than crashes and failing transactions, the
\* queue implements JobLifecycle: a job is claimed once per attempt, retried while
\* attempts remain, and COMPLETED or in the dead letter queue for good.
THEOREM QueueKeepsPromise ==
  ASSUME Disturbances \subseteq {"crash", "db_error"}
  PROVE  Spec => Promise
<1>1. Init => CallsOwnRows
  BY JobQueueAssumption DEF Init, CallsOwnRows, AbsentRow
<1>2. Init => Lifecycle!Init
  BY DEF Init, AbsentRow, Buried, Lifecycle!Init
<1>3. IInv /\ IInv' /\ TimelyInv /\ CallsOwnRows /\ [Next]_vars =>
        /\ CallsOwnRows'
        /\ [Lifecycle!Next]_<<StatusOf, AttemptsOf>>
  BY NextPromise, AlwaysTimely DEF Reliable, TimelyInv
<1>4. IInv /\ IInv' /\ TimelyInv /\ CallsOwnRows /\ [Next]_vars => CallsOwnRows'
  BY <1>3
<1>5. IInv /\ IInv' /\ TimelyInv /\ CallsOwnRows /\ [Next]_vars => [Lifecycle!Next]_(Lifecycle!vars)
  BY <1>3 DEF Lifecycle!vars, StatusOf, AttemptsOf
<1> QED
  BY <1>1, <1>2, <1>4, <1>5, Invariance, TimelyInvariance, PTL DEF Spec, Promise, Lifecycle!Spec

-----------------------------------------------------------------------------
(* The scheduler and the Run History page, whatever goes wrong in the queue. *)

\* A queued job has a date and a batch.
PayloadsQueued ==
    \A j \in Jobs : j < nextJob => payload[j].runDate \in Days /\ payload[j].batchId \in Batches

\* A callback that found a batch has a day to queue it for.
TasksDated == \A w \in Workers : cron[w].batch # 0 => cron[w].day \in Days

\* A run is what the payload of its job says, and the job is queued.
RunsAsQueued ==
    \A r \in runs : /\ r.job < nextJob
                    /\ r.runDate = payload[r.job].runDate
                    /\ r.batchId = payload[r.job].batchId

\* Where work was committed there is a run.
WorkHasRuns == \A j \in Jobs : committed[j] # {} => \E r \in runs : r.job = j

\* The job of the page, once it knows one, carries the chosen date and a batch
\* no older than the newest one when the button was pressed.
PageHasJob ==
    /\ page.job \in Jobs
    /\ page.job < nextJob
    /\ payload[page.job].runDate = page.date
    /\ payload[page.job].batchId >= page.since

PageKnows ==
    /\ page.stage # "idle" => page.told = "nothing"
    /\ page.stage \in {"posted", "found", "waiting"} => page.date \in Days /\ page.since <= newest
    /\ page.stage = "found" => page.batch \in Batches /\ page.batch >= page.since
    /\ page.stage = "waiting" \/ page.told \in {"completed", "failed"} => PageHasJob
    /\ page.told = "completed" => committed[page.job] # {}
    /\ page.told = "failed" => Buried(page.job)

\* The inductive invariant.  IInv is that of the queue.
RequestsInv ==
    /\ IInv
    /\ RequestsTypeOK
    /\ PayloadsQueued
    /\ TasksDated
    /\ RunsAsQueued
    /\ WorkHasRuns
    /\ PageKnows

-----------------------------------------------------------------------------

\* Whatever the requests do, the queue sees steps of its own or none.
LEMMA QueueStep == SystemNext => [Next]_vars
<1> SUFFICES ASSUME SystemNext PROVE [Next]_vars
  OBVIOUS
<1>1. CASE Import \/ NextDay \/ FindBatch \/ Check \/ Despair
  BY <1>1 DEF Import, NextDay, FindBatch, Check, Despair
<1>2. CASE \E w \in Workers : Fire(w) \/ QueueDay(w)
  BY <1>2 DEF Fire, QueueDay, QueueRun, Next
<1>3. CASE \E d \in Days : Press(d)
  BY <1>3 DEF Press
<1>4. CASE QueueAsked
  BY <1>4 DEF QueueAsked, QueueRun, Next
<1>5. CASE QueueWorks
  BY <1>5 DEF QueueWorks, Next
<1> QED
  BY <1>1, <1>2, <1>3, <1>4, <1>5 DEF SystemNext

\* The workers queue nothing, bury for good, and commit work only under the
\* attempt of a call.
WorkFacts ==
    /\ nextJob' = nextJob
    /\ dead_letter_jobs \subseteq dead_letter_jobs'
    /\ \A j \in Jobs : committed[j] \subseteq committed'[j]
    /\ \A j \in Jobs : \A a \in committed'[j] \ committed[j] :
          \E e \in executions : e.job = j /\ e.attempts = a

LEMMA WorkIsHonest ==
  ASSUME TypeOK, Work
  PROVE  WorkFacts
<1>1. CASE UNCHANGED committed
  <2>1. nextJob' = nextJob /\ dead_letter_jobs \subseteq dead_letter_jobs'
    BY DEF Work, Execute, Start, Stop, Exit, Crash, Vanish, Claim, ClaimAckLost, Heartbeat,
           FindOrphanedJobs, ResetOrphans, RecoveryFails, CommitWork, WorkFails, Complete,
           RecordFailure, CompleteFails, RecordFailureFails, HeartbeatExpires, BackoffExpires,
           Settle, tables
  <2> QED
    BY <1>1, <2>1 DEF WorkFacts
<1>2. CASE \E e \in executions : CommitWork(e)
  <2>1. PICK e \in executions : CommitWork(e)
    BY <1>2
  <2>2. e.job \in Jobs
    BY DEF TypeOK, Execution
  <2>3. /\ nextJob' = nextJob /\ dead_letter_jobs' = dead_letter_jobs
        /\ committed' = [committed EXCEPT ![e.job] = @ \cup {e.attempts}]
    BY <2>1 DEF CommitWork, tables
  <2> QED
    BY <2>2, <2>3 DEF WorkFacts, TypeOK
<1>3. UNCHANGED committed \/ \E e \in executions : CommitWork(e)
  BY DEF Work, Execute, Start, Stop, Exit, Crash, Vanish, Claim, ClaimAckLost, Heartbeat,
         FindOrphanedJobs, ResetOrphans, RecoveryFails, WorkFails, Complete,
         RecordFailure, CompleteFails, RecordFailureFails, HeartbeatExpires, BackoffExpires
<1> QED
  BY <1>1, <1>2, <1>3

LEMMA InitRequests == SystemInit => RequestsInv
<1> SUFFICES ASSUME SystemInit PROVE RequestsInv
  OBVIOUS
<1>1. IInv
  BY InitIInv DEF SystemInit
<1>2. RequestsTypeOK
  BY RunRequestsAssumption
     DEF SystemInit, RequestsTypeOK, Days, Batches, Payload, Task, NoTask, Page, FreshPage
<1>3. PayloadsQueued /\ TasksDated /\ RunsAsQueued
  BY DEF SystemInit, Init, PayloadsQueued, TasksDated, RunsAsQueued, NoTask, Jobs
<1>4. WorkHasRuns /\ PageKnows
  BY DEF SystemInit, Init, WorkHasRuns, PageKnows, FreshPage
<1> QED
  BY <1>1, <1>2, <1>3, <1>4 DEF RequestsInv

-----------------------------------------------------------------------------

\* Import, NextDay and the first half of the scheduler's callback.
LEMMA WorldStep ==
  ASSUME RequestsInv, IInv',
         Import \/ NextDay \/ \E w \in Workers : Fire(w)
  PROVE  RequestsInv'
<1> USE DEF RequestsInv
<1>1. RequestsTypeOK' /\ TasksDated'
  <2>1. CASE Import
    BY <2>1, RunRequestsAssumption DEF Import, RequestsTypeOK, Batches, TasksDated
  <2>2. CASE NextDay
    BY <2>2, RunRequestsAssumption DEF NextDay, RequestsTypeOK, Days, TasksDated
  <2>3. CASE \E w \in Workers : Fire(w)
    BY <2>3 DEF Fire, RequestsTypeOK, Task, TasksDated
  <2> QED
    BY <2>1, <2>2, <2>3
<1>2. UNCHANGED <<vars, payload, page, runs>> /\ newest <= newest'
  BY RunRequestsAssumption DEF Import, NextDay, Fire, RequestsTypeOK, Batches
<1>3. PayloadsQueued' /\ RunsAsQueued' /\ WorkHasRuns'
  BY <1>2 DEF PayloadsQueued, RunsAsQueued, WorkHasRuns, vars, tables
<1>4. PageKnows'
  <2>1. UNCHANGED <<nextJob, dead_letter_jobs, committed, payload, page>>
    BY <1>2 DEF vars, tables
  <2>2. PageHasJob' <=> PageHasJob
    BY <2>1 DEF PageHasJob
  <2>3. Buried(page.job)' <=> Buried(page.job)
    BY <2>1 DEF Buried
  <2>4. page.since \in Nat /\ newest \in Nat /\ newest' \in Nat
    BY <1>1, RunRequestsAssumption DEF RequestsTypeOK, Page, Batches
  <2>5. page.since <= newest => page.since <= newest'
    BY <1>2, <2>4
  <2> QED
    BY <2>1, <2>2, <2>3, <2>5 DEF PageKnows
<1> QED
  BY <1>1, <1>3, <1>4

\* The steps of the page that queue nothing.
LEMMA PageStep ==
  ASSUME RequestsInv, IInv',
         (\E d \in Days : Press(d)) \/ FindBatch \/ Check \/ Despair
  PROVE  RequestsInv'
<1> USE DEF RequestsInv
<1>1. UNCHANGED <<vars, today, newest, payload, cron, runs>>
  BY DEF Press, FindBatch, Check, Despair
<1>2. PayloadsQueued' /\ TasksDated' /\ RunsAsQueued' /\ WorkHasRuns'
  BY <1>1 DEF PayloadsQueued, TasksDated, RunsAsQueued, WorkHasRuns, vars, tables
<1>3. page' \in Page /\ PageKnows'
  <2>1. CASE \E d \in Days : Press(d)
    <3>1. PICK d \in Days : Press(d)
      BY <2>1
    <3>2. page' = [ stage |-> "posted", date |-> d, since |-> newest, batch |-> 0, job |-> 0,
                    checks |-> 0, told |-> "nothing" ]
      BY <3>1 DEF Press, FreshPage
    <3>3. newest \in Nat /\ newest \in Batches \cup {0}
      BY RunRequestsAssumption DEF RequestsTypeOK, Batches
    <3>4. page' \in Page
      BY <3>2, <3>3, RunRequestsAssumption DEF Page
    <3> QED
      BY <1>1, <3>2, <3>3, <3>4 DEF PageKnows
  <2>2. CASE FindBatch
    BY <1>1, <2>2 DEF FindBatch, Page, PageKnows, PageHasJob, RequestsTypeOK, Batches,
                      Buried, vars, tables
  <2>3. CASE Despair \/ (Check /\ Tell("error"))
    <3>1. page' = [FreshPage EXCEPT !.told = "error"]
      BY <2>3 DEF Despair, Tell
    <3>2. page' = [ stage |-> "idle", date |-> 0, since |-> 0, batch |-> 0, job |-> 0,
                    checks |-> 0, told |-> "error" ]
      BY <3>1 DEF FreshPage
    <3>3. page' \in Page
      BY <3>2, RunRequestsAssumption DEF Page
    <3>4. page'.stage = "idle" /\ page'.told = "error"
      BY <3>2
    <3> QED
      BY <3>3, <3>4 DEF PageKnows
  <2>4. CASE Check
    <3>1. page.job \in Jobs /\ PageHasJob
      BY <2>4 DEF Check, PageKnows, PageHasJob
    <3>2. CASE Buried(page.job) /\ Tell("failed")
      BY <1>1, <3>1, <3>2 DEF Tell, Page, PageKnows, PageHasJob, RequestsTypeOK, Buried,
                              vars, tables
    <3>3. CASE background_jobs[page.job].status = "COMPLETED" /\ Tell("completed")
      <4>1. committed[page.job] # {}
        BY <3>1, <3>3 DEF IInv, CompletedMeansDone
      <4> QED
        BY <1>1, <3>1, <3>3, <4>1 DEF Tell, Page, PageKnows, PageHasJob, RequestsTypeOK, Buried,
                                      vars, tables
    <3>4. CASE page.checks < MaxChecks /\ page' = [page EXCEPT !.checks = @ + 1]
      BY <1>1, <3>1, <3>4, RunRequestsAssumption
         DEF Page, PageKnows, PageHasJob, RequestsTypeOK, Buried, vars, tables
    <3> QED
      BY <2>4, <3>2, <3>3, <3>4 DEF Check
  <2> QED
    BY <2>1, <2>2, <2>3, <2>4
<1> QED
  BY <1>1, <1>2, <1>3 DEF RequestsTypeOK

\* A job is queued with its payload; runs and the jobs before it stay as they are.
LEMMA QueueKeeps ==
  ASSUME RequestsInv, NEW date \in Days, NEW batch \in Batches, QueueRun(date, batch),
         UNCHANGED runs
  PROVE  /\ nextJob \in Jobs /\ nextJob' = nextJob + 1
         /\ UNCHANGED <<committed, dead_letter_jobs>>
         /\ payload' = [payload EXCEPT ![nextJob] = [runDate |-> date, batchId |-> batch]]
         /\ payload' \in [Jobs -> Payload]
         /\ PayloadsQueued' /\ RunsAsQueued' /\ WorkHasRuns'
<1> USE DEF RequestsInv
<1>1. /\ nextJob \in Jobs /\ nextJob' = nextJob + 1
      /\ UNCHANGED <<committed, dead_letter_jobs>>
      /\ payload' = [payload EXCEPT ![nextJob] = [runDate |-> date, batchId |-> batch]]
  BY JobQueueAssumption DEF QueueRun, Enqueue, IInv, TypeOK, Jobs
<1>2. payload' \in [Jobs -> Payload]
  BY <1>1 DEF RequestsTypeOK, Payload
<1>3. PayloadsQueued'
  BY <1>1, JobQueueAssumption DEF PayloadsQueued, RequestsTypeOK, Jobs
<1>4. RunsAsQueued'
  BY <1>1, JobQueueAssumption DEF RunsAsQueued, RequestsTypeOK, Jobs
<1>5. WorkHasRuns'
  BY <1>1 DEF WorkHasRuns
<1> QED
  BY <1>1, <1>2, <1>3, <1>4, <1>5

\* The second half of the scheduler's callback.
LEMMA QueueDayStep ==
  ASSUME RequestsInv, IInv', NEW w \in Workers, QueueDay(w)
  PROVE  RequestsInv'
<1> USE DEF RequestsInv
<1>1. cron' \in [Workers -> Task] /\ TasksDated'
  BY DEF QueueDay, RequestsTypeOK, Task, TasksDated
<1>2. CASE UNCHANGED <<vars, payload>>
  BY <1>1, <1>2 DEF QueueDay, RequestsTypeOK, PayloadsQueued, RunsAsQueued, WorkHasRuns,
                    PageKnows, PageHasJob, Buried, vars, tables
<1>3. CASE QueueRun(cron[w].day, cron[w].batch)
  <2>1. cron[w].day \in Days /\ cron[w].batch \in Batches
    BY DEF QueueDay, RequestsTypeOK, Task, TasksDated
  <2>2. UNCHANGED <<today, newest, page, runs>>
    BY DEF QueueDay
  <2>3. /\ nextJob \in Jobs /\ nextJob' = nextJob + 1
        /\ UNCHANGED <<committed, dead_letter_jobs>>
        /\ payload' = [payload EXCEPT ![nextJob] =
              [runDate |-> cron[w].day, batchId |-> cron[w].batch]]
        /\ payload' \in [Jobs -> Payload]
        /\ PayloadsQueued' /\ RunsAsQueued' /\ WorkHasRuns'
    BY <1>3, <2>1, <2>2, QueueKeeps
  <2>4. PageHasJob => PageHasJob'
    BY <2>2, <2>3, JobQueueAssumption DEF PageHasJob, RequestsTypeOK, Jobs
  <2>5. PageKnows'
    BY <2>2, <2>3, <2>4 DEF PageKnows, Buried
  <2> QED
    BY <1>1, <2>2, <2>3, <2>5 DEF RequestsTypeOK
<1> QED
  BY <1>2, <1>3 DEF QueueDay

\* The handler queues what the page has asked for.
LEMMA QueueAskedStep ==
  ASSUME RequestsInv, IInv', QueueAsked
  PROVE  RequestsInv'
<1> USE DEF RequestsInv
<1>1. page.date \in Days /\ page.batch \in Batches /\ page.batch >= page.since
  BY DEF QueueAsked, PageKnows
<1>2. UNCHANGED <<today, newest, cron, runs>>
  BY DEF QueueAsked
<1>3. /\ nextJob \in Jobs /\ nextJob' = nextJob + 1
      /\ UNCHANGED <<committed, dead_letter_jobs>>
      /\ payload' = [payload EXCEPT ![nextJob] =
            [runDate |-> page.date, batchId |-> page.batch]]
      /\ payload' \in [Jobs -> Payload]
      /\ PayloadsQueued' /\ RunsAsQueued' /\ WorkHasRuns'
  BY <1>1, <1>2, QueueKeeps DEF QueueAsked
<1>4. page' \in Page /\ PageKnows'
  <2>1. CASE Tell("error")
    BY <2>1, RunRequestsAssumption DEF Tell, FreshPage, Page, PageKnows
  <2>2. CASE page' = [page EXCEPT !.stage = "waiting", !.job = nextJob]
    <3>1. page' \in Page
      BY <1>3, <2>2 DEF RequestsTypeOK, Page
    <3>2. PageHasJob'
      BY <1>1, <1>3, <2>2, JobQueueAssumption DEF PageHasJob, RequestsTypeOK, Page, Jobs
    <3>3. page.told \notin {"completed", "failed"}
      BY DEF QueueAsked, PageKnows
    <3> QED
      BY <1>1, <1>2, <3>1, <3>2, <3>3, <2>2 DEF PageKnows, QueueAsked, RequestsTypeOK, Page
  <2> QED
    BY <2>1, <2>2 DEF QueueAsked
<1>5. TasksDated'
  BY <1>2 DEF TasksDated
<1> QED
  BY <1>2, <1>3, <1>4, <1>5 DEF RequestsTypeOK

\* A step of the queue: a run appears with the work it is committed by.
LEMMA QueueWorksStep ==
  ASSUME RequestsInv, IInv', QueueWorks
  PROVE  RequestsInv'
<1> USE DEF RequestsInv
<1> DEFINE new == {f \in executions : f.attempts \in committed'[f.job] \ committed[f.job]}
<1>1. /\ Work
      /\ runs' = runs \cup {RunOf(e) : e \in new}
      /\ cron' = [w \in Workers |-> TaskAfter(w)]
      /\ UNCHANGED <<today, newest, payload, page>>
  BY DEF QueueWorks
<1>2. WorkFacts
  BY <1>1, WorkIsHonest DEF IInv
<1>3. \A e \in new : e \in executions /\ e.job \in Jobs /\ e.attempts \in Nat /\ e.job < nextJob
  <2> SUFFICES ASSUME NEW e \in executions
               PROVE  e.job \in Jobs /\ e.attempts \in Nat /\ e.job < nextJob
    OBVIOUS
  <2>1. e.job \in Jobs /\ e.attempts \in Nat
    BY DEF IInv, TypeOK, Execution
  <2>2. Counted(e.job, e.attempts)
    BY DEF IInv, AttemptsAreFenced
  <2>3. Queued(e.job) \/ Buried(e.job)
    BY <2>2 DEF Counted, Buried
  <2> QED
    BY <2>1, <2>3 DEF IInv, OneHome
<1> HIDE DEF new
<1>4. \A e \in new : /\ RunOf(e).job = e.job /\ RunOf(e).attempts = e.attempts
                     /\ RunOf(e).runDate = payload[e.job].runDate
                     /\ RunOf(e).batchId = payload[e.job].batchId
                     /\ RunOf(e) \in [job : Jobs, attempts : Nat, runDate : Days, batchId : Batches]
  BY <1>3 DEF RunOf, PayloadsQueued
<1>5. RequestsTypeOK'
  <2>1. cron' \in [Workers -> Task]
    BY <1>1 DEF RequestsTypeOK, TaskAfter, Task, NoTask
  <2> QED
    BY <1>1, <1>4, <2>1 DEF RequestsTypeOK
<1>6. PayloadsQueued' /\ TasksDated'
  BY <1>1, <1>2 DEF WorkFacts, PayloadsQueued, TasksDated, TaskAfter, NoTask
<1>7. RunsAsQueued'
  BY <1>1, <1>2, <1>3, <1>4 DEF WorkFacts, RunsAsQueued
<1>8. WorkHasRuns'
  <2> SUFFICES ASSUME NEW j \in Jobs, committed'[j] # {}
               PROVE  \E r \in runs' : r.job = j
    BY DEF WorkHasRuns
  <2>1. CASE committed[j] # {}
    BY <1>1, <2>1 DEF WorkHasRuns
  <2>2. CASE committed[j] = {}
    <3>1. PICK a \in committed'[j] \ committed[j] : TRUE
      BY <2>2
    <3>2. PICK e \in executions : e.job = j /\ e.attempts = a
      BY <1>2, <3>1 DEF WorkFacts
    <3>3. e \in new
      BY <3>1, <3>2 DEF new
    <3> QED
      BY <1>1, <1>4, <3>2, <3>3
  <2> QED
    BY <2>1, <2>2
<1>9. PageKnows'
  <2>1. PageHasJob => PageHasJob'
    BY <1>1, <1>2 DEF PageHasJob, WorkFacts
  <2>2. page.job \in Jobs => committed[page.job] \subseteq committed'[page.job]
    BY <1>2 DEF WorkFacts
  <2>3. Buried(page.job) => Buried(page.job)'
    BY <1>1, <1>2 DEF Buried, WorkFacts
  <2> QED
    BY <1>1, <2>1, <2>2, <2>3 DEF PageKnows, PageHasJob
<1> QED
  BY <1>5, <1>6, <1>7, <1>8, <1>9

-----------------------------------------------------------------------------

LEMMA NextRequests == RequestsInv /\ [SystemNext]_systemVars => RequestsInv'
<1> SUFFICES ASSUME RequestsInv, [SystemNext]_systemVars PROVE RequestsInv'
  OBVIOUS
<1>1. IInv'
  <2>1. [Next]_vars
    BY QueueStep DEF systemVars
  <2> QED
    BY <2>1, NextIInv DEF RequestsInv
<1>2. CASE UNCHANGED systemVars
  BY <1>1, <1>2 DEF systemVars, requestVars, vars, tables, RequestsInv, RequestsTypeOK,
       PayloadsQueued, TasksDated, RunsAsQueued, WorkHasRuns, PageKnows, PageHasJob, Buried
<1> QED
  BY <1>1, <1>2, WorldStep, PageStep, QueueDayStep, QueueAskedStep, QueueWorksStep
     DEF SystemNext

\* The inductive invariant holds in every reachable state.
THEOREM RequestsInvariance == SystemSpec => []RequestsInv
BY InitRequests, NextRequests, PTL DEF SystemSpec

\* The queue inside the system is the queue of JobQueue: the scheduler and the
\* page only enqueue, so whatever is proved of JobQueue holds here.
THEOREM QueueInside == SystemSpec => Spec
<1>1. SystemInit => Init
  BY DEF SystemInit
<1>2. [SystemNext]_systemVars => [Next]_vars
  BY QueueStep DEF systemVars
<1> QED
  BY <1>1, <1>2, PTL DEF SystemSpec, Spec

\* Requests, payloads, the page and the runs keep their types.
THEOREM RequestsTypeCorrect == SystemSpec => []RequestsTypeOK
BY RequestsInvariance, PTL DEF RequestsInv

\* The page says "completed" only of a job that has committed a run of the
\* chosen date and of a batch no older than what it could have seen, and
\* "failed" only of a job that is buried.
THEOREM PageIsTruthful == SystemSpec => []PageTellsTheTruth
<1>1. RequestsInv => PageTellsTheTruth
  <2> SUFFICES ASSUME RequestsInv PROVE PageTellsTheTruth
    OBVIOUS
  <2>1. ASSUME page.told = "completed"
        PROVE  \E r \in runs : r.job = page.job /\ r.runDate = page.date /\ r.batchId >= page.since
    <3>1. PageHasJob /\ committed[page.job] # {}
      BY <2>1 DEF RequestsInv, PageKnows
    <3>2. PICK r \in runs : r.job = page.job
      BY <3>1 DEF RequestsInv, WorkHasRuns, PageHasJob
    <3> QED
      BY <3>1, <3>2 DEF RequestsInv, RunsAsQueued, PageHasJob
  <2> QED
    BY <2>1 DEF PageTellsTheTruth, RequestsInv, PageKnows
<1> QED
  BY <1>1, RequestsInvariance, PTL

\* Every attempt of a job that commits a run commits it for the same date and
\* the same batch.
THEOREM RetriesStay == SystemSpec => []RetriesStayOnTheirBatch
<1>1. RequestsInv => RetriesStayOnTheirBatch
  BY DEF RequestsInv, RunsAsQueued, RetriesStayOnTheirBatch
<1> QED
  BY <1>1, RequestsInvariance, PTL

=============================================================================
