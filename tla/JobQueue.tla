------------------------------ MODULE JobQueue ------------------------------
(***************************************************************************)
(* The background job queue: the tables background_jobs and                *)
(* dead_letter_jobs, the worker processes that claim, execute, complete    *)
(* and retry jobs, their heartbeats, and the recovery loop every worker    *)
(* runs against the others' orphans.                                       *)
(*                                                                         *)
(* Each action is one committed transaction or one step of a worker        *)
(* process between two awaits.  Time is abstract: a row knows whether its  *)
(* run_at has come (due) and whether its last_heartbeat is more than 30    *)
(* seconds old (stale).  A worker id is a random UUID made when the        *)
(* process starts, so a process that died never comes back under its id.   *)
(***************************************************************************)
EXTENDS Naturals, FiniteSets

CONSTANTS
    Workers,       \* the ids worker processes may ever start with
    NoWorker,      \* worker_owner IS NULL
    MaxJobs,       \* bound: how many jobs are ever enqueued
    Priority,      \* [Jobs -> Nat], background_jobs.priority, 1 before 2
    MaxAttempts,   \* background_jobs.max_attempts
    Disturbances,  \* what may go wrong, a subset of the kinds below
    MaxFaults      \* bound: how often something goes wrong

DisturbanceKinds ==
    { "crash",            \* a worker process dies
      "stop",             \* SIGTERM: a worker drains for up to 30 seconds
      "db_error",         \* a transaction rolls back and its caller sees the error
      "ack_lost",         \* a transaction commits but its caller sees an error
      "late_heartbeat",   \* a live worker misses its heartbeats for 30 seconds
      "slow_transaction" } \* a recovery transaction or a drain outlasts a backoff

Jobs == 1..MaxJobs  \* job_id BIGSERIAL

Faults == [count : 0..MaxFaults, kinds : SUBSET Disturbances]

ASSUME JobQueueAssumption ==
    /\ NoWorker \notin Workers
    /\ MaxJobs \in Nat
    /\ Priority \in [Jobs -> Nat]
    /\ MaxAttempts \in Nat \ {0}
    /\ Disturbances \subseteq DisturbanceKinds
    /\ MaxFaults \in Nat

VARIABLES
    nextJob,          \* next value of the job_id sequence
    background_jobs,  \* [Jobs -> Row]
    dead_letter_jobs, \* set of rows [job_id, attempts]
    process,          \* [Workers -> state of the process]
    activeJobs,       \* [Workers -> keys of the worker's activeJobs map]
    executions,       \* the executeJob calls in progress
    orphaned,         \* [Workers -> rows its recovery transaction has read]
    committed,        \* [Jobs -> attempts whose work is committed]
    faults            \* what went wrong so far

tables == <<nextJob, background_jobs, dead_letter_jobs>>
calls  == <<activeJobs, executions>>
vars   == <<tables, process, calls, orphaned, committed, faults>>

Row == [ status   : {"ABSENT", "PENDING", "RUNNING", "RETRYING", "COMPLETED"},
         attempts : Nat,
         owner    : Workers \cup {NoWorker},
         due      : BOOLEAN,    \* run_at <= now()
         stale    : BOOLEAN ]   \* last_heartbeat < now() - 30 seconds

\* An executeJob call.  "working": its handler runs; "done": the handler
\* returned; "failed": the catch block is about to record the failure.
Execution == [ job : Jobs, worker : Workers, attempts : Nat,
               phase : {"working", "done", "failed"} ]

AbsentRow == [ status |-> "ABSENT", attempts |-> 0, owner |-> NoWorker,
               due |-> FALSE, stale |-> FALSE ]

TypeOK ==
    /\ nextJob \in 1..(MaxJobs + 1)
    /\ background_jobs \in [Jobs -> Row]
    /\ dead_letter_jobs \subseteq [job_id : Jobs, attempts : Nat]
    /\ process \in [Workers -> {"new", "up", "draining", "dead"}]
    /\ activeJobs \in [Workers -> SUBSET Jobs]
    /\ executions \subseteq Execution
    /\ orphaned \in [Workers -> SUBSET [job_id : Jobs, attempts : Nat]]
    /\ committed \in [Jobs -> SUBSET Nat]
    /\ faults \in Faults

Init ==
    /\ nextJob = 1
    /\ background_jobs = [j \in Jobs |-> AbsentRow]
    /\ dead_letter_jobs = {}
    /\ process = [w \in Workers |-> "new"]
    /\ activeJobs = [w \in Workers |-> {}]
    /\ executions = {}
    /\ orphaned = [w \in Workers |-> {}]
    /\ committed = [j \in Jobs |-> {}]
    /\ faults = [count |-> 0, kinds |-> {}]

\* Something goes wrong.
Fault(kind) ==
    /\ kind \in Disturbances
    /\ faults.count < MaxFaults
    /\ faults' = [count |-> faults.count + 1, kinds |-> faults.kinds \cup {kind}]

Queued(j) == background_jobs[j].status # "ABSENT"
Buried(j) == \E d \in dead_letter_jobs : d.job_id = j
Listed(j) == \E w \in Workers : \E o \in orphaned[w] : o.job_id = j
Busy(j)   == \E e \in executions : e.job = j

-----------------------------------------------------------------------------
(* The statements of jobsRepository.js, as functions of a row. *)

\* Mutant: a claim that forgets attempts = attempts + 1.
ClaimedUncounted(row, w) ==
    [ row EXCEPT !.status = "RUNNING", !.owner = w, !.stale = FALSE ]

Claimed(row, w) ==
    [ row EXCEPT !.status = "RUNNING", !.owner = w, !.stale = FALSE,
                 !.attempts = @ + 1 ]

\* completeJob and failJob find the row by job_id alone.
Completed(row) ==
    IF row.status = "ABSENT" THEN row ELSE [row EXCEPT !.status = "COMPLETED"]

\* Mutants: worker_owner is set to 0 instead of NULL; run_at is not moved, so
\* that there is no backoff.
FailedOwnerZero(row) == [row EXCEPT !.status = "RETRYING", !.owner = 0]

FailedNoBackoff(row) ==
    IF row.status = "ABSENT" THEN row
    ELSE [row EXCEPT !.status = "RETRYING", !.owner = NoWorker]

Failed(row) ==
    IF row.status = "ABSENT" THEN row
    ELSE [row EXCEPT !.status = "RETRYING", !.due = FALSE, !.owner = NoWorker]

\* The jobs whose reader saw no attempt left.  A member of read holds the
\* attempts its reader saw, which need not be those of the row any more.
Spent(read) == {x.job_id : x \in {y \in read : y.attempts >= MaxAttempts}}

\* INSERT INTO dead_letter_jobs SELECT ... FROM background_jobs.
Letters(S) ==
    { [job_id |-> j, attempts |-> background_jobs[j].attempts] :
          j \in {k \in S : Queued(k)} }

\* Mutant: moveToDlq copies the row and does not delete it.
SettleNoDelete(read) ==
    /\ background_jobs' = [j \in Jobs |->
          IF \E x \in read : x.job_id = j /\ j \notin Spent(read)
          THEN Failed(background_jobs[j]) ELSE background_jobs[j]]
    /\ dead_letter_jobs' = dead_letter_jobs \cup Letters(Spent(read))

\* moveToDlq for every job of read that is spent, failJob for the others.
Settle(read) ==
    /\ background_jobs' = [j \in Jobs |->
          IF j \in Spent(read) THEN AbsentRow
          ELSE IF \E x \in read : x.job_id = j THEN Failed(background_jobs[j])
          ELSE background_jobs[j]]
    /\ dead_letter_jobs' = dead_letter_jobs \cup Letters(Spent(read))

-----------------------------------------------------------------------------
(* The operations. *)

Enqueue ==
    /\ nextJob <= MaxJobs
    /\ background_jobs' = [background_jobs EXCEPT
            ![nextJob] = [AbsentRow EXCEPT !.status = "PENDING", !.due = TRUE]]
    /\ nextJob' = nextJob + 1
    /\ UNCHANGED <<dead_letter_jobs, process, calls, orphaned, committed, faults>>

Start(w) ==
    /\ process[w] = "new"
    /\ process' = [process EXCEPT ![w] = "up"]
    /\ UNCHANGED <<tables, calls, orphaned, committed, faults>>

\* Mutants: the claim's status filter admits running or completed jobs.
ClaimableRunning(j) ==
    background_jobs[j].status \in {"PENDING", "RUNNING", "RETRYING"}

ClaimableCompleted(j) == Queued(j) /\ background_jobs[j].status # "RUNNING"

Claimable(j) ==
    background_jobs[j].status \in {"PENDING", "RETRYING"} /\ background_jobs[j].due

\* ORDER BY priority, created_at.
Before(j, k) == Priority[j] < Priority[k] \/ (Priority[j] = Priority[k] /\ j <= k)

\* SKIP LOCKED passes over a row that a transaction in flight has updated.
First(j) ==
    /\ Claimable(j)
    /\ \A k \in Jobs : Claimable(k) => Before(j, k) \/ Listed(k) \/ Busy(k)

Claim(w, j) ==
    /\ process[w] = "up"
    /\ First(j)
    /\ background_jobs' = [background_jobs EXCEPT ![j] = Claimed(@, w)]
    /\ executions' = executions \cup
          {[ job |-> j, worker |-> w, attempts |-> background_jobs'[j].attempts,
             phase |-> "working" ]}
    /\ activeJobs' = [activeJobs EXCEPT ![w] = @ \cup {j}]
    /\ UNCHANGED <<nextJob, dead_letter_jobs, process, orphaned, committed, faults>>

\* The claim commits and poll catches an error instead of receiving the job.
ClaimAckLost(w, j) ==
    /\ Fault("ack_lost")
    /\ process[w] = "up"
    /\ First(j)
    /\ background_jobs' = [background_jobs EXCEPT ![j] = Claimed(@, w)]
    /\ UNCHANGED <<nextJob, dead_letter_jobs, process, calls, orphaned, committed>>

\* The execution goes on in phase p.
Proceed(e, p) == executions' = (executions \ {e}) \cup {[e EXCEPT !.phase = p]}

\* The finally clause: the map forgets the job, whichever call put it there.
Return(e) ==
    /\ executions' = executions \ {e}
    /\ activeJobs' = [activeJobs EXCEPT ![e.worker] = @ \ {e.job}]

CommitWork(e) ==
    /\ e.phase = "working"
    /\ committed' = [committed EXCEPT ![e.job] = @ \cup {e.attempts}]
    /\ \/ Proceed(e, "done") /\ UNCHANGED faults
       \/ Proceed(e, "failed") /\ Fault("ack_lost")
    /\ UNCHANGED <<tables, process, activeJobs, orphaned>>

WorkFails(e) ==
    /\ e.phase = "working"
    /\ Proceed(e, "failed")
    /\ UNCHANGED <<tables, process, activeJobs, orphaned, committed, faults>>

\* Mutant: a missing await, the job is completed while its handler runs.
CompleteEarly(e) ==
    /\ e.phase \in {"working", "done"}
    /\ background_jobs' = [background_jobs EXCEPT ![e.job] = Completed(@)]
    /\ Return(e)
    /\ UNCHANGED <<nextJob, dead_letter_jobs, process, orphaned, committed, faults>>

Complete(e) ==
    /\ e.phase = "done"
    /\ background_jobs' = [background_jobs EXCEPT ![e.job] = Completed(@)]
    /\ \/ Return(e) /\ UNCHANGED faults
       \/ Proceed(e, "failed") /\ UNCHANGED activeJobs /\ Fault("ack_lost")
    /\ UNCHANGED <<nextJob, dead_letter_jobs, process, orphaned, committed>>

\* An error of completeJob is caught like an error of the handler.
CompleteFails(e) ==
    /\ Fault("db_error")
    /\ e.phase = "done"
    /\ Proceed(e, "failed")
    /\ UNCHANGED <<tables, process, activeJobs, orphaned, committed>>

RecordFailure(e) ==
    /\ e.phase = "failed"
    /\ Settle({[job_id |-> e.job, attempts |-> e.attempts]})
    /\ Return(e)
    /\ UNCHANGED <<nextJob, process, orphaned, committed, faults>>

\* "Error recording job failure status": logged, and the call returns.
RecordFailureFails(e) ==
    /\ Fault("db_error")
    /\ e.phase = "failed"
    /\ Return(e)
    /\ UNCHANGED <<tables, process, orphaned, committed>>

-----------------------------------------------------------------------------
(* Heartbeats, time and recovery. *)

Beats(w, j) == /\ process[w] = "up"
               /\ j \in activeJobs[w]
               /\ background_jobs[j].owner = w
               /\ background_jobs[j].status = "RUNNING"

Heartbeat(w) ==
    /\ process[w] = "up"
    /\ activeJobs[w] # {}
    /\ background_jobs' = [j \in Jobs |->
          [background_jobs[j] EXCEPT !.stale = @ /\ ~Beats(w, j)]]
    /\ UNCHANGED <<nextJob, dead_letter_jobs, process, calls, orphaned, committed, faults>>

\* Thirty seconds pass without a heartbeat: nobody sends them any more, or
\* they are late.
HeartbeatExpires(j) ==
    /\ background_jobs[j].status = "RUNNING"
    /\ ~background_jobs[j].stale
    /\ \/ ~(\E w \in Workers : Beats(w, j)) /\ UNCHANGED faults
       \/ (\E w \in Workers : Beats(w, j)) /\ Fault("late_heartbeat")
    /\ background_jobs' = [background_jobs EXCEPT ![j].stale = TRUE]
    /\ UNCHANGED <<nextJob, dead_letter_jobs, process, calls, orphaned, committed>>

\* A recovery has read the row, or a worker that drains is at work on the job.
Unfinished(j) ==
    \/ Listed(j)
    \/ \E e \in executions : e.job = j /\ process[e.worker] = "draining"

\* A backoff is 20 seconds or more.  Unless transactions are slow it outlasts
\* the recovery transactions that read the row before, and the drain of a
\* worker whose last heartbeat is already 30 seconds old.
BackoffExpires(j) ==
    /\ background_jobs[j].status = "RETRYING"
    /\ ~background_jobs[j].due
    /\ \/ ~Unfinished(j) /\ UNCHANGED faults
       \/ Unfinished(j) /\ Fault("slow_transaction")
    /\ background_jobs' = [background_jobs EXCEPT ![j].due = TRUE]
    /\ UNCHANGED <<nextJob, dead_letter_jobs, process, calls, orphaned, committed>>

\* Mutant: the orphan query looks only for the jobs of the asking worker.
FindOwnOrphans(w) ==
    /\ process[w] = "up"
    /\ orphaned[w] = {}
    /\ orphaned' = [orphaned EXCEPT ![w] =
          { [job_id |-> j, attempts |-> background_jobs[j].attempts] :
               j \in {k \in Jobs : /\ background_jobs[k].status = "RUNNING"
                                   /\ background_jobs[k].stale
                                   /\ background_jobs[k].owner = w} }]
    /\ UNCHANGED <<tables, process, calls, committed, faults>>

\* findOrphanedJobs, a plain SELECT: it locks nothing.
FindOrphanedJobs(w) ==
    /\ process[w] = "up"
    /\ orphaned[w] = {}
    /\ orphaned' = [orphaned EXCEPT ![w] =
          { [job_id |-> j, attempts |-> background_jobs[j].attempts] :
               j \in {k \in Jobs : /\ background_jobs[k].status = "RUNNING"
                                   /\ background_jobs[k].stale} }]
    /\ UNCHANGED <<tables, process, calls, committed, faults>>

\* The rest of the recovery transaction, and its commit.
ResetOrphans(w) ==
    /\ orphaned[w] # {}
    /\ Settle(orphaned[w])
    /\ orphaned' = [orphaned EXCEPT ![w] = {}]
    /\ UNCHANGED <<nextJob, process, calls, committed, faults>>

\* One statement fails (a deadlock, a dead letter that another recovery has
\* just inserted) and the whole transaction rolls back.
RecoveryFails(w) ==
    /\ Fault("db_error")
    /\ orphaned[w] # {}
    /\ orphaned' = [orphaned EXCEPT ![w] = {}]
    /\ UNCHANGED <<tables, process, calls, committed>>

-----------------------------------------------------------------------------
(* Processes stop and die. *)

Vanish(w) ==
    /\ process' = [process EXCEPT ![w] = "dead"]
    /\ executions' = {e \in executions : e.worker # w}
    /\ activeJobs' = [activeJobs EXCEPT ![w] = {}]
    /\ orphaned' = [orphaned EXCEPT ![w] = {}]
    /\ UNCHANGED <<tables, committed>>

\* stop() clears the timers, the heartbeat's among them, and then drains.
Stop(w) ==
    /\ Fault("stop")
    /\ process[w] = "up"
    /\ process' = [process EXCEPT ![w] = "draining"]
    /\ UNCHANGED <<tables, calls, orphaned, committed>>

\* process.exit: the map is empty, or thirty seconds have passed.
Exit(w) ==
    /\ process[w] = "draining"
    /\ Vanish(w)
    /\ UNCHANGED faults

Crash(w) ==
    /\ Fault("crash")
    /\ process[w] \in {"up", "draining"}
    /\ Vanish(w)

-----------------------------------------------------------------------------

Execute(e) ==
    CommitWork(e) \/ WorkFails(e) \/ Complete(e) \/ RecordFailure(e)

\* What the workers and the clock do, and what goes wrong.
Work ==
    \/ \E w \in Workers :
          \/ Start(w) \/ Stop(w) \/ Exit(w) \/ Crash(w)
          \/ \E j \in Jobs : Claim(w, j) \/ ClaimAckLost(w, j)
          \/ Heartbeat(w) \/ FindOrphanedJobs(w) \/ ResetOrphans(w) \/ RecoveryFails(w)
    \/ \E e \in executions : Execute(e) \/ CompleteFails(e) \/ RecordFailureFails(e)
    \/ \E j \in Jobs : HeartbeatExpires(j) \/ BackoffExpires(j)

Next == Enqueue \/ Work

Spec == Init /\ [][Next]_vars

\* Timers fire, handlers return and time passes; nobody has to enqueue a job,
\* and nothing has to go wrong.  The recovery of a worker runs every 15 seconds
\* as long as the process lives.
Fairness ==
    /\ \A w \in Workers :
          /\ WF_vars(Start(w))
          /\ WF_vars(Exit(w))
          /\ WF_vars(\E j \in Jobs : Claim(w, j))
          /\ WF_vars(\E e \in executions : e.worker = w /\ Execute(e))
          /\ WF_vars(FindOrphanedJobs(w))
          /\ WF_vars(ResetOrphans(w))
    /\ \A j \in Jobs :
          /\ WF_vars(HeartbeatExpires(j) /\ UNCHANGED faults)
          /\ WF_vars(BackoffExpires(j) /\ UNCHANGED faults)

FairSpec == Spec /\ Fairness

-----------------------------------------------------------------------------
(* Properties that hold whatever goes wrong. *)

\* A job that was enqueued is either in background_jobs or, once, in
\* dead_letter_jobs: no race between an execution that records its failure and
\* the recoveries of other workers loses or duplicates a job (moveToDlq).
OneHome ==
    /\ \A j \in Jobs : j < nextJob <=> (Queued(j) \/ Buried(j))
    /\ \A j \in Jobs : ~(Queued(j) /\ Buried(j))
    /\ \A c, d \in dead_letter_jobs : c.job_id = d.job_id => c = d

\* The job's row, or its dead letter, has counted attempt a.
Counted(j, a) ==
    \/ Queued(j) /\ a <= background_jobs[j].attempts
    \/ \E d \in dead_letter_jobs : d.job_id = j /\ a <= d.attempts

\* The attempts counter fences executions: two calls that run the same job,
\* be it a stale worker's or the same worker's twice, never hold the same
\* attempt, and no call holds, and no work was committed under, an attempt
\* that claimNextJob may still hand out.
AttemptsAreFenced ==
    /\ \A e, f \in executions : (e.job = f.job /\ e.attempts = f.attempts) => e = f
    /\ \A e \in executions : Counted(e.job, e.attempts)
    /\ \A j \in Jobs : \A a \in committed[j] : Counted(j, a)

\* An attempt commits its work at most once: a call that still works has not,
\* and one about to complete the job has.
WorkOncePerAttempt ==
    \A e \in executions :
        /\ e.phase = "working" => e.attempts \notin committed[e.job]
        /\ e.phase = "done" => e.attempts \in committed[e.job]

\* No job is COMPLETED whose work was never committed.
CompletedMeansDone ==
    \A j \in Jobs : background_jobs[j].status = "COMPLETED" => committed[j] # {}

\* The work of a job and its status agree, and each attempt works once.
WorkIsDoneOnce == WorkOncePerAttempt /\ CompletedMeansDone

\* The attempts of a job go up with each claim, and in no other way: a job that
\* is COMPLETED can come back, but has to wait for a claim like any other.  Its
\* dead letter says how many there were, and is never rewritten.
MovesOn(j) ==
    LET row == background_jobs[j] IN
    \/ /\ Queued(j)' /\ background_jobs'[j].attempts = row.attempts
       /\ row.status = "COMPLETED" => background_jobs'[j].status \in {"COMPLETED", "RETRYING"}
    \/ /\ Claimable(j)
       /\ background_jobs'[j].status = "RUNNING"
       /\ background_jobs'[j].attempts = row.attempts + 1
    \/ ~Queued(j)' /\ [job_id |-> j, attempts |-> row.attempts] \in dead_letter_jobs'

HistoryStays ==
    [][ /\ dead_letter_jobs \subseteq dead_letter_jobs'
        /\ \A j \in Jobs : committed[j] \subseteq committed'[j]
        /\ \A j \in Jobs : Queued(j) => MovesOn(j) ]_vars

\* Every job that is enqueued ends up, for good, COMPLETED or in the dead
\* letter queue, whatever happened to the workers that ran it.
JobsSettle ==
    \A j \in Jobs :
        j < nextJob ~> [](background_jobs[j].status = "COMPLETED" \/ Buried(j))

-----------------------------------------------------------------------------
(* Properties that need the timing assumptions. *)

\* So far heartbeats were on time, and a backoff outlasted what it should.
Timely == faults.kinds \cap {"late_heartbeat", "slow_transaction"} = {}

\* At most one live call executes a job, as long as all is timely, whatever
\* else happens: recovery takes a job away from dead and finished calls only.
SingleExecution ==
    Timely => \A e, f \in executions : e.job = f.job => e = f

\* As long as all is timely, a job is tried at most MaxAttempts times, and
\* buried only after all of them.
AttemptsWithinMax ==
    Timely =>
    /\ \A j \in Jobs : background_jobs[j].attempts <= MaxAttempts
    /\ \A d \in dead_letter_jobs : d.attempts = MaxAttempts

\* Both of them: while all is timely, the attempts of a job are made one after
\* the other and no more than MaxAttempts times.
TimelyAttempts == SingleExecution /\ AttemptsWithinMax

\* The work of a job is repeated only if something went wrong in between: one
\* repetition for one crash, lost acknowledgement or failed completion.
RepeatsCostFaults ==
    \A j \in Jobs : Cardinality(committed[j]) <= 1 + faults.count

\* The queue keeps the promise of JobLifecycle: one step of the queue is one
\* step of a job's life, or invisible.  This is for Disturbances that are crashes
\* and failing transactions; each of the other kinds can break it.
Lifecycle == INSTANCE JobLifecycle WITH
    status <- [j \in Jobs |->
        IF Buried(j) THEN "DEAD_LETTER" ELSE background_jobs[j].status],
    attempts <- [j \in Jobs |->
        IF Buried(j) THEN (CHOOSE d \in dead_letter_jobs : d.job_id = j).attempts
        ELSE background_jobs[j].attempts]

Promise == Lifecycle!Spec

=============================================================================
