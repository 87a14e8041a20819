----------------------------- MODULE WorkerPool -----------------------------
(***************************************************************************)
(* The inside of one worker process: the chains of poll calls, the         *)
(* maxConcurrency check, and stop() with its drain.  Jobs are counted, not *)
(* named; what a claim does to the tables is the business of JobQueue.     *)
(*                                                                         *)
(* A poll call is a chain: it runs up to the await of claimNextJob, and    *)
(* when the claim is answered it schedules its successor.  executeJob's    *)
(* finally clause schedules one more.                                      *)
(***************************************************************************)
EXTENDS Naturals

CONSTANTS
    MaxConcurrency,  \* maxConcurrency of the constructor, 3 by default
    MaxJobs,         \* bound: how many jobs are ever queued
    DrainChecks      \* the retries of stop(), 30, one second apart

ASSUME WorkerPoolAssumption ==
    /\ MaxConcurrency \in Nat \ {0}
    /\ MaxJobs \in Nat
    /\ DrainChecks \in Nat

VARIABLES
    queued,     \* jobs enqueued so far
    scheduled,  \* poll calls waiting for their timer or setImmediate
    claiming,   \* poll calls awaiting claimNextJob
    active,     \* activeJobs.size
    ended,      \* executeJob calls that have returned
    state,      \* "running", then "draining" in stop(), then "stopped"
    retries     \* drain checks left

vars == <<queued, scheduled, claiming, active, ended, state, retries>>

TypeOK ==
    /\ queued \in 0..MaxJobs
    /\ scheduled \in Nat
    /\ claiming \in Nat
    /\ active \in 0..MaxJobs
    /\ ended \in 0..MaxJobs
    /\ state \in {"running", "draining", "stopped"}
    /\ retries \in 0..DrainChecks

\* start(): the first poll call.
Init ==
    /\ queued = 0
    /\ scheduled = 1
    /\ claiming = 0
    /\ active = 0
    /\ ended = 0
    /\ state = "running"
    /\ retries = DrainChecks

isRunning == state = "running"

Unclaimed == queued - (active + ended)

Enqueue ==
    /\ queued < MaxJobs
    /\ queued' = queued + 1
    /\ UNCHANGED <<scheduled, claiming, active, ended, state, retries>>

\* The two early returns of poll, and the call of claimNextJob.  A full queue
\* reschedules the call, which changes nothing.
\* Mutants: no check of isRunning; no successor when the queue is full.
PollWhenStopped ==
    /\ scheduled > 0
    /\ scheduled' = scheduled - 1
    /\ IF active < MaxConcurrency THEN claiming' = claiming + 1 ELSE UNCHANGED claiming
    /\ UNCHANGED <<queued, active, ended, state, retries>>

PollUnchecked ==
    /\ scheduled > 0
    /\ scheduled' = scheduled - 1
    /\ IF isRunning THEN claiming' = claiming + 1 ELSE UNCHANGED claiming
    /\ UNCHANGED <<queued, active, ended, state, retries>>

Poll ==
    /\ scheduled > 0
    /\ isRunning => active < MaxConcurrency
    /\ scheduled' = scheduled - 1
    /\ IF isRunning THEN claiming' = claiming + 1 ELSE UNCHANGED claiming
    /\ UNCHANGED <<queued, active, ended, state, retries>>

\* claimNextJob answers with a job: executeJob starts, and the chain goes on.
\* Mutant: the chain ends here, executeJob's finally clause continues it.
ClaimedLast ==
    /\ claiming > 0
    /\ Unclaimed > 0
    /\ active' = active + 1
    /\ claiming' = claiming - 1
    /\ UNCHANGED <<queued, scheduled, ended, state, retries>>

Claimed ==
    /\ claiming > 0
    /\ Unclaimed > 0
    /\ active' = active + 1
    /\ claiming' = claiming - 1
    /\ scheduled' = scheduled + 1
    /\ UNCHANGED <<queued, ended, state, retries>>

\* claimNextJob answers with null, or fails: the chain goes on later.
\* Mutant: the catch block of poll does not reschedule.
NothingClaimedLost ==
    /\ claiming > 0
    /\ claiming' = claiming - 1
    /\ UNCHANGED <<queued, scheduled, active, ended, state, retries>>

NothingClaimed ==
    /\ claiming > 0
    /\ claiming' = claiming - 1
    /\ scheduled' = scheduled + 1
    /\ UNCHANGED <<queued, active, ended, state, retries>>

\* The finally clause of executeJob.
JobEnds ==
    /\ active > 0
    /\ active' = active - 1
    /\ ended' = ended + 1
    /\ scheduled' = scheduled + 1
    /\ UNCHANGED <<queued, claiming, state, retries>>

\* stop() clears the one timer pollTimer remembers, if a call waits for it;
\* the other chains end at their next poll.
Stop ==
    /\ isRunning
    /\ state' = "draining"
    /\ \E cleared \in {0, 1} :
          /\ cleared <= scheduled
          /\ scheduled' = scheduled - cleared
    /\ UNCHANGED <<queued, claiming, active, ended, retries>>

\* Mutant: nobody counts down.
DrainPatient ==
    /\ state = "draining"
    /\ active = 0
    /\ state' = "stopped"
    /\ UNCHANGED <<queued, scheduled, claiming, active, ended, retries>>

DrainCheck ==
    /\ state = "draining"
    /\ IF active > 0 /\ retries > 0
       THEN retries' = retries - 1 /\ UNCHANGED state
       ELSE state' = "stopped" /\ UNCHANGED retries
    /\ UNCHANGED <<queued, scheduled, claiming, active, ended>>

Next ==
    \/ Enqueue
    \/ Poll
    \/ Claimed \/ NothingClaimed
    \/ JobEnds
    \/ Stop \/ DrainCheck

Spec == Init /\ [][Next]_vars

\* The loop of stop() sleeps a second at a time.  Nothing is assumed of jobs.
DrainSpec == Spec /\ WF_vars(DrainCheck)

\* Timers fire, the database answers, handlers return.  SF: a claim may fail
\* or come too early any number of times, not for ever.
Fairness ==
    /\ WF_vars(Poll)
    /\ SF_vars(Claimed)
    /\ WF_vars(NothingClaimed)
    /\ WF_vars(JobEnds)

-----------------------------------------------------------------------------

\* Chains are never lost and never merged: a running worker has one poll call
\* under way for its start and one more for every job it ever finished.  So it
\* keeps polling for ever, and it polls ever more often.
ChainsGrow == isRunning => scheduled + claiming = 1 + ended

\* The limit is exceeded by the chains that jobs left behind, and by no more:
\* a worker that has finished k jobs runs at most k more than it should.
OvershootBounded == active <= MaxConcurrency + ended

\* After stop() at most the claims already on their way start another job.
StopStartsNothingNew ==
    [][~isRunning => claiming' <= claiming /\ active' + claiming' <= active + claiming]_vars

\* Every queued job is claimed sooner or later by a worker that is not stopped,
\* although poll gives up and reschedules itself at every early return.
JobsGetClaimed ==
    Fairness => \A n \in 1..MaxJobs : queued >= n ~> (active + ended >= n \/ ~isRunning)

\* stop() returns even if a job never ends: a drain takes DrainChecks seconds.
StopReturns == ~isRunning ~> state = "stopped"

=============================================================================
