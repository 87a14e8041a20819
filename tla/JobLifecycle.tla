---------------------------- MODULE JobLifecycle ----------------------------
(***************************************************************************)
(* What the background job queue promises about one job after another: a   *)
(* job is enqueued once, each claim starts the next attempt, an attempt    *)
(* that ends badly is retried while attempts remain and buried in the dead *)
(* letter queue when none do, and COMPLETED and DEAD_LETTER are final.     *)
(* DEAD_LETTER is the status findJobById reports for a buried job.         *)
(* JobQueue implements this specification as long as nothing goes wrong    *)
(* but crashes and failing transactions; see Promise there.                *)
(***************************************************************************)
EXTENDS Naturals

CONSTANTS
    Jobs,        \* the job ids that may ever be issued
    MaxAttempts  \* background_jobs.max_attempts

VARIABLES
    status,      \* [Jobs -> status reported by findJobById]
    attempts     \* [Jobs -> number of times the job was claimed]

vars == <<status, attempts>>

Statuses == {"ABSENT", "PENDING", "RUNNING", "RETRYING", "COMPLETED", "DEAD_LETTER"}

TypeOK ==
    /\ status \in [Jobs -> Statuses]
    /\ attempts \in [Jobs -> 0..MaxAttempts]

Init ==
    /\ status = [j \in Jobs |-> "ABSENT"]
    /\ attempts = [j \in Jobs |-> 0]

Become(j, s) == status' = [status EXCEPT ![j] = s]

Enqueue(j) ==
    /\ status[j] = "ABSENT"
    /\ Become(j, "PENDING")
    /\ UNCHANGED attempts

Claim(j) ==
    /\ status[j] \in {"PENDING", "RETRYING"}
    /\ attempts[j] < MaxAttempts
    /\ Become(j, "RUNNING")
    /\ attempts' = [attempts EXCEPT ![j] = @ + 1]

Complete(j) ==
    /\ status[j] = "RUNNING"
    /\ Become(j, "COMPLETED")
    /\ UNCHANGED attempts

\* Several jobs can be retried or buried at once: one recovery transaction
\* resets every orphan it found.
Retire(S) ==
    /\ \A j \in S : status[j] = "RUNNING"
    /\ status' = [j \in Jobs |->
                    IF j \notin S THEN status[j]
                    ELSE IF attempts[j] < MaxAttempts THEN "RETRYING"
                    ELSE "DEAD_LETTER"]
    /\ UNCHANGED attempts

Next ==
    \/ \E j \in Jobs : Enqueue(j) \/ Claim(j) \/ Complete(j)
    \/ \E S \in SUBSET Jobs : Retire(S)

Spec == Init /\ [][Next]_vars

=============================================================================
