---------------------------- MODULE RunRequests ----------------------------
(***************************************************************************)
(* Who asks the queue for reconciliation runs, and what they are told: the *)
(* scheduler of every worker process at 00:05, and the Run History page of *)
(* an approver, which posts a request and then asks for the status of its  *)
(* job until it has an answer or loses patience.                           *)
(*                                                                         *)
(* The queue is that of JobQueue, step by step.  A job carries a date and  *)
(* an external batch, chosen when it is queued; a run is the commit of the *)
(* job's work.  Days begin at 00:05.  Batches are numbered in the order in *)
(* which their imports complete, and are not withdrawn here.               *)
(***************************************************************************)
EXTENDS JobQueue

CONSTANTS
    MaxDays,    \* bound: how many days pass
    MaxBatches, \* bound: how many external statements are imported
    MaxChecks   \* how often the page asks for the status (60)

ASSUME RunRequestsAssumption ==
    MaxDays \in Nat \ {0} /\ MaxBatches \in Nat /\ MaxChecks \in Nat

VARIABLES
    today,   \* the date
    newest,  \* the newest completed external batch, 0 if there is none
    payload, \* [Jobs -> payload of the job]
    cron,    \* [Workers -> the daily task of the worker's process]
    page,    \* the Run History page
    runs     \* the runs that are committed, and the attempts that made them

requestVars == <<today, newest, payload, cron, page, runs>>
systemVars  == <<vars, requestVars>>

Days    == 1..MaxDays
Batches == 1..MaxBatches

Payload == [runDate : Days \cup {0}, batchId : Batches \cup {0}]

\* The day on which the task last fired, or its process started, and the batch
\* that a callback under way has found; 0 if there is no callback.
Task == [day : Days \cup {0}, batch : Batches \cup {0}]

NoTask == [day |-> 0, batch |-> 0]

\* "posted": the handler looks for a batch; "found": it queues the job;
\* "waiting": the page has the job's id.  since is what was newest when the
\* button was pressed, and told the message the page shows.
Page == [ stage  : {"idle", "posted", "found", "waiting"},
          date   : Days \cup {0},
          since  : Batches \cup {0},
          batch  : Batches \cup {0},
          job    : Jobs \cup {0},
          checks : 0..MaxChecks,
          told   : {"nothing", "completed", "failed", "error"} ]

FreshPage == [ stage |-> "idle", date |-> 0, since |-> 0, batch |-> 0, job |-> 0,
               checks |-> 0, told |-> "nothing" ]

RequestsTypeOK ==
    /\ today \in Days
    /\ newest \in Batches \cup {0}
    /\ payload \in [Jobs -> Payload]
    /\ cron \in [Workers -> Task]
    /\ page \in Page
    /\ runs \subseteq [job : Jobs, attempts : Nat, runDate : Days, batchId : Batches]

SystemInit ==
    /\ Init
    /\ today = 1
    /\ newest = 0
    /\ payload = [j \in Jobs |-> [runDate |-> 0, batchId |-> 0]]
    /\ cron = [w \in Workers |-> NoTask]
    /\ page = FreshPage
    /\ runs = {}

-----------------------------------------------------------------------------
(* The world. *)

Import ==
    /\ newest < MaxBatches
    /\ newest' = newest + 1
    /\ UNCHANGED <<vars, today, payload, cron, page, runs>>

NextDay ==
    /\ today < MaxDays
    /\ today' = today + 1
    /\ UNCHANGED <<vars, newest, payload, cron, page, runs>>

\* queueJob, in a transaction of its own.
QueueRun(date, batch) ==
    /\ Enqueue
    /\ payload' = [payload EXCEPT ![nextJob] = [runDate |-> date, batchId |-> batch]]

-----------------------------------------------------------------------------
(* The scheduler of a worker process. *)

\* 00:05, once a day.  Nothing is made up for: neither by a process that starts
\* later in the day nor if there is no batch yet (the day is skipped).
Fire(w) ==
    /\ process[w] = "up"
    /\ cron[w].day < today
    /\ cron[w].batch = 0
    /\ cron' = [cron EXCEPT ![w] = [day |-> today, batch |-> newest]]
    /\ UNCHANGED <<vars, today, newest, payload, page, runs>>

\* The callback goes on, also in a process that drains.  Its transaction may
\* fail, which is logged and the day skipped.
QueueDay(w) ==
    /\ cron[w].batch # 0
    /\ \/ QueueRun(cron[w].day, cron[w].batch)
       \/ UNCHANGED <<vars, payload>>
    /\ cron' = [cron EXCEPT ![w].batch = 0]
    /\ UNCHANGED <<today, newest, page, runs>>

-----------------------------------------------------------------------------
(* The page, and the two handlers it talks to. *)

\* The button is disabled until the page has been told something.
Press(date) ==
    /\ page.stage = "idle"
    /\ page' = [FreshPage EXCEPT !.stage = "posted", !.date = date, !.since = newest]
    /\ UNCHANGED <<vars, today, newest, payload, cron, runs>>

\* What an error message is about is of no interest any more.
Tell(answer) ==
    page' = IF answer = "error" THEN [FreshPage EXCEPT !.told = "error"]
            ELSE [page EXCEPT !.stage = "idle", !.told = answer]

\* A request or its answer is lost, or the handler fails, before anything is
\* queued or while the page waits; or the page has asked often enough.
Despair ==
    /\ page.stage # "idle"
    /\ Tell("error")
    /\ UNCHANGED <<vars, today, newest, payload, cron, runs>>

\* 409 if there is no batch.
FindBatch ==
    /\ page.stage = "posted"
    /\ newest # 0
    /\ page' = [page EXCEPT !.stage = "found", !.batch = newest]
    /\ UNCHANGED <<vars, today, newest, payload, cron, runs>>

\* Mutant: the handler ignores the date it was sent.
QueueAskedToday ==
    /\ page.stage = "found"
    /\ QueueRun(today, page.batch)
    /\ \/ page' = [page EXCEPT !.stage = "waiting", !.job = nextJob]
       \/ Tell("error")
    /\ UNCHANGED <<today, newest, cron, runs>>

\* The answer may be lost, and the page does not know that its job is queued.
QueueAsked ==
    /\ page.stage = "found"
    /\ QueueRun(page.date, page.batch)
    /\ \/ page' = [page EXCEPT !.stage = "waiting", !.job = nextJob]
       \/ Tell("error")
    /\ UNCHANGED <<today, newest, cron, runs>>

\* One answer of getJobStatus, which looks in both tables.
Check ==
    /\ page.stage = "waiting"
    /\ page.checks < MaxChecks
    /\ IF Buried(page.job) THEN Tell("failed")
       ELSE IF background_jobs[page.job].status = "COMPLETED" THEN Tell("completed")
       ELSE page' = [page EXCEPT !.checks = @ + 1]
    /\ UNCHANGED <<vars, today, newest, payload, cron, runs>>

-----------------------------------------------------------------------------
(* The queue at work. *)

\* Mutant: the handler leaves the batch out, and the run takes the newest one.
RunOfNewest(e) == [ job |-> e.job, attempts |-> e.attempts,
                    runDate |-> payload[e.job].runDate, batchId |-> newest ]

\* runReconciliation of what the payload says.
RunOf(e) == [ job |-> e.job, attempts |-> e.attempts,
              runDate |-> payload[e.job].runDate, batchId |-> payload[e.job].batchId ]

\* A process starts with its scheduler, and takes its callbacks with it.
TaskAfter(w) ==
    IF process'[w] = "dead" THEN NoTask
    ELSE IF process[w] = "new" /\ process'[w] = "up" THEN [day |-> today, batch |-> 0]
    ELSE cron[w]

QueueWorks ==
    /\ Work
    /\ runs' = runs \cup
          {RunOf(e) : e \in {f \in executions : f.attempts \in committed'[f.job] \ committed[f.job]}}
    /\ cron' = [w \in Workers |-> TaskAfter(w)]
    /\ UNCHANGED <<today, newest, payload, page>>

SystemNext ==
    \/ Import \/ NextDay
    \/ \E w \in Workers : Fire(w) \/ QueueDay(w)
    \/ \E d \in Days : Press(d)
    \/ FindBatch \/ QueueAsked \/ Check \/ Despair
    \/ QueueWorks

SystemSpec == SystemInit /\ [][SystemNext]_systemVars

-----------------------------------------------------------------------------
(* Properties. *)

\* What the page says is true, whatever happened on the way.  "Completed": a run
\* of the chosen date is committed, with a batch no older than the newest one
\* when the button was pressed.  "Failed": the job was given up, for good; an
\* attempt of it may still have committed a run.
PageTellsTheTruth ==
    /\ page.told = "completed" =>
          \E r \in runs : r.job = page.job /\ r.runDate = page.date /\ r.batchId >= page.since
    /\ page.told = "failed" => Buried(page.job)

\* All runs of a job are of one date and one batch: a retry reconciles what the
\* job was queued for, though days have passed and batches have come since.
RetriesStayOnTheirBatch ==
    \A r, s \in runs : r.job = s.job => r.runDate = s.runDate /\ r.batchId = s.batchId

=============================================================================
