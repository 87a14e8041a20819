# A formal model of the reconciliation engine

This directory holds TLA+ specifications of the reconciliation engine, the TLC
configurations that check them on small instances, and proofs for TLAPS.

The engine imports a bank's internal ledger and its external statements into
PostgreSQL, matches the two by date and account, raises exceptions for what it
cannot match, and lets people work the exceptions off. Everything that is hard
about it happens between transactions: several worker processes, several runs
and several people share a few tables, and each of them acts on rows it read a
while ago.

- [Components](#components)
- [Modules](#modules)
- [Runs](#runs)
- [Bounds](#bounds)
- [Fairness](#fairness)
- [Proofs](#proofs)
- [What is only checked, and what is left out](#what-is-only-checked-and-what-is-left-out)
- [Plan](#plan)

To check a run and a proof:

    tlc -workers 2 -config recon_overlap.cfg MCReconRuns
    tlapm JobQueueProofs.tla

## Components

| component | state | operations | correct means |
|---|---|---|---|
| Background job queue (`jobsRepository.js`, `worker.js`, `db/06_jobs.sql`) | `background_jobs`, `dead_letter_jobs`; per process the executions under way | enqueue, claim with `SKIP LOCKED`, execute, complete, fail, bury, heartbeat, recover | no job is lost or in both tables; attempts fence executions; work is repeated only after something went wrong; each job ends |
| Worker process (`worker.js`, `worker-entry.js`) | `activeJobs`, `pollTimer`, `isRunning`, calls in flight | start, poll, stop and drain | polling never dies out; the limit of concurrent jobs; a stop that ends and starts nothing new |
| Matching rules (`matchingRepository.js`, `db/04_matching_engine.sql`) | none | exact, tolerance and settlement queries | groups balance; rankings may tie |
| Reconciliation runs (`matchingService.js`, `db/02_triggers.sql`) | `reconciliation_runs`, `match_groups`, `reconciliation_exceptions`; rows written and not committed | four passes in one transaction | all or nothing; every item matched or excepted; nothing twice |
| Exceptions workflow (`exceptionsService.js`, `exceptionsRepository.js`, the dashboard, `db/05`, `db/07`) | the exception row with its version; what each dashboard shows; notifications | assign, start work, resolve, approve, close | the life of an exception; signatures stay; people are told, and can see, what waits for them |
| Imports (`importService.js`, `importRepository.js`) | `import_batches`, the rows of files; uploads in flight | upload, validate, insert, fail, upload again | a COMPLETED batch holds each row of its file once, and stays |
| Idempotency keys (`idempotencyMiddleware.js`) | `idempotency_keys` | look up, insert, complete or clear, replay | a repeated request acts once, and is told the truth |
| Sessions (`authService.js`, `usersRepository.js`, `frontend/src/api/client.js`) | `user_sessions`, failed logins; each browser's cookie, each tab's access token | login, refresh with rotation, logout, revoke | the cookie is the token of a session; signing out ends that session; what is revoked stays revoked; a used token is noticed |
| Scheduler (`scheduler.js`, `reconciliationController.js`) | the cron tasks of each worker process | choose a date and a batch, enqueue a run | a run, and each of its retries, is of the date and batch it was queued for |
| Run History page (`RunHistory.jsx`) | the job it waits for, the message it shows | ask for a run, poll its job, give up | what it says of its run is true |
| Retention (`jobsRepository.js`, `db/09`) | archive tables, partitions of `audit_logs` | move old rows, create partitions | a row is in one table; old rows get archived |
| Notifications | `notifications` | write, read, mark | written with the decision |
| Database connections (`config/db.js`) | pool | `withTransaction` | roll back on every error |
| Reports, HTTP shell, audit trail, other pages, migrations | none others depend on | | |

How they interact: the API, the scheduler and people enqueue jobs; worker
processes claim them and call `runReconciliation`, which can also be called
directly; a run reads what imports have committed and writes match groups and
exceptions; people act on the exceptions from dashboards, and each decision
writes notifications in its own transaction. All of it goes through the
database, so that interaction means shared tables: which rows a statement can
see (READ COMMITTED, row-level security), which it locks (`SKIP LOCKED`,
`FOR UPDATE NOWAIT`), and what it does not look at again.

The behaviours that are hard:

- recovery resets, by id alone, rows it has read without a lock, while the
  worker that was thought dead completes or buries them;
- the work of a job commits before the job is marked complete;
- `poll` checks the number of active jobs before an await and increments it
  after, and each finished job starts a further chain of polls;
- two runs overlap, and neither sees what the other has not committed; the
  trigger against double matches does not either;
- imports and other runs commit between the passes of a run;
- an import takes two or three transactions, and none of them looks again at the
  status that an earlier one has read;
- a request may be repeated at any moment, also while the key's update, which
  nobody waits for, is on its way;
- the policy that hides exceptions also hides them from runs and from the list;
- approve, close and resolve compare a version and no status;
- a refresh changes the token that all tabs of a browser share, and does not
  notice if another refresh was quicker; the token it replaces is in no row any
  more, where the replay attack check looks for it;
- every worker process schedules every cron entry, so that runs and archive jobs
  come in several copies, which overlap;
- a run is executed, and retried, long after its date and batch were chosen, by a
  queue that the page which asked for it sees through lost answers only.

`PROJECT.json` lists these hazards, each at its line, with the properties that
would catch it.

## Modules

| module | models | extends |
|---|---|---|
| `JobLifecycle` | what the queue promises of one job: PENDING, RUNNING, RETRYING, and then COMPLETED or DEAD_LETTER for good, with one attempt per claim | |
| `JobQueue` | the tables, the worker processes and their calls | |
| `MCJobQueue` | workers, priorities, symmetry | `JobQueue` |
| `RunRequests` | the schedulers of the worker processes and the Run History page, on top of the queue | `JobQueue` |
| `JobQueueProofs` | the inductive invariants of both, their theorems, and the refinement of `JobLifecycle` | `RunRequests` |
| `MCRunRequests` | two workers, one priority, symmetry | `RunRequests` |
| `WorkerPool` | the poll chains of one process, the capacity check, `stop()` | |
| `WorkerPoolProofs` | its theorems | `WorkerPool` |
| `MCWorkerPool` | an instance | `WorkerPool` |
| `Matching` | the queries of the passes as operators on sets of rows | |
| `AtomicRuns` | what a run promises: a beginning, and an end at which all it has to say appears at once | |
| `ReconRuns` | runs as transactions of many statements, with imports and assignments around them | `Matching` |
| `ReconRunsProofs` | its theorems, and the refinement of `AtomicRuns` | `ReconRuns` |
| `MCReconRuns` | the books: transactions, statement lines, a tolerance rule | `ReconRuns` |
| `ImportBatches` | uploads of files, what goes wrong in them, and what runs refer to | |
| `ImportBatchesProofs` | its theorems | `ImportBatches` |
| `MCImportBatches` | files and their rows | `ImportBatches` |
| `AtMostOnce` | what a key promises: a request that is executed in one step, and answers that are remembered | |
| `Idempotency` | the guard around the requests that change something, and the key they share | |
| `IdempotencyProofs` | its theorems, and the refinement of `AtMostOnce` | `Idempotency` |
| `MCIdempotency` | an instance | `Idempotency` |
| `Sessions` | the sessions of a user, the cookie of each browser and the tabs that share it | |
| `SessionsProofs` | its theorems | `Sessions` |
| `MCSessions` | which tab is in which browser | `Sessions` |
| `ExceptionLifecycle` | what the workflow promises of an exception | |
| `ExceptionWorkflow` | requests, dashboards, locking, row security, notifications | |
| `ExceptionWorkflowProofs` | its theorems, and the refinement of `ExceptionLifecycle` | `ExceptionWorkflow` |
| `MCExceptionWorkflow` | users and their roles | `ExceptionWorkflow` |
| `Retention` | the archive job as overlapping transactions | |
| `RetentionProofs` | its theorems | `Retention` |
| `MCRetention` | an instance | `Retention` |

The operators marked "Mutant" are deliberately wrong variants of the definition
that follows them: a property is worth having if such a variant breaks it.

### JobQueue

One action is one committed transaction or one step of a process between two
awaits. `background_jobs[j]` is the row of a job, with status ABSENT before it
is enqueued and after it is moved to `dead_letter_jobs`. Time is abstract: `due`
says that `run_at` has come, `stale` that `last_heartbeat` is more than thirty
seconds old, and `BackoffExpires` and `HeartbeatExpires` are the clock. An
`executeJob` call is a record in `executions`; it carries the attempts it was
claimed with and goes from "working" to "done" or "failed". `committed[j]`
remembers under which attempts the work of the job has been committed.

- `Claim` is `poll` with `claimNextJob`: the first due row by priority and age,
  rows locked by a recovery or a claim skipped. Rows are created in the order
  of their ids, so the id stands for `created_at`.
- `CommitWork`, `Complete`, `RecordFailure` are the three transactions of
  `executeJob`; `WorkFails`, `CompleteFails`, `RecordFailureFails` their errors,
  before or after the commit.
- `FindOrphanedJobs` and `ResetOrphans` are the two halves of the recovery loop.
  The rows found are kept in `orphaned` in between, which is the point.
- `Stop`, `Exit` and `Crash` end a process. Its id is a random UUID, so nobody
  comes back under it.
- Everything that goes wrong is a `Fault` of a named kind; `Disturbances` says
  which kinds a run allows and `MaxFaults` how often. `faults` counts them and
  remembers the kinds.

Two kinds are about time. Heartbeats are written every ten seconds, so a live process is never stale
without "late_heartbeat". A backoff lasts at least twenty seconds, so a
recovery transaction and the rest of a drain are over before a reset job comes
up again: the last heartbeat of a draining worker is at most ten seconds older
than its stop, the row turns stale twenty seconds into the drain at the
earliest, and the drain ends at thirty. A backoff that expires before all that
is `Unfinished` is therefore a fault, a "slow_transaction". Neither of the two
has happened as long as the behaviour is `Timely`, which is what
`TimelyAttempts` asks for.

`moveToDlq` inserts and deletes in one transaction and is modelled in one step.
The limit of concurrent jobs and claims still in flight at a stop are left to
`WorkerPool`; here a claim is atomic and precedes the stop.

A draining worker is a case of its own. `stop()` clears the heartbeat timer and
then waits up to thirty seconds for the jobs at work, so their rows may turn
stale; a recovery that reads such a row resets it by `job_id` alone, even if the
worker has completed the job in between. The completed job then goes back to
RETRYING and is executed again. `RepeatsCostFaults` counts this as the
repetition that the stop may cost.

### RunRequests

The module extends `JobQueue`: `Import`, `NextDay`, the scheduler and the page
are actions of their own, and `QueueWorks` is any step of the queue except
`Enqueue`, together with what it means for runs. `payload[j]` is the date and
the batch in the payload of a job. `runs` are the runs that are committed, with the
attempt that made them: whenever an attempt enters `committed`, a run of the
job's payload is added. A run is its commit here; `ReconRuns` looks inside.

`Fire` is the cron trigger of one process, at 00:05, with the look for a batch;
it fires once a day in each process that was up when the day began, and
`QueueDay` is the rest of the callback, which also goes on in a process that
drains and is lost with one that dies. A task that finds no batch, or fails, has
skipped its day. Days begin at 00:05; the date is the UTC date at that moment,
and time zones are left out. Batches are numbered by `completed_at`; the handler
and the task take the newest one.

`Press`, `FindBatch`, `QueueAsked` and `Check` are the page and the two handlers it
talks to. The page disables its button until it has been told something, so it
has one request at a time. It sends no Idempotency-Key, so the guard of
`Idempotency` lets it pass. `Despair` is every way to an error: a refusal, a lost
request or answer, a handler that fails, and the sixtieth answer in vain. An
answer may be lost after the job was queued (`QueueAsked`); the page then knows
nothing of its job, and the approver may ask for another one. A client that
sees an error while the handler goes on is that case, told a little later.
"Failed" means that the job is buried, and not that nothing was committed: an
attempt may have committed its run and lost the answer.

### WorkerPool

One process. `scheduled` counts poll calls that wait for a timer or a
`setImmediate`, `claiming` those that await `claimNextJob`, `active` the size of
`activeJobs`, `ended` the jobs finished so far. `Claimed` starts a job and
schedules the next poll; `JobEnds` (the finally clause) schedules one more.
`Stop` clears one timer at most, since `pollTimer` remembers one only and
`setImmediate` cannot be cleared by it; `DrainCheck` is the loop that waits for
the active jobs, up to `DrainChecks` times. `activeJobs` is a map with job ids as keys;
`active` counts calls, which differs only if one process executes the same job
twice at a time. `StopReturns` says that jobs which hang do not keep `stop()` from
returning; that a slow job is not given up before the last check is the guard
of the loop.

### Matching and ReconRuns

`Matching` gives each query as an operator of the unmatched rows it reads. A
`ROW_NUMBER` whose order ties may put any of the tied rows first, so
`MutualBest` is the set of all outcomes. The settlement pass
gives each batched line what the lines before it have left of its candidates, if
that adds up (`Settlements`); the order of the candidates does not matter, since amounts are
positive and the running totals fit: adding them up reaches the batch total
with the last one or never. The settlement query ignores the currency and the
date of the line, and so does the model. Imported rows never change, so they
are constants; what varies is which files are imported.

`ReconRuns` models a run as the sequence of its statements. Under READ
COMMITTED each statement sees what is committed at its start, so `Find...`
(a query), `InsertMatchGroups` (the loop over its rows) and the two exception
statements are separate steps, and imports, assignments and other runs commit
in between. The inserts of one pass are one step: what they can see of other
runs only matters to the trigger, and a trigger that raises only leads to
`RollBack`, which may happen at any time. `CompleteRun` is the commit. A run
sees the exceptions that the policy shows to its user: its transaction sets
`app.current_user_id` and no role. Runs are triggered by the scheduler, which
is `NoUser`, or by approvers and administrators. Since their runs set no role
either, an approver's run does not see assigned exceptions and may raise a
second one for an item that has one already.

`AtomicRuns` is what the rest of the system may expect of a run. There a run has
two steps. When it begins, what is due and which runs are over is written down.
When it commits, its groups and exceptions appear together: the groups are of
imported items, are worth their lines and are disjoint; the exceptions are for
items of the run's date that are in no group; everything that was due is in one or
the other; and nothing contradicts a run that was over at the beginning. Which
groups and exceptions is left open: imports that come in between may or may not be
seen. `Outline` is the refinement mapping: of a run in flight it shows how it
began, and nothing of what it has found or written.

### ImportBatches

A file is its content for one source, so `import_batches[f]` is the batch of the
unique pair (source_id, file_hash). A request is in one of six stages. "look_up"
is the SELECT of `createImportBatch`; "register" and "take_over" are what
follows it in the same transaction: the INSERT, which fails if somebody else has
registered the file, or the UPDATE and the DELETE of a FAILED batch, which do not
look whether it still is. "validate" and "insert" are the second transaction, in
which COPY and all its queries see only what is committed; "fail" is the third.
Between "look_up" and "take_over", and between "validate" and "insert", other
uploads commit. `importInternalLedger` goes through the same stages; its rows
are in another table, are compared with that table only, and are not deleted by
a take-over. `Reconcile` stands for the runs that refer to statement lines: with
a foreign key that points to them the take-over fails.

A crash ends a request wherever it is; a failing transaction is rolled back; an
`ack_lost` is a commit whose process sees an error, so that the upload that has
just completed a batch marks it as FAILED. `alongside` records which uploads were
in flight together, as the guarantees hold for uploads that do not overlap.

The model shows more than the properties say. Two uploads that have both seen a
batch FAILED both take it over, both pass a validation that sees no uncommitted
rows, and import each row twice into one COMPLETED batch. The comment of
`createImportBatch` (`importRepository.js:17`) promises a no-op "rather than
double-importing"; `CompletedIsWhole` exempts overlapping uploads of a file
(`OneAtATime`) because it does not hold of them. After a crash, or an error of the
transaction that marks the batch, the batch is PROCESSING for good and its file
is refused as a duplicate. A ledger that was marked as FAILED although its rows
were committed cannot be uploaded again, since validation finds its references
taken. `ReconRuns` sees an import as one commit, which is right as long as
uploads of a file do not overlap. `Reconcile` refers to all rows of a
COMPLETED batch at once. A run may refer to some of them, or to a batch that was
marked as FAILED after it was chosen; no property tells these apart.

### Idempotency

`idempotencyKeyGuard` stands in front of the routes of runs, imports and
exceptions. A key stands for the hash of a user, a method, a path and the
header; requests without the header, or that change nothing, pass by and are
left out. A request looks its key up, inserts it, and has its handler run;
`Respond` is `res.json` as hooked by the guard: the answer goes out, and the
UPDATE that completes the key, or the DELETE that clears it after a 5xx, is sent
and awaited by nobody. So the client may see the answer, and repeat the request,
before `WriteKey`. The errors of handlers reach `res.json` through the error
handler; a refusal (a 4xx) is stored and replayed like a success.

`Handle` may commit and succeed, refuse, fail, or commit and see an error; a
`Crash` may come before or after the commit of its transaction. `effects` are the
requests that have committed something. There is one transaction per handler,
as in the handlers of runs and exceptions. The handlers of imports have two or
three, and a refusal there may have committed a batch that is FAILED; read
"without an effect" as "without imported rows" for them.

Three things about the code follow from the model. A 5xx clears the key although
the transaction may have been committed, so that the next try repeats its effect:
`EffectsOnce` says that this is the only way. A crash, an INSERT whose answer is
lost, or a failing UPDATE leaves the key PROCESSING for good, and everybody who
asks again is told that the request is being processed. And of two requests that
find no key the second one fails on the primary key, with the 409 of any
duplicate instead of the one of a request in progress.

`AtMostOnce` is what a client may expect of a key. There a request is executed in
one step: it takes effect and its answer is remembered, or it fails and the key
stays free, or nobody hears of it again and the key is spent. Other requests with
the key are told what is remembered, or are turned away without an effect. An
answer may be lost, as the UPDATE that stores it may fail, but only as long as
nobody has been told from memory. `Remembered` is the refinement mapping: a key
that is PROCESSING is free while its owner has not answered, remembers the
answer while the owner's UPDATE is under way, and is spent when it has no owner.

### Sessions

One user, whose tabs share the cookies of their browsers. A tab has one request
to `/auth` under way: `sent` is the refresh token that the cookie jar held when
it left, `session` and `fresh` what the server has found and issued for it.
Requests of one tab that race, such as two pages of data that are told
TOKEN_EXPIRED at once, are two tabs. A refresh is several statements, each of
them committed on its own: `FindValidSession`, then `RotateUserSession`, or
`CheckReuse` and `RevokeAllUserSessions`. Other requests come in between.

`rotateUserSession` finds its row by the session and the old token, and says
nothing if there is none; the new token is sent to the browser in any case. And
the cookie jar keeps what arrives last (`Welcome`). So two refreshes with one
token may leave the browser with a token that no session has. The next refresh
is then answered with a 401 although the session is valid, and the page loaded
anew asks for a password. `CookieIsCurrent` says that this needs a race, or a
lost answer, of that very browser. Signing out finds its session by the token as
well: if a refresh has replaced it in the meantime, no row is updated, and the
session lives on although the browser is told otherwise. `SignOutRevokes` says
that this, too, needs such a race or loss.

When a refresh finds no valid session, it checks for a replay attack: "if token
was used but is now invalid/revoked" (`authService.js:82`), the alarm is raised
("revoking all active sessions") and all sessions of the user are revoked; a test
does so with a "spent-token-abc" and a mocked row (`authService.test.js:107`). The
query looks among the hashes of `user_sessions`, and there is no history of them:
`rotateUserSession` overwrites the hash, so that a token which a refresh has used is
in no row, and whoever presents it is told 401 and nothing else. This is the
violation of `ReuseRevokesAll`. What does raise the alarm is the last token of a
session that was revoked or has expired (`AlarmNeedsAnEnd`). If the check looked
into a history, the browser that loses a race, or an answer, would raise the
alarm, too.

Random tokens are distinct numbers, and a session is named by its first one.
`ended` remembers that somebody has signed out or a session has expired.
Passwords and the lockout after failed logins are left out.

### ExceptionWorkflow

One exception, the dashboards that show it, and the requests they send. A
dashboard (`views[u]`) is replaced only by `Load`, so it may be arbitrarily
stale; the buttons it offers follow from the status it shows, and people press
those buttons (`Sends`). The API itself compares the version only: it would
close an exception that nobody has approved, so the order of the workflow rests
on the dashboard. Nor does anything keep duties apart: the dashboard offers
Approve to every approver (`ExceptionsDashboard.jsx:221`), the service checks the
role alone (`exceptionsService.js:58`), and `integration.test.js` resolves and
approves with one user. So an approver may approve what he has resolved himself,
in the code as in `ExceptionWorkflow` and `ExceptionLifecycle`, and no property
says otherwise. `Resolve`, `Approve` and `Close` compare the version the request
carries; `Assign` locks the row and compares the status; every update is
counted by the trigger (`Bumped`). A conflict changes nothing and is no step.
`RowSecurity` is TRUE in the deployment of the repository, whose role is
subject to the policies, and FALSE when the application connects as the owner
of the tables. It only strengthens guards, so that the safety results of
`exceptions_dashboard` (FALSE) hold for TRUE as well.

### Retention

One action is one statement of `archiveOldJobsAndExceptions`. `now()` is the time
at which a transaction began, so its four statements agree on which rows are
old: `due` is what was `old` at `Begin`. They need not agree on which rows are
there: each sees what is committed when it starts. `Copy` waits for whoever has
inserted one of the rows and has not committed, and skips what is archived;
`Delete` finds no row that another job has deleted. `CREATE TABLE ... PARTITION
OF` locks `audit_logs` until the end of the transaction, so `CreateAndCommit` is
one step; the look into `pg_class` before it is not. Of two jobs that create the
same partition the later one fails, and everything it has archived is rolled
back.

`owner` says whether the server connects as the owner of the tables or as
`reconengine_app`, the role of the deployment, and never changes. Three things
follow for the latter. Closed exceptions are assigned, and the policy hides them
from a job that sets no user, and there is no policy for DELETE at all: they are
never archived. `fn_precreate_audit_partitions` runs with the rights of its
caller, who does not own `audit_logs`: the partitions of the migration last for
the first month, and from the second one on each archive transaction fails on
its last statement, so that nothing is archived. `OldRowsAreArchived` is
therefore about the owner. That closed exceptions are assigned is what the
dashboard guarantees; `closeExceptionWithLock` compares the version only, and an
unassigned exception closed by another client would be visible to the policy and
could be copied, but not deleted, by `reconengine_app` in the first month, and be
in both tables. A
partition can also not be created if `audit_logs_default` holds rows of its month
already, which takes an outage of three months and is not modelled. Nothing in the code writes to the partitions beyond
the audit triggers, which are left out.

## Runs

| run | shows |
|---|---|
| `jobs_any_fault` | Whatever two things go wrong among three workers that crash, drain, miss heartbeats, lose answers, see transactions fail or stall in one: a job has one home, attempts fence executions, no attempt commits its work twice, COMPLETED means that the work was done, and it was done at most once more than things went wrong. As long as heartbeats are on time and transactions quick, a job is executed by one call at a time and at most `max_attempts` times. Every job ends for good. |
| `runs_requests` | The schedulers of two processes and the Run History page enqueue two runs while days pass, statements are imported, answers get lost and a worker crashes. What the page says is true, a retry is of the date and batch the job was queued for, and the queue with its two jobs implements `JobLifecycle`. |
| `pool_chains` | Poll chains are never lost and multiply: one for the start and one per finished job. The limit of concurrent jobs is exceeded by no more than the finished jobs. After a stop only claims already on their way start jobs, `stop()` returns even if jobs hang, and while the worker runs, every queued job is claimed. |
| `recon_overlap` | Every item a completed run was about is matched or has an exception; groups are worth their line. An item is matched twice only by overlapping runs, excepted twice only by overlapping runs or if the first exception was assigned, and never excepted by a run that matched it or began after it was matched. All a run has to say appears in one step, or never (`AtomicRuns`). |
| `recon_double_match` | *Violated:* the trigger's promise that a transaction is in one confirmed group. |
| `exceptions_dashboard` | With stale dashboards and approvers that compete, an exception has the life of `ExceptionLifecycle`: in particular it is closed only after it was resolved and approved, possibly by one and the same approver, and signatures stay as they are; whoever must act has been notified. |
| `exceptions_row_security` | *Violated:* the list shows analysts what is assigned to them. It is read without a user, and the policy hides every assigned exception from it. |
| `imports_uploads` | Crashes, failing transactions, lost answers and repeated uploads leave every COMPLETED batch with each row of its file, as long as uploads of a file do not overlap; what was acknowledged stays. A reference is stored twice only by uploads that overlap. |
| `idempotency_retries` | Requests with one key, repeated and overlapping in any way, take effect once unless their client was told of a server error; a replayed answer was given by a handler and is true; and no key stays PROCESSING unless something went wrong. All of it amounts to requests that are executed in one step (`AtMostOnce`). |
| `sessions_tabs` | Two tabs of one browser and one of another sign in, refresh, race, lose an answer and sign out. A browser whose requests did not overlap and that lost no answer holds the token of a session, and ends that session by signing out; a revocation is not undone by a refresh that began before it. |
| `sessions_reuse` | *Violated:* presenting a token that was used revokes all sessions. One tab in each browser, so that nothing races: a refresh rotates the session, its answer is lost, the old token is presented again and is found in no row. |
| `retention_overlap` | Two archive jobs overlap over three months, and one fails somewhere: a row is in its table or in the archive and never in both, only old rows are archived, and on a server that owns the tables every old row is archived in the end, although the jobs wait for each other and race for the same partitions. |

`JobQueue` shows why `stop` is a disturbance: see the draining worker above.
`WorkerPool` shows two more things worth knowing, which follow from
`OvershootBounded` and `StopStartsNothingNew` being as tight as they are:
`maxConcurrency` can be exceeded once a job has finished, since two poll chains
may pass the check for one free slot, and `stop()` may find `activeJobs` empty
and return while a claim in flight is about to start a job.

## Bounds

- *Jobs:* two jobs suffice for a claim that competes with a recovery for another
  row, and for dead letters of different jobs (`runs_requests`); the other
  properties are about each job by itself, and `jobs_any_fault` has one.
  `MaxAttempts` is 2 or 3: a first try, a retry, and a
  burial. Two workers give an owner and a recoverer; three let two of them fail
  in turn. Two faults, one of which may undo what repairs the other; the safety
  properties are proved for any number.
- *Requests:* two days and two batches, so that a job is executed, or retried,
  later and with a newer batch at hand than it was queued; two jobs, of two
  schedulers, of a scheduler and the page, or of a page that has lost the answer
  to its first request; one answer to wait for, and giving up at any time. The
  theorems lift the bounds.
- *Retention:* an exception and two jobs, so that one transaction can archive some
  rows of a kind and another one the rest; three months, so that the
  partitions of the migration run out; two archive jobs and one accident.
- *Pool:* two slots and four jobs let chains outnumber slots. Two drain checks
  stand for thirty.
- *Runs:* two runs, both in flight. The book has an account of three transactions
  in two ledger files and two lines: a line for which transactions of both days
  compete and a pair within tolerance; and another account with a settlement
  whose two transactions arrive in different files. Double matches, double
  exceptions and dependence on another run all need two runs, and two suffice to
  show them; the theorems lift the bound.
- *Imports:* two statements that share a reference, a ledger with another, and a
  file that is always rejected. Three uploads: a first one that fails and two that
  compete to take it over. Two accidents: one that leaves the batch FAILED
  and one in the retry.
- *Idempotency:* two keys, and four requests that choose among them: two that
  overlap, one that comes after them and one with another key, or four with the
  same. Two accidents: one that makes the client try again and one in that try.
- *Sessions:* two tabs that race in one browser, and a third one elsewhere that must
  not notice; three tokens, for two logins and a refresh or for a login and two
  refreshes that race; one lost answer. The theorems lift the bounds.
- *Exceptions:* `MaxVersion` 7 is a full life and one reassignment. An analyst and
  two approvers are every pair of roles that can compete.

Symmetry is used in `sessions_tabs` and `runs_requests`, which check no liveness:
the two tabs of one browser, and the two workers, are interchangeable.

## Fairness

- `JobQueue!Fairness`: timers fire, the database answers, handlers return and
  time passes. Each worker starts, claims, finishes its calls and runs its
  recovery (every fifteen seconds) as long as its process lives. Enqueueing and
  disturbances are never forced.
- `WorkerPool!DrainSpec` assumes only that the loop of `stop()` goes on; this is
  all `StopReturns` may use, since jobs may hang. `JobsGetClaimed` carries what
  it needs besides: timers, answers and handlers. The fairness of `Claimed` is
  strong because a claim may fail, or find nothing, any number of times.
- `ExceptionWorkflow!FairSpec`: dashboards are opened again and again.
- `Idempotency!FairSpec`: handlers return and the database answers, for every
  request under way. Nobody has to send, or repeat, anything.
- `ImportBatches` has none, since nothing retries an upload but its user.
- `Retention!FairSpec`: the job comes up every day in every process, and the
  database answers. A transaction that waits for another one goes on when that
  has ended.
- `RunRequests` has none: nobody has to press a button, no day has to be
  reconciled, and what becomes of a queued job is the fairness of `JobQueue`.
- `Sessions` has none: its properties are about what must not happen.
- `ReconRuns` has no fairness: a run may die at any point, and its retry is the
  business of the queue.

## Proofs

`JobQueueProofs` has four parts about the queue, each for all workers, jobs and
priorities and any number of faults; the only assumption is `JobQueueAssumption`
on the constants.

1. *Whatever goes wrong* the queue keeps its types (`TypeCorrect`) and `OneHome`,
   `AttemptsAreFenced` and `WorkIsDoneOnce`. Their conjunction `IInv` is
   inductive, and none of the last three is without the others: that a new
   claim gets a fresh attempt needs that all attempts in use are counted by
   the row or by the dead letter; that a completion is honest needs that a call
   in phase "done" has committed; and burying a job keeps its attempts counted
   only because the job's home is unique. `SettleKeeps` is the lemma about the
   code that failing executions and recoveries share; each action has a lemma,
   and `NextIInv` puts them together. From the same invariant follows what no
   step does (`HistoryIsKept`): nothing but a claim counts an attempt, and nothing
   rewrites a dead letter. A COMPLETED job may become RETRYING again, when a
   recovery or a call that has missed its acknowledgement comes late, but even
   then it has to be claimed.
2. *Whatever goes wrong* repetitions are paid for (`RepeatsArePaid`): the work of a
   job is committed at most once more than there were faults. The invariant keeps
   books (`Paid`): the attempts that have committed the work, the calls that still
   may (`Open`) and the chances of another attempt are together at most one more
   than the faults. A job that is up for a claim, or not enqueued yet, is a chance
   (`Awaited`); so is one that may come up again although no call is open
   (`Returning`): a recovery has listed it, it waits for its backoff, or it is
   RUNNING and nobody sends heartbeats for it. A claim turns a chance into a call,
   a failure a call into a chance, and a reset one chance into the other. Every
   step that adds to the sum is a fault: a crash, a stop, a lost answer, a failed
   completion or a lack of time.
3. *While all is timely* jobs are executed by one call at a time and at most
   `MaxAttempts` times (`AttemptsAreTimely`). The invariant `TimelyInv` says why:
   what can be claimed is neither executed nor read by a recovery, and a worker
   that is up keeps the rows of its calls from the recoveries
   (`CallsExclusive`); so what calls and recoveries have read of a row's attempts
   is still what the row says (`ReadingsTrue`), and whoever puts a job up for
   another attempt knows that one is left (`AttemptsLeft`). Draining workers,
   which heartbeats do not protect, are covered by the backoff that outlasts
   them.
4. *If nothing goes wrong but crashes and failing transactions* the queue
   implements `JobLifecycle` (`QueueKeepsPromise`). Every other kind of
   disturbance can break the refinement: a stop, a lost acknowledgement, a late
   heartbeat or a slow transaction lets a recovery or a stale call rewrite a
   row that it does not own. Without them a row is RUNNING as long as a call
   is at work on it, and what a recovery has read is never COMPLETED
   (`CallsOwnRows`). `Reported` turns the refinement mapping, which chooses the
   dead letter of a job, into facts about each letter; `SettlePromise` maps
   failed executions and recoveries to `Retire`.

Its last part is about `RunRequests`, and first shows that the system's queue is
the queue (`QueueInside`): each of its steps is a step of `JobQueue` or leaves the queue
alone, so the theorems above hold of it. `PageIsTruthful` and `RetriesStay` hold
for any workers, days, batches and jobs, whatever goes wrong. They need that
committed attempts and runs correspond (`WorkHasRuns`, `RunsAsQueued`), that a
payload stays as it was queued (`PayloadsQueued`), and that the page knows its job
only if that is the one queued for its date (`PageHasJob`).

`WorkerPoolProofs` proves `ChainsGrow`, `OvershootBounded` and
`StopStartsNothingNew` for any limit, any number of jobs and any number of drain
checks. Its invariant relates the counters: chains are one more than the
finished jobs while the worker runs (`ChainsGrow`), no more jobs are active or
over than were queued (`JobsCounted`), and active jobs and claims in flight
together exceed the limit by no more than the finished jobs (`ClaimsBounded`).
The last is what `OvershootBounded` needs: the limit is checked when a claim
starts, and the bound is about the moment when it is answered.

`IdempotencyProofs` proves the safety properties of `idempotency_retries` for all
keys, any number of requests and any number of accidents. That two requests never
both have an effect needs to know where the key is after the first one: the key
of a request under way is PROCESSING (`OwnedProcessing`), and a request that took
effect and was not told of an error leaves its key in the table, owned by
nobody else (`EffectsHoldKeys`). That replays are true needs that a stored answer
was given by some request (`StoredAnswersAreTrue`) and that a request on its way
to its last write knows what it did (`Honest`).

The guard implements `AtMostOnce` (`GuardKeepsPromise`). `Recalled` reads the
refinement mapping off the only owner of a key (`OneOwner`), before and after a
step; then the SELECT, the INSERT that succeeds and the last write are invisible,
`Handle` is `Execute`, and a crash or an error after the INSERT is `Lose`, or an
`Execute` of which nobody hears. That what is lost has not been told to anybody
needs one more invariant: a key that somebody was answered from is COMPLETED
(`ReplaysRelied`), and stays so (`AnswersAreFinal`).

`ExceptionWorkflowProofs` proves, for any users and roles, the safety properties of
`exceptions_dashboard`, and that the workflow implements `ExceptionLifecycle`
(`WorkflowKeepsPromise`). The heart is `ViewsAreVersions`: versions only grow
(`ViewsAreOld`), so a dashboard that shows the current version shows the current
row, and the button that was pressed for what the dashboard showed fits the row
it is applied to. `Informed` is inductive only with `SomebodyIs`: a row in a given
status has the people in it whom the next step needs.

`ImportBatchesProofs` proves the safety properties of `imports_uploads` for any files,
uploads and accidents. That an upload has not overlapped with another one is
recorded by both (`Overlaps`), and rows belong to the file of their upload
(`RowsAreOfFiles`). What an upload has validated, and has not inserted yet, cannot
be taken by another upload that it did not overlap with (`ValidatedApart`), and an
upload that comes to a COMPLETED batch only looks at it (`LatecomersOnlyLook`).

`SessionsProofs` proves the properties of `sessions_tabs` for all browsers and
tabs and any number of tokens and lost answers. `CookieIsCurrent` needs to know why
a rotation finds its row when nothing races: the session still has the token of
the request (`Unraced`), since nobody else holds that token (`Separate`: tokens
belong to one session and to one browser), and the browser itself has one
request under way (`Alone`). `SignOutRevokes` adds that such a browser signs out with
the token of its cookie (`Leaving`), which no other tab can have rotated away
(`CookieNotRotated`). `AlarmNeedsAnEnd` is about the replay attack check as it is: as
long as nothing has ended (`Quiet`), a token that was not found is the token of no
session at all, and stays so, because new tokens are new (`Issued`); however
often used tokens are presented, nothing is revoked.

`ReconRunsProofs` proves every safety property of `recon_overlap` for every
book, any number of runs, and however they overlap with each other, with imports
and with assignments. The properties speak of committed rows, and a commit shows
many rows at once, so the invariant says the same of rows that are made and not
committed: `Exclusive`, `Unmatched` and `Once` are the three properties about
pairs of rows, for `Made` groups and `Raised` exceptions. What a query has found
and the loop has not inserted is disjoint and takes no line that is taken
(`Found`); uncommitted rows belong to runs in flight, at the stages that make
them (`Owned`), and what a run is about stays imported (`Imported`). `SeesItsPast`
is the heart: a run in flight sees all groups of the runs before it, and all
their exceptions but the assigned ones, so that the `NOT IN` and `NOT EXISTS` of
its statements are enough as long as nothing overlaps. `PairsAreDisjoint` and
`SettlementsAreDisjoint` are the facts about `Matching`: ranks one on both sides
pair no row twice, and the settlement loop gives no transaction to two lines.
`FindStep` and `ExceptStep` are shared by the three queries and by the two
exception statements. The assumptions are those on the constants, of which the
proof uses that ids are natural numbers and that nobody is `NoUser`.

From this invariant it follows that runs implement `AtomicRuns`
(`RunsKeepPromise`). The queries, the inserts and the exception statements leave
`Outline` as it is; `CompletionKeepsPromise` reads off the invariant what may be
committed, with one more part (`Grounded`): what is not committed yet is about
imported rows of the run's date. `SerialRunsAgree` shows what is missing where
`recon_double_match` finds the trigger's promise broken: if runs are never in
flight together, each is before or after each other one (`InOrder`), so that no
transaction and no line is in two groups at all, and an item has two exceptions
only if one of them has been assigned. Nothing in the code keeps runs apart.

`RetentionProofs` proves `TypeOK` and `OneTable` for any rows, archive jobs, months
and accidents. The INSERT of a kind of rows and the DELETE that follows it have
conditions of their own and see different snapshots; they agree all the same
(`Progress`) because the rows that one transaction has copied are copied by no
other one (`CopiesAreDisjoint`) and, as long as it has not committed, are still
in their table (`CopiesAreLive`). Hence a commit moves rows (`RowsMoveForGood`): what
leaves a table is in the archive, and nothing leaves the archive. Jobs wait for
each other while they copy, and never in a circle (`ArchivesDoNotDeadlock`): all of
them copy exceptions before jobs, and one that waits for its exceptions has
copied nothing that others could wait for.

## What is only checked, and what is left out

Model-checked only: liveness (`JobsSettle`, `JobsGetClaimed`, `StopReturns`,
`KeysSettle`, `OldRowsAreArchived`), since it rests on fairness, and the
properties that are violated. All safety properties of the other runs are proved.
`HistoryStays`, `StoredAnswersStay` and `OneOwner` are proved without a run of their own,
as are the type invariants of `Idempotency` and `RunRequests`.

Not modelled, because nothing else depends on it: payloads and error texts, the
counters of a run, the refresh of the reporting view (after the commit, and
read only by reports), audit rows, validation and formatting, pagination,
deadlines, the trend report, rate limits, the pages that only list. The reversal
chains of `db/04` are called by no code.

Not modelled either: the counter of failed logins; reading notifications and
marking them as read, which touches one row at a time; the daily refresh of the
reporting view, which is a job without a payload. Exceptions are one row at a
time, since no request touches two. Withdrawn batches do not occur in
`RunRequests`; an upload that fails after its batch was chosen is in
`ImportBatches`.

## Plan

Done: the queue and its abstract specification, the worker process, the scheduler
and the page that asks for runs, matching, runs and their abstract specification,
imports, idempotency keys and what they promise, sessions, the
exceptions workflow and its abstract specification, retention; the proofs above,
with four refinements among them.

What is left, in this order:

1. The composition of `RunRequests` with `AtomicRuns`: what a retried job does to a
   date that other jobs reconcile at the same time.
2. Notifications as their readers see them, and the counter of failed logins.

Proofs: the life of a session as its user sees it, and of a file that is uploaded
by one person after the other, as abstract specifications with their refinements.
