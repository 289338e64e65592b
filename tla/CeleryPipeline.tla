--------------------------- MODULE CeleryPipeline ---------------------------
(***************************************************************************)
(* The production pipeline: the API (DownloadService), the Celery broker,  *)
(* the Celery worker and Celery Beat (worker/celery_tasks.py,              *)
(* worker/celery_app.py, worker/retry_scheduler.py).                       *)
(*                                                                         *)
(* An element of Workers is one run of process_download: the coroutine,    *)
(* from the message it consumes to the acknowledgement (acks_late).  A     *)
(* coroutine whose task hit the soft time limit outside its own frames is  *)
(* abandoned: Celery has failed and acknowledged the task, but the         *)
(* coroutine stays on the process-wide event loop and goes on when the     *)
(* next task runs that loop.                                               *)
(*                                                                         *)
(* Time is abstract: a retry delay, an ETA and the zombie cutoff elapse by *)
(* actions of their own, constrained by what the code's durations imply.   *)
(***************************************************************************)
EXTENDS DownloadService

CONSTANTS
  Workers,       \* concurrent executions of process_download
  MaxRetries,    \* download_jobs.max_retries
  CategoryCaps,  \* max_retries of the error categories; 0 is non-retryable
  BeatTasks      \* which of the two clean-up tasks are scheduled

AllBeatTasks == {"cleanup_expired_jobs", "cleanup_dlq"}

ASSUME CeleryPipelineAssumption ==
  /\ MaxRetries \in Nat
  /\ CategoryCaps \subseteq Nat
  /\ BeatTasks \subseteq AllBeatTasks
  /\ None \notin Workers

VARIABLES
  wk,        \* the executions of process_download
  eta,       \* retry_download messages whose countdown has not elapsed, per job
  sweep,     \* ids requeue_stuck_jobs has committed and not yet published
  selected,  \* ids enqueue_pending has selected and not yet published
  cleaner    \* the job whose file cleanup_expired_jobs has removed, row not yet

pipelineVars == <<wk, eta, sweep, selected, cleaner>>

vars == <<serviceVars, pipelineVars>>

Phases == {"idle", "executing", "extracted", "failing", "publishing"}

WorkerState == [phase: Phases, job: Jobs \cup {None}, retry_count: Nat,
                file: Files \cup {None}, final: BOOLEAN, abandoned: BOOLEAN]

IdleWorker == [phase |-> "idle", job |-> None, retry_count |-> 0, file |-> None,
               final |-> FALSE, abandoned |-> FALSE]

\* An execution that has claimed its job and not yet given it back.
Working(w) == wk[w].phase \in {"executing", "extracted", "failing"}

Holds(w, j) == wk[w].phase # "idle" /\ wk[w].job = j

Release(w) == wk' = [wk EXCEPT ![w] = IdleWorker]

----------------------------------------------------------------------------
(* Durations                                                               *)

\* task_time_limit: after this many seconds the pool kills the process.
task_time_limit == 600

\* Variant: a cutoff of five minutes, shorter than the time limit.
ShortStuckTimeout == 5 * 60

\* requeue_stuck_jobs(timeout_minutes=15), in seconds.
stuck_timeout == 15 * 60

\* updated_at falls behind the cutoff.  Every execution of the job started no
\* later than the last write of updated_at, and the pool does not let a task
\* live past its time limit, so when the limit is shorter than the cutoff only
\* an abandoned coroutine can still hold the job.
RowAges(j) ==
  /\ job[j].status \in {"pending", "processing"}
  /\ ~job[j].old
  /\ task_time_limit < stuck_timeout => \A w \in Workers : Holds(w, j) => wk[w].abandoned
  /\ job' = [job EXCEPT ![j].old = TRUE]
  /\ UNCHANGED <<outbox, failed_jobs, files, queue, req, faults, pipelineVars>>

\* next_retry_at is reached.
RetryFallsDue(j) ==
  /\ job[j].next_retry_at = "future"
  /\ job' = [job EXCEPT ![j].next_retry_at = "due"]
  /\ UNCHANGED <<outbox, failed_jobs, files, queue, req, faults, pipelineVars>>

\* The countdown of a retry_download message elapses.  It was started after
\* next_retry_at was computed, so the message that belongs to the row's current
\* schedule is not released before that moment; an older one may be.
EtaElapses(j) ==
  /\ eta[j] > 0
  /\ \/ job[j].next_retry_at # "future"
     \/ eta[j] > 1
     \/ \E w \in Workers : wk[w].phase = "publishing" /\ wk[w].job = j
  /\ queue[j] < MaxMsgs
  /\ eta' = [eta EXCEPT ![j] = @ - 1]
  /\ queue' = [queue EXCEPT ![j] = @ + 1]
  /\ UNCHANGED <<job, outbox, failed_jobs, files, req, faults, wk, sweep, selected, cleaner>>

----------------------------------------------------------------------------
(* process_download                                                        *)

\* Variant: the claim does not touch updated_at.
ClaimedRowKeepsUpdatedAt(row) == [row EXCEPT !.status = "processing"]

ClaimedRow(row) == [row EXCEPT !.status = "processing", !.old = FALSE]

\* UPDATE ... WHERE status = 'pending' RETURNING, and commit.  The columns
\* returned, retry_count among them, are what the execution goes on with.
Claim(w, j) ==
  /\ wk[w].phase = "idle"
  /\ queue[j] > 0
  /\ job[j].status = "pending"
  /\ queue' = [queue EXCEPT ![j] = @ - 1]
  /\ job' = [job EXCEPT ![j] = ClaimedRow(@)]
  /\ wk' = [wk EXCEPT ![w] = [IdleWorker EXCEPT
              !.phase = "executing", !.job = j, !.retry_count = job[j].retry_count]]
  /\ UNCHANGED <<outbox, failed_jobs, files, req, faults, eta, sweep, selected, cleaner>>

\* The row is not pending or not there: "skipped", and the message is gone.
Skip(w, j) ==
  /\ wk[w].phase = "idle"
  /\ queue[j] > 0
  /\ job[j].status # "pending"
  /\ queue' = [queue EXCEPT ![j] = @ - 1]
  /\ UNCHANGED <<job, outbox, failed_jobs, files, req, faults, pipelineVars>>

\* File names carry a fresh uuid4.
FreshFiles ==
  {f \in Files : /\ f \notin files
                 /\ \A j \in Jobs : job[j].file_path # f
                 /\ \A w \in Workers : wk[w].file # f
                 /\ \A r \in Requests : req[r].snap.file_path # f}

\* _execute_job: the extraction returns, its file is on disk.
ExtractionSucceeds(w) ==
  /\ wk[w].phase = "executing"
  /\ \E f \in FreshFiles :
       /\ files' = files \cup {f}
       /\ wk' = [wk EXCEPT ![w].phase = "extracted", ![w].file = f]
  /\ UNCHANGED <<job, outbox, failed_jobs, queue, req, faults, eta, sweep, selected, cleaner>>

\* retry_scheduler.evaluate, on the retry_count the claim returned.
effective_max(cap) == IF cap < MaxRetries THEN cap ELSE MaxRetries

is_final(retry_count, cap) == retry_count >= effective_max(cap)

\* _execute_job: the extraction raises, the circuit breaker's refusal included.
ExtractionFails(w, cap) ==
  /\ wk[w].phase = "executing"
  /\ wk' = [wk EXCEPT ![w].phase = "failing", ![w].final = is_final(wk[w].retry_count, cap)]
  /\ UNCHANGED <<serviceVars, eta, sweep, selected, cleaner>>

\* Variant: the WHERE status = 'processing' is dropped.
WhereAnyStatus(row, new) == new

\* Every write of an execution is an UPDATE ... WHERE status = 'processing'
\* whose row count is not looked at.
WhereProcessing(row, new) == IF row.status = "processing" THEN new ELSE row

CompletedRow(row, file) == [row EXCEPT !.status = "completed", !.file_path = file, !.old = FALSE]

\* Variant: the file is cleaned up whether or not the UPDATE matched.
CompleteThenCleanUp(w) ==
  LET j == wk[w].job IN
  /\ wk[w].phase = "extracted"
  /\ job' = [job EXCEPT ![j] = WhereProcessing(@, CompletedRow(@, wk[w].file))]
  /\ files' = files \ {wk[w].file}
  /\ Release(w)
  /\ UNCHANGED <<outbox, failed_jobs, queue, req, faults, eta, sweep, selected, cleaner>>

Complete(w) ==
  LET j == wk[w].job IN
  /\ wk[w].phase = "extracted"
  /\ job' = [job EXCEPT ![j] = WhereProcessing(@, CompletedRow(@, wk[w].file))]
  /\ Release(w)
  /\ UNCHANGED <<outbox, failed_jobs, files, queue, req, faults, eta, sweep, selected, cleaner>>

\* The database fails in or after the completing transaction: _execute_job takes
\* it for a failure of the extraction, and forgets the file.
CompletionFails(w, cap) ==
  LET j == wk[w].job IN
  /\ wk[w].phase = "extracted"
  /\ Fault("abort")
  /\ \/ job' = [job EXCEPT ![j] = WhereProcessing(@, CompletedRow(@, wk[w].file))]
     \/ UNCHANGED job
  /\ wk' = [wk EXCEPT ![w].phase = "failing", ![w].file = None,
                      ![w].final = is_final(wk[w].retry_count, cap)]
  /\ UNCHANGED <<outbox, failed_jobs, files, queue, req, eta, sweep, selected, cleaner>>

\* Variant: the attempt is not counted.
UncountedRetryRow(row, retry_count) ==
  [row EXCEPT !.status = "pending", !.retry_count = retry_count,
              !.next_retry_at = "future", !.old = FALSE]

\* Variant: the budget is counted down.
CountdownRetryRow(row, retry_count) ==
  [row EXCEPT !.status = "pending", !.retry_count = retry_count - 1,
              !.next_retry_at = "future", !.old = FALSE]

RetryRow(row, retry_count) ==
  [row EXCEPT !.status = "pending", !.retry_count = retry_count + 1,
              !.next_retry_at = "future", !.old = FALSE]

\* _handle_result, not final: back to pending, and commit ...
ScheduleRetry(w) ==
  LET j == wk[w].job IN
  /\ wk[w].phase = "failing" /\ ~wk[w].final
  /\ job' = [job EXCEPT ![j] = WhereProcessing(@, RetryRow(@, wk[w].retry_count))]
  /\ wk' = [wk EXCEPT ![w].phase = "publishing"]
  /\ UNCHANGED <<outbox, failed_jobs, files, queue, req, faults, eta, sweep, selected, cleaner>>

\* ... then retry_download.apply_async(countdown), whatever the UPDATE matched.
PublishRetry(w) ==
  LET j == wk[w].job IN
  /\ wk[w].phase = "publishing"
  /\ eta[j] < MaxMsgs
  /\ eta' = [eta EXCEPT ![j] = @ + 1]
  /\ Release(w)
  /\ UNCHANGED <<serviceVars, sweep, selected, cleaner>>

FailedRowOf(row) == [row EXCEPT !.status = "failed", !.old = FALSE]

\* The failed_jobs rows _move_to_dlq may insert for j: ids are fresh.
InsertFailedJob(j) ==
  \E f \in FailedIds :
    /\ ~failed_jobs[f].exists
    /\ \A r \in Requests : req[r].failed # f
    /\ failed_jobs' = [failed_jobs EXCEPT ![f] = [exists |-> TRUE, original_job_id |-> j]]

\* Variant: two transactions, the worker may die between them.
move_to_dlq_in_two_commits(w) ==
  LET j == wk[w].job IN
  /\ wk[w].phase = "failing" /\ wk[w].final
  /\ IF Exists(j)
     THEN /\ job' = [job EXCEPT ![j] = WhereProcessing(@, FailedRowOf(@))]
          /\ InsertFailedJob(j) \/ UNCHANGED failed_jobs
     ELSE UNCHANGED <<job, failed_jobs>>
  /\ Release(w)
  /\ UNCHANGED <<outbox, files, queue, req, faults, eta, sweep, selected, cleaner>>

\* _move_to_dlq: status and dead-letter row in one transaction.  The row of the
\* job may be gone: then the foreign key refuses the insert and the task fails.
move_to_dlq(w) ==
  LET j == wk[w].job IN
  /\ wk[w].phase = "failing" /\ wk[w].final
  /\ IF Exists(j)
     THEN /\ job' = [job EXCEPT ![j] = WhereProcessing(@, FailedRowOf(@))]
          /\ InsertFailedJob(j)
     ELSE UNCHANGED <<job, failed_jobs>>
  /\ Release(w)
  /\ UNCHANGED <<outbox, files, queue, req, faults, eta, sweep, selected, cleaner>>

RequeuedRow(row) == [row EXCEPT !.status = "pending", !.old = FALSE]

\* CancelledError, raised at an await of the coroutine: _requeue_job.  No message
\* is published.
Cancelled(w) ==
  LET j == wk[w].job IN
  /\ Working(w)
  /\ Fault("cancel")
  /\ job' = [job EXCEPT ![j] = WhereProcessing(@, RequeuedRow(@))]
  /\ Release(w)
  /\ UNCHANGED <<outbox, failed_jobs, files, queue, req, eta, sweep, selected, cleaner>>

\* The worker process dies; reject_on_worker_lost puts the message back, unless
\* the task had already been failed by its soft time limit.
WorkerLost(w) ==
  LET j == wk[w].job IN
  /\ wk[w].phase # "idle"
  /\ Fault("lost")
  /\ \/ wk[w].abandoned /\ UNCHANGED queue
     \/ /\ ~wk[w].abandoned /\ queue[j] < MaxMsgs
        /\ queue' = [queue EXCEPT ![j] = @ + 1]
  /\ Release(w)
  /\ UNCHANGED <<job, outbox, failed_jobs, files, req, eta, sweep, selected, cleaner>>

\* The hard time limit, or an exception of the database or the broker outside
\* _execute_job: the task fails and its message is acknowledged.
TaskAborts(w) ==
  /\ wk[w].phase # "idle"
  /\ Fault("abort")
  /\ Release(w)
  /\ UNCHANGED <<job, outbox, failed_jobs, files, queue, req, eta, sweep, selected, cleaner>>

\* The soft time limit raises out of run_until_complete.
SoftTimeLimit(w) ==
  /\ wk[w].phase # "idle" /\ ~wk[w].abandoned
  /\ Fault("soft_limit")
  /\ wk' = [wk EXCEPT ![w].abandoned = TRUE]
  /\ UNCHANGED <<job, outbox, failed_jobs, files, queue, req, eta, sweep, selected, cleaner>>

----------------------------------------------------------------------------
(* Celery Beat                                                             *)

\* Variant: the sweep does not look at updated_at.
requeue_all_processing ==
  LET stuck == {j \in Jobs : job[j].status = "processing"} IN
  /\ sweep = {}
  /\ stuck # {}
  /\ job' = [j \in Jobs |-> IF j \in stuck THEN RequeuedRow(job[j]) ELSE job[j]]
  /\ sweep' = stuck
  /\ UNCHANGED <<outbox, failed_jobs, files, queue, req, faults, wk, eta, selected, cleaner>>

\* requeue_stuck_jobs: one UPDATE for all stuck rows, and commit ...
requeue_stuck_jobs ==
  LET stuck == {j \in Jobs : job[j].status = "processing" /\ job[j].old} IN
  /\ sweep = {}
  /\ stuck # {}
  /\ job' = [j \in Jobs |-> IF j \in stuck THEN RequeuedRow(job[j]) ELSE job[j]]
  /\ sweep' = stuck
  /\ UNCHANGED <<outbox, failed_jobs, files, queue, req, faults, wk, eta, selected, cleaner>>

\* ... then one message per id.
SweepPublish(j) ==
  /\ j \in sweep
  /\ queue[j] < MaxMsgs
  /\ sweep' = sweep \ {j}
  /\ queue' = [queue EXCEPT ![j] = @ + 1]
  /\ UNCHANGED <<job, outbox, failed_jobs, files, req, faults, wk, eta, selected, cleaner>>

\* Variant: only rows that were never scheduled for a retry are enqueued.
IsUnscheduled(row) == row.status = "pending" /\ row.next_retry_at = "none"

IsEnqueueable(row) == row.status = "pending" /\ row.next_retry_at # "future"

\* enqueue_pending: the SELECT ...
enqueue_pending ==
  LET pending_ids == {j \in Jobs : IsEnqueueable(job[j])} IN
  /\ selected = {}
  /\ pending_ids # {}
  /\ selected' = pending_ids
  /\ UNCHANGED <<serviceVars, wk, eta, sweep, cleaner>>

\* ... then one message per id, whatever has become of the row.
EnqueuePublish(j) ==
  /\ j \in selected
  /\ queue[j] < MaxMsgs
  /\ selected' = selected \ {j}
  /\ queue' = [queue EXCEPT ![j] = @ + 1]
  /\ UNCHANGED <<job, outbox, failed_jobs, files, req, faults, wk, eta, sweep, cleaner>>

\* cleanup_expired_jobs: the file of an expired completed job goes first ...
CleanupUnlink(j) ==
  /\ "cleanup_expired_jobs" \in BeatTasks
  /\ cleaner = None
  /\ job[j].status = "completed"
  /\ files' = files \ {job[j].file_path}
  /\ cleaner' = j
  /\ UNCHANGED <<job, outbox, failed_jobs, queue, req, faults, wk, eta, sweep, selected>>

\* ... then the row, by primary key.
CleanupCommit ==
  /\ cleaner # None
  /\ IF Exists(cleaner) THEN DeleteRow(cleaner) ELSE UNCHANGED <<job, outbox, failed_jobs>>
  /\ cleaner' = None
  /\ UNCHANGED <<files, queue, req, faults, wk, eta, sweep, selected>>

\* cleanup_dlq: a dead-letter row is seven days old.
cleanup_dlq(f) ==
  /\ "cleanup_dlq" \in BeatTasks
  /\ failed_jobs[f].exists
  /\ failed_jobs' = [failed_jobs EXCEPT ![f] = NoFailedRow]
  /\ UNCHANGED <<job, outbox, files, queue, req, faults, pipelineVars>>

\* A periodic task dies half-way.
BeatTaskLost ==
  /\ sweep # {} \/ selected # {} \/ cleaner # None
  /\ Fault("abort")
  /\ \/ sweep' = {} /\ UNCHANGED <<selected, cleaner>>
     \/ selected' = {} /\ UNCHANGED <<sweep, cleaner>>
     \/ cleaner' = None /\ UNCHANGED <<sweep, selected>>
  /\ UNCHANGED <<job, outbox, failed_jobs, files, queue, req, wk, eta>>

----------------------------------------------------------------------------
Init ==
  /\ ServiceInit
  /\ wk = [w \in Workers |-> IdleWorker]
  /\ eta = [j \in Jobs |-> 0]
  /\ sweep = {}
  /\ selected = {}
  /\ cleaner = None

\* An execution, once started, is driven to its end.
WorkerStep(w) ==
  \/ ExtractionSucceeds(w) \/ \E cap \in CategoryCaps : ExtractionFails(w, cap)
  \/ Complete(w) \/ ScheduleRetry(w) \/ PublishRetry(w) \/ move_to_dlq(w)

WorkerFault(w) ==
  \/ \E cap \in CategoryCaps : CompletionFails(w, cap)
  \/ Cancelled(w) \/ WorkerLost(w) \/ TaskAborts(w) \/ SoftTimeLimit(w)

Deliver(j) == \E w \in Workers : Claim(w, j) \/ Skip(w, j)

BeatStep ==
  \/ requeue_stuck_jobs \/ enqueue_pending \/ CleanupCommit
  \/ \E j \in Jobs : SweepPublish(j) \/ EnqueuePublish(j)

Clock(j) == RowAges(j) \/ RetryFallsDue(j) \/ EtaElapses(j)

Next ==
  \/ ServiceNext /\ UNCHANGED pipelineVars
  \/ \E w \in Workers : WorkerStep(w) \/ WorkerFault(w)
  \/ \E j \in Jobs : Deliver(j) \/ Clock(j) \/ CleanupUnlink(j)
  \/ \E f \in FailedIds : cleanup_dlq(f)
  \/ BeatStep
  \/ BeatTaskLost

Spec == Init /\ [][Next]_vars

\* Fairness: requests and executions that have begun go on (asyncio, Celery's
\* pool), the broker delivers ready messages, Beat runs its tasks for ever, time
\* passes.  No user operation, no success of an extraction and no fault is fair.
Fairness ==
  /\ \A r \in Requests : WF_vars(RequestStep(r) /\ UNCHANGED pipelineVars)
  /\ \A w \in Workers : WF_vars(WorkerStep(w))
  /\ \A j \in Jobs : /\ SF_vars(Deliver(j))
                     /\ WF_vars(RowAges(j)) /\ WF_vars(RetryFallsDue(j)) /\ WF_vars(EtaElapses(j))
                     /\ WF_vars(SweepPublish(j)) /\ WF_vars(EnqueuePublish(j))
  /\ WF_vars(requeue_stuck_jobs) /\ WF_vars(enqueue_pending) /\ WF_vars(CleanupCommit)

FairSpec == Spec /\ Fairness

----------------------------------------------------------------------------
(* Properties                                                              *)

\* Type correctness of the tables, the broker and the processes.
TypeOK ==
  /\ ServiceTypeOK
  /\ wk \in [Workers -> WorkerState]
  /\ eta \in [Jobs -> 0..MaxMsgs]
  /\ sweep \in SUBSET Jobs
  /\ selected \in SUBSET Jobs
  /\ cleaner \in Jobs \cup {None}

\* Two executions never work on the same job at the same time: the claim is an
\* atomic UPDATE and the zombie sweep never takes a job from a live execution
\* (celery_main.py: "multiple workers without work duplication").
NoDoubleProcessing ==
  \A w1, w2 \in Workers : w1 # w2 /\ Working(w1) /\ Working(w2) => wk[w1].job # wk[w2].job

\* A job's retry budget is never handed back by a worker: retry_count falls only
\* when a request resets or deletes the row.  Each execution writes retry_count
\* from the value its claim returned, so a second execution of the same claim
\* would write an old count.
AttemptsNeverRefunded ==
  [][\A j \in Jobs : job'[j].retry_count < job[j].retry_count
       => req' # req \/ job'[j].status = "deleted"]_vars

\* A failed job can be found in the dead-letter table, whatever crashes, cancels
\* or concurrent retries and replays happen (_move_to_dlq writes both records in
\* one transaction), as long as cleanup_dlq has not purged it.
FailedHasDlqRow ==
  \A j \in Jobs : job[j].status = "failed" =>
    \E f \in FailedIds : failed_jobs[f].exists /\ failed_jobs[f].original_job_id = j

\* With one request at a time, a dead letter leaves the table by a replay only
\* together with a job becoming pending: the original or, when that is deleted, a
\* new one (replay_failed: "preserving atomic DLQ cleanup and outbox write").
DeadLetterReplayed ==
  [][\A f \in FailedIds : failed_jobs[f].exists /\ ~failed_jobs'[f].exists
       => \E j \in Jobs : job[j].status # "pending" /\ job'[j].status = "pending"]_vars

\* A completed job can be served: the file its row names is on disk, except
\* while a delete request or the expiry task that removed it has not yet
\* committed the deletion of the row.
CompletedHasFile ==
  \A j \in Jobs : job[j].status = "completed" =>
    \/ job[j].file_path \in files
    \/ cleaner = j
    \/ \E r \in Requests : req[r].op \in {"delete", "web_delete", "delete_row"} /\ req[r].job = j

\* Files on disk that neither a row, which expires, nor an execution names.
Orphans ==
  {f \in files : /\ \A j \in Jobs : job[j].file_path # f
                 /\ \A w \in Workers : wk[w].file # f}

\* No file is left on disk for ever.
NoOrphanFile == Orphans = {}

\* A fault costs at most one file: retries, web deletes, expiry and the sweep
\* account for every other file that an extraction has put on disk.
OrphansAreLosses == Cardinality(Orphans) <= faults

\* A job scheduled for a retry is not claimed before its delay has elapsed.
BackoffRespected ==
  [][\A j \in Jobs : job[j].status = "pending" /\ job[j].next_retry_at = "future"
       => job'[j].status # "processing"]_vars

\* When a dead-letter row for a job appears, the job becomes failed in the same
\* transaction (_move_to_dlq: "either both records persist or neither does").
DlqRecordsTogether ==
  [][\A f \in FailedIds : \A j \in Jobs :
       ~failed_jobs[f].exists /\ failed_jobs'[f] = [exists |-> TRUE, original_job_id |-> j]
       => job'[j].status = "failed"]_vars

\* A pending job is picked up or deleted, even if every message published for it
\* was lost or refused: enqueue_pending publishes it again.
PendingIsPickedUp ==
  \A j \in Jobs : job[j].status = "pending" ~> job[j].status # "pending"

\* After the last fault a job reaches a verdict: lost workers are swept, lost
\* messages republished, and retries come to an end.
EveryJobSettles ==
  \A j \in Jobs : job[j].status \in {"pending", "processing"}
                 ~> job[j].status \in {"completed", "failed", "deleted"}

\* The pipeline implements the lifecycle: the owner of a job in process is the
\* execution that works on it.
OwnerOf(j) ==
  IF job[j].status = "processing" /\ \E w \in Workers : Working(w) /\ wk[w].job = j
  THEN CHOOSE w \in Workers : Working(w) /\ wk[w].job = j ELSE None

Lifecycle == INSTANCE JobLifecycle WITH
  status <- [j \in Jobs |-> job[j].status],
  tries <- [j \in Jobs |-> job[j].retry_count],
  owner <- [j \in Jobs |-> OwnerOf(j)]

ImplementsLifecycle == Lifecycle!Spec
============================================================================
