-------------------------- MODULE DownloadService --------------------------
(***************************************************************************)
(* The API side of Vooglaadija: app/services/download_service.py, the      *)
(* outbox writer app/services/outbox_service.py and the tables they share  *)
(* with the workers (core/models).  Every HTTP request is a process; a     *)
(* request that reads a row in one statement and writes it in a later one  *)
(* is two actions, with the value it read kept in req[r].snap.             *)
(*                                                                         *)
(* Abstractions.  A job id is created once and never reused (uuid4).  Of a *)
(* row only the columns the control flow reads are kept; next_retry_at is  *)
(* "none" (NULL), "future" or "due", and old says that updated_at lies     *)
(* before the zombie cutoff.  Publishing to the browser and metrics change *)
(* nothing that is read back, and are left out.                            *)
(***************************************************************************)
EXTENDS Integers, FiniteSets

CONSTANTS
  Jobs,        \* download_jobs primary keys
  FailedIds,   \* failed_jobs primary keys (bound on DLQ rows)
  Files,       \* names of media files on disk (bound on extractions in flight)
  Requests,    \* concurrent HTTP requests
  None,        \* SQL NULL
  UserOps,     \* which user operations besides create are issued
  Faults,      \* which faults of the environment may happen
  MaxFaults,   \* how many of them
  MaxMsgs      \* bound on the copies of a job's task message in the broker

AllUserOps == {"retry", "replay", "delete", "web_delete"}

AllFaults == {"broker", "request", "unlink", "lost", "abort", "soft_limit", "cancel"}

ASSUME DownloadServiceAssumption ==
  /\ UserOps \subseteq AllUserOps
  /\ Faults \subseteq AllFaults
  /\ MaxFaults \in Nat
  /\ MaxMsgs \in Nat \ {0}
  /\ None \notin Jobs \cup FailedIds \cup Files

VARIABLES
  job,          \* download_jobs, by id
  outbox,       \* outbox: number of rows written for a job, and whether the
                \* last of them is pending (the partial unique index allows one)
  failed_jobs,  \* failed_jobs (the dead-letter table), by id
  files,        \* media files on disk
  queue,        \* copies of process_download(j) ready in the Celery broker
  req,          \* the HTTP requests being served
  faults        \* faults that have happened

serviceVars == <<job, outbox, failed_jobs, files, queue, req, faults>>

Statuses == {"absent", "pending", "processing", "completed", "failed", "deferred", "deleted"}

Row == [status: Statuses, retry_count: Nat, next_retry_at: {"none", "future", "due"},
        file_path: Files \cup {None}, old: BOOLEAN]

\* A row that is not in the table: never inserted ("absent") or "deleted".
NoRow(status) == [status |-> status, retry_count |-> 0, next_retry_at |-> "none",
                  file_path |-> None, old |-> FALSE]

Exists(j) == job[j].status \notin {"absent", "deleted"}

FailedRow == [exists: BOOLEAN, original_job_id: Jobs \cup {None}]

NoFailedRow == [exists |-> FALSE, original_job_id |-> None]

RequestOps == {"idle", "best_effort", "enqueue", "close", "retry", "replay_load", "replay_write",
               "replay_new", "delete", "delete_row", "web_delete"}

RequestState == [op: RequestOps, job: Jobs \cup {None}, snap: Row,
                 failed: FailedIds \cup {None}, outbox_id: Nat]

IdleRequest == [op |-> "idle", job |-> None, snap |-> NoRow("absent"),
                failed |-> None, outbox_id |-> 0]

Fault(kind) == kind \in Faults /\ faults < MaxFaults /\ faults' = faults + 1

----------------------------------------------------------------------------
(* Statements and transactions                                             *)

\* write_job_to_outbox: at most one pending row per job.
write_job_to_outbox(entry) ==
  IF entry.pending THEN entry ELSE [rows |-> entry.rows + 1, pending |-> TRUE]

\* _reset_job_for_replay: the attributes it assigns on the loaded object.
reset_job_for_replay(row) ==
  [row EXCEPT !.status = "pending", !.retry_count = 0, !.next_retry_at = "none"]

\* The UPDATE that the ORM emits for a loaded object: it sets the columns whose
\* value differs from the one loaded (snap), whatever the row holds by now, and
\* nothing at all when no attribute changed.  updated_at has onupdate=now().
Flush(row, snap, new) ==
  IF new = snap THEN row
  ELSE [row EXCEPT
         !.status = IF new.status # snap.status THEN new.status ELSE @,
         !.retry_count = IF new.retry_count # snap.retry_count THEN new.retry_count ELSE @,
         !.next_retry_at = IF new.next_retry_at # snap.next_retry_at
                           THEN new.next_retry_at ELSE @,
         !.old = FALSE]

\* DELETE of a job row: the outbox rows go with it (cascade), and the
\* failed_jobs rows that point at it get a NULL original_job_id.
DeleteRow(j) ==
  /\ job' = [job EXCEPT ![j] = NoRow("deleted")]
  /\ outbox' = [outbox EXCEPT ![j] = [rows |-> 0, pending |-> FALSE]]
  /\ failed_jobs' = [f \in FailedIds |->
       IF failed_jobs[f].original_job_id = j
       THEN [failed_jobs[f] EXCEPT !.original_job_id = None] ELSE failed_jobs[f]]

Finish(r) == req' = [req EXCEPT ![r] = IdleRequest]

----------------------------------------------------------------------------
(* POST /downloads: create, then best_effort_enqueue                       *)

\* create: the job and its outbox row in one transaction.
InsertJob(j) ==
  /\ job[j].status = "absent"
  /\ job' = [job EXCEPT ![j] = [NoRow("absent") EXCEPT !.status = "pending"]]
  /\ outbox' = [outbox EXCEPT ![j] = write_job_to_outbox(@)]

create(r, j) ==
  /\ req[r].op = "idle"
  /\ InsertJob(j)
  /\ req' = [req EXCEPT ![r] = [IdleRequest EXCEPT !.op = "best_effort", !.job = j]]
  /\ UNCHANGED <<failed_jobs, files, queue, faults>>

\* best_effort_enqueue, first statement: the id of the pending outbox row.
SelectOutboxId(r) ==
  LET j == req[r].job IN
  /\ req[r].op = "best_effort"
  /\ req' = [req EXCEPT ![r].op = "enqueue",
                        ![r].outbox_id = IF outbox[j].pending THEN outbox[j].rows ELSE 0]
  /\ UNCHANGED <<job, outbox, failed_jobs, files, queue, faults>>

\* enqueue_job: send_task to the Celery broker.
enqueue_job(r) ==
  LET j == req[r].job IN
  /\ req[r].op = "enqueue"
  /\ queue[j] < MaxMsgs
  /\ queue' = [queue EXCEPT ![j] = @ + 1]
  /\ req' = [req EXCEPT ![r].op = "close"]
  /\ UNCHANGED <<job, outbox, failed_jobs, files, faults>>

\* The broker refuses: best_effort_enqueue logs and returns.
EnqueueFails(r) ==
  /\ req[r].op = "enqueue"
  /\ Fault("broker")
  /\ Finish(r)
  /\ UNCHANGED <<job, outbox, failed_jobs, files, queue>>

\* Mark the captured row processed, by id, if it is still pending.
CloseOutboxRow(r) ==
  LET j == req[r].job IN
  /\ req[r].op = "close"
  /\ outbox' = [outbox EXCEPT ![j].pending = @ /\ req[r].outbox_id # outbox[j].rows]
  /\ Finish(r)
  /\ UNCHANGED <<job, failed_jobs, files, queue, faults>>

----------------------------------------------------------------------------
(* POST /downloads/{id}/retry                                              *)

RetryRead(r, j) ==
  /\ "retry" \in UserOps
  /\ req[r].op = "idle"
  /\ job[j].status \in {"failed", "deferred"}
  /\ req' = [req EXCEPT ![r] = [IdleRequest EXCEPT !.op = "retry", !.job = j, !.snap = job[j]]]
  /\ UNCHANGED <<job, outbox, failed_jobs, files, queue, faults>>

\* Reset, outbox row and commit.  An UPDATE that meets no row is a
\* StaleDataError: the transaction is rolled back.
ResetAndCommit(r, deleted) ==
  LET j == req[r].job IN
  IF Exists(j)
  THEN /\ job' = [job EXCEPT ![j] = Flush(@, req[r].snap, reset_job_for_replay(req[r].snap))]
       /\ outbox' = [outbox EXCEPT ![j] = write_job_to_outbox(@)]
       /\ failed_jobs' = [f \in FailedIds |->
                            IF f \in deleted THEN NoFailedRow ELSE failed_jobs[f]]
  ELSE UNCHANGED <<job, outbox, failed_jobs>>

RetryWrite(r) ==
  /\ req[r].op = "retry"
  /\ ResetAndCommit(r, {})
  /\ Finish(r)
  /\ UNCHANGED <<files, queue, faults>>

----------------------------------------------------------------------------
(* POST /downloads/failed/{id}/replay                                      *)

\* _get_failed_job
ReplayFind(r, f) ==
  /\ "replay" \in UserOps
  /\ req[r].op = "idle"
  /\ failed_jobs[f].exists
  /\ req' = [req EXCEPT ![r] = [IdleRequest EXCEPT
               !.op = "replay_load", !.failed = f, !.job = failed_jobs[f].original_job_id]]
  /\ UNCHANGED <<job, outbox, failed_jobs, files, queue, faults>>

\* _get_original_for_failed_job: whatever the status of the original.
ReplayLoad(r) ==
  LET j == req[r].job IN
  /\ req[r].op = "replay_load"
  /\ IF j # None /\ Exists(j)
     THEN req' = [req EXCEPT ![r].op = "replay_write", ![r].snap = job[j]]
     ELSE req' = [req EXCEPT ![r].op = "replay_new", ![r].job = None]
  /\ UNCHANGED <<job, outbox, failed_jobs, files, queue, faults>>

\* Delete the DLQ row and reset the original, in one transaction.
ReplayWrite(r) ==
  /\ req[r].op = "replay_write"
  /\ ResetAndCommit(r, {req[r].failed})
  /\ Finish(r)
  /\ UNCHANGED <<files, queue, faults>>

\* Variant: a dead letter whose original is gone is only deleted.
ReplayDiscards(r, j) ==
  /\ req[r].op = "replay_new"
  /\ failed_jobs' = [failed_jobs EXCEPT ![req[r].failed] = NoFailedRow]
  /\ Finish(r)
  /\ UNCHANGED <<job, outbox, files, queue, faults>>

\* The original is gone: insert a new job and delete the DLQ row.
ReplayNew(r, j) ==
  /\ req[r].op = "replay_new"
  /\ InsertJob(j)
  /\ failed_jobs' = [failed_jobs EXCEPT ![req[r].failed] = NoFailedRow]
  /\ Finish(r)
  /\ UNCHANGED <<files, queue, faults>>

----------------------------------------------------------------------------
(* DELETE /downloads/{id} and the web route                                *)

\* The web route allows completed, failed and cancelled jobs, the API any job.
DeleteRead(r, j, op) ==
  /\ op \in UserOps
  /\ req[r].op = "idle"
  /\ Exists(j)
  /\ op = "web_delete" => job[j].status \in {"completed", "failed"}
  /\ req' = [req EXCEPT ![r] = [IdleRequest EXCEPT !.op = op, !.job = j, !.snap = job[j]]]
  /\ UNCHANGED <<job, outbox, failed_jobs, files, queue, faults>>

\* Variant: the row is deleted without its file.
DeleteWithoutUnlink(r) ==
  /\ req[r].op \in {"delete", "web_delete"}
  /\ req' = [req EXCEPT ![r].op = "delete_row"]
  /\ UNCHANGED <<job, outbox, failed_jobs, files, queue, faults>>

\* os.remove of the path that was read.
DeleteUnlink(r) ==
  /\ req[r].op \in {"delete", "web_delete"}
  /\ files' = files \ {req[r].snap.file_path}
  /\ req' = [req EXCEPT ![r].op = "delete_row"]
  /\ UNCHANGED <<job, outbox, failed_jobs, queue, faults>>

\* os.remove fails: the API request ends with an error, the web route goes on.
DeleteUnlinkFails(r) ==
  /\ req[r].op \in {"delete", "web_delete"}
  /\ req[r].snap.file_path \in files
  /\ Fault("unlink")
  /\ IF req[r].op = "delete" THEN Finish(r) ELSE req' = [req EXCEPT ![r].op = "delete_row"]
  /\ UNCHANGED <<job, outbox, failed_jobs, files, queue>>

\* db.delete and commit; deleting a row that is already gone is a warning.
DeleteCommit(r) ==
  /\ req[r].op = "delete_row"
  /\ IF Exists(req[r].job) THEN DeleteRow(req[r].job)
     ELSE UNCHANGED <<job, outbox, failed_jobs>>
  /\ Finish(r)
  /\ UNCHANGED <<files, queue, faults>>

\* The API process dies between two steps of a request.
RequestLost(r) ==
  /\ req[r].op # "idle"
  /\ Fault("request")
  /\ Finish(r)
  /\ UNCHANGED <<job, outbox, failed_jobs, files, queue>>

----------------------------------------------------------------------------
ServiceInit ==
  /\ job = [j \in Jobs |-> NoRow("absent")]
  /\ outbox = [j \in Jobs |-> [rows |-> 0, pending |-> FALSE]]
  /\ failed_jobs = [f \in FailedIds |-> NoFailedRow]
  /\ files = {}
  /\ queue = [j \in Jobs |-> 0]
  /\ req = [r \in Requests |-> IdleRequest]
  /\ faults = 0

\* A request that has started is driven to its end by the API process.
RequestStep(r) ==
  \/ SelectOutboxId(r) \/ enqueue_job(r) \/ CloseOutboxRow(r)
  \/ RetryWrite(r)
  \/ ReplayLoad(r) \/ ReplayWrite(r) \/ \E j \in Jobs : ReplayNew(r, j)
  \/ DeleteUnlink(r) \/ DeleteCommit(r)

ServiceNext ==
  \E r \in Requests :
    \/ \E j \in Jobs : create(r, j) \/ RetryRead(r, j)
                       \/ DeleteRead(r, j, "delete") \/ DeleteRead(r, j, "web_delete")
    \/ \E f \in FailedIds : ReplayFind(r, f)
    \/ RequestStep(r)
    \/ EnqueueFails(r) \/ DeleteUnlinkFails(r) \/ RequestLost(r)

ServiceTypeOK ==
  /\ job \in [Jobs -> Row]
  /\ outbox \in [Jobs -> [rows: Nat, pending: BOOLEAN]]
  /\ failed_jobs \in [FailedIds -> FailedRow]
  /\ files \in SUBSET Files
  /\ queue \in [Jobs -> 0..MaxMsgs]
  /\ req \in [Requests -> RequestState]
  /\ faults \in 0..MaxFaults
============================================================================
