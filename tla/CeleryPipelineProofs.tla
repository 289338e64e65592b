------------------------ MODULE CeleryPipelineProofs ------------------------
(***************************************************************************)
(* Theorems about CeleryPipeline, for any number of jobs, workers and      *)
(* requests, any set of user operations, faults and bounds.                *)
(***************************************************************************)
EXTENDS CeleryPipeline, TLAPS

\* What the type invariant needs to be inductive: a request that is past its
\* first step, and an execution, have a job; a replay has a dead letter.
RequestTargets ==
  \A r \in Requests :
    /\ req[r].op \notin {"idle", "replay_load", "replay_new"} => req[r].job \in Jobs
    /\ req[r].op \in {"replay_load", "replay_write", "replay_new"} => req[r].failed \in FailedIds

WorkerTargets == \A w \in Workers : wk[w].phase # "idle" => wk[w].job \in Jobs

TypeInv == TypeOK /\ RequestTargets /\ WorkerTargets

----------------------------------------------------------------------------
(* Types of the values that the actions assign                             *)

LEMMA NoRowType ==
  ASSUME NEW s \in Statuses
  PROVE  NoRow(s) \in Row
  BY DEF NoRow, Row, Statuses

LEMMA IdleRequestType == IdleRequest \in RequestState
  BY NoRowType DEF IdleRequest, RequestState, RequestOps, Statuses

LEMMA IdleWorkerType == IdleWorker \in WorkerState
  BY DEF IdleWorker, WorkerState, Phases

LEMMA NoFailedRowType == NoFailedRow \in FailedRow
  BY DEF NoFailedRow, FailedRow

LEMMA FlushType ==
  ASSUME NEW row \in Row, NEW snap \in Row
  PROVE  Flush(row, snap, reset_job_for_replay(snap)) \in Row
  BY DEF Flush, reset_job_for_replay, Row, Statuses

LEMMA OutboxType ==
  ASSUME NEW entry \in [rows: Nat, pending: BOOLEAN]
  PROVE  write_job_to_outbox(entry) \in [rows: Nat, pending: BOOLEAN]
  BY DEF write_job_to_outbox

\* The rows that executions and the clock write.
LEMMA WrittenRowType ==
  ASSUME NEW row \in Row, NEW file \in Files \cup {None}, NEW n \in Nat
  PROVE  /\ CompletedRow(row, file) \in Row
         /\ RetryRow(row, n) \in Row
         /\ FailedRowOf(row) \in Row
         /\ RequeuedRow(row) \in Row
         /\ ClaimedRow(row) \in Row
         /\ [row EXCEPT !.old = TRUE] \in Row
         /\ [row EXCEPT !.next_retry_at = "due"] \in Row
  <1> USE DEF Row, Statuses
  <1>1. CompletedRow(row, file) \in Row
    BY DEF CompletedRow
  <1>2. RetryRow(row, n) \in Row
    <2>1. n + 1 \in Nat
      OBVIOUS
    <2> QED BY <2>1 DEF RetryRow
  <1>3. FailedRowOf(row) \in Row /\ RequeuedRow(row) \in Row /\ ClaimedRow(row) \in Row
    BY DEF FailedRowOf, RequeuedRow, ClaimedRow
  <1>4. [row EXCEPT !.old = TRUE] \in Row /\ [row EXCEPT !.next_retry_at = "due"] \in Row
    OBVIOUS
  <1> QED BY <1>1, <1>2, <1>3, <1>4

LEMMA FaultType ==
  ASSUME faults \in 0..MaxFaults, NEW kind, Fault(kind)
  PROVE  faults' \in 0..MaxFaults
  BY DownloadServiceAssumption DEF Fault

LEMMA DeleteRowType ==
  ASSUME ServiceTypeOK, NEW j \in Jobs, DeleteRow(j)
  PROVE  /\ job' \in [Jobs -> Row]
         /\ outbox' \in [Jobs -> [rows: Nat, pending: BOOLEAN]]
         /\ failed_jobs' \in [FailedIds -> FailedRow]
  <1>1. NoRow("deleted") \in Row
    BY NoRowType DEF Statuses
  <1>2. job' \in [Jobs -> Row]
    BY <1>1 DEF DeleteRow, ServiceTypeOK
  <1>3. outbox' \in [Jobs -> [rows: Nat, pending: BOOLEAN]]
    BY DEF DeleteRow, ServiceTypeOK
  <1>4. failed_jobs' \in [FailedIds -> FailedRow]
    BY DEF DeleteRow, ServiceTypeOK, FailedRow
  <1> QED BY <1>2, <1>3, <1>4

LEMMA InsertJobType ==
  ASSUME ServiceTypeOK, NEW j \in Jobs, InsertJob(j)
  PROVE  /\ job' \in [Jobs -> Row]
         /\ outbox' \in [Jobs -> [rows: Nat, pending: BOOLEAN]]
  <1>1. [NoRow("absent") EXCEPT !.status = "pending"] \in Row
    BY DEF NoRow, Row, Statuses
  <1>2. job' \in [Jobs -> Row]
    BY <1>1 DEF InsertJob, ServiceTypeOK
  <1>3. outbox' \in [Jobs -> [rows: Nat, pending: BOOLEAN]]
    BY OutboxType DEF InsertJob, ServiceTypeOK
  <1> QED BY <1>2, <1>3

LEMMA ResetType ==
  ASSUME ServiceTypeOK, NEW r \in Requests, NEW S, req[r].job \in Jobs, ResetAndCommit(r, S)
  PROVE  /\ job' \in [Jobs -> Row]
         /\ outbox' \in [Jobs -> [rows: Nat, pending: BOOLEAN]]
         /\ failed_jobs' \in [FailedIds -> FailedRow]
  <1>1. req[r].snap \in Row
    BY DEF ServiceTypeOK, RequestState
  <1>2. \A j \in Jobs : Flush(job[j], req[r].snap, reset_job_for_replay(req[r].snap)) \in Row
    BY <1>1, FlushType DEF ServiceTypeOK
  <1>3. \A j \in Jobs : write_job_to_outbox(outbox[j]) \in [rows: Nat, pending: BOOLEAN]
    BY OutboxType DEF ServiceTypeOK
  <1>4. job' \in [Jobs -> Row]
    BY <1>2 DEF ResetAndCommit, ServiceTypeOK
  <1>5. outbox' \in [Jobs -> [rows: Nat, pending: BOOLEAN]]
    BY <1>3 DEF ResetAndCommit, ServiceTypeOK
  <1>6. failed_jobs' \in [FailedIds -> FailedRow]
    BY NoFailedRowType DEF ResetAndCommit, ServiceTypeOK
  <1> QED BY <1>4, <1>5, <1>6

\* A request that ends leaves every other request as it was.
LEMMA FinishType ==
  ASSUME TypeInv, NEW r \in Requests, Finish(r)
  PROVE  req' \in [Requests -> RequestState] /\ RequestTargets'
  <1>1. req' \in [Requests -> RequestState]
    BY IdleRequestType DEF TypeInv, TypeOK, ServiceTypeOK, Finish
  <1>2. RequestTargets'
    BY DEF TypeInv, TypeOK, ServiceTypeOK, Finish, RequestTargets, IdleRequest
  <1> QED BY <1>1, <1>2

LEMMA ReleaseType ==
  ASSUME TypeInv, NEW w \in Workers, Release(w)
  PROVE  wk' \in [Workers -> WorkerState] /\ WorkerTargets'
  <1>1. wk' \in [Workers -> WorkerState]
    BY IdleWorkerType DEF TypeInv, TypeOK, Release
  <1>2. WorkerTargets'
    BY DEF TypeInv, TypeOK, Release, WorkerTargets, IdleWorker
  <1> QED BY <1>1, <1>2

----------------------------------------------------------------------------
(* Type correctness                                                        *)

LEMMA TypeInit == Init => TypeInv
  <1> SUFFICES ASSUME Init PROVE TypeInv
    OBVIOUS
  <1>1. NoRow("absent") \in Row
    BY NoRowType DEF Statuses
  <1>2. job \in [Jobs -> Row] /\ outbox \in [Jobs -> [rows: Nat, pending: BOOLEAN]]
    BY <1>1 DEF Init, ServiceInit
  <1>3. failed_jobs \in [FailedIds -> FailedRow] /\ files \in SUBSET Files
    BY NoFailedRowType DEF Init, ServiceInit
  <1>4. queue \in [Jobs -> 0..MaxMsgs] /\ eta \in [Jobs -> 0..MaxMsgs] /\ faults \in 0..MaxFaults
    BY DownloadServiceAssumption DEF Init, ServiceInit
  <1>5. req \in [Requests -> RequestState] /\ RequestTargets
    BY IdleRequestType DEF Init, ServiceInit, RequestTargets, IdleRequest
  <1>6. wk \in [Workers -> WorkerState] /\ WorkerTargets
    BY IdleWorkerType DEF Init, WorkerTargets, IdleWorker
  <1>7. sweep \in SUBSET Jobs /\ selected \in SUBSET Jobs /\ cleaner \in Jobs \cup {None}
    BY DEF Init
  <1> QED BY <1>2, <1>3, <1>4, <1>5, <1>6, <1>7 DEF TypeInv, TypeOK, ServiceTypeOK

\* The requests of the API.
LEMMA ServiceType == TypeInv /\ ServiceNext /\ UNCHANGED pipelineVars => TypeInv'
  <1> SUFFICES ASSUME TypeInv, NEW r \in Requests, UNCHANGED pipelineVars,
                      \/ \E j \in Jobs : create(r, j) \/ RetryRead(r, j)
                           \/ DeleteRead(r, j, "delete") \/ DeleteRead(r, j, "web_delete")
                      \/ \E f \in FailedIds : ReplayFind(r, f)
                      \/ RequestStep(r)
                      \/ EnqueueFails(r) \/ DeleteUnlinkFails(r) \/ RequestLost(r)
               PROVE  TypeInv'
    BY DEF ServiceNext
  <1> USE DEF TypeInv, TypeOK, ServiceTypeOK
  <1>1. wk' \in [Workers -> WorkerState] /\ WorkerTargets'
    BY DEF pipelineVars, WorkerTargets
  <1>2. /\ eta' \in [Jobs -> 0..MaxMsgs]
        /\ sweep' \in SUBSET Jobs /\ selected' \in SUBSET Jobs /\ cleaner' \in Jobs \cup {None}
    BY DEF pipelineVars
  <1>3. req[r] \in RequestState
    OBVIOUS
  <1>4. ASSUME NEW j \in Jobs, create(r, j) PROVE TypeInv'
    <2>1. req' \in [Requests -> RequestState] /\ RequestTargets'
      BY <1>4, IdleRequestType
      DEF create, RequestState, RequestOps, IdleRequest, RequestTargets
    <2> QED BY <1>1, <1>2, <1>4, <2>1, InsertJobType DEF create
  <1>5. ASSUME NEW j \in Jobs, RetryRead(r, j) PROVE TypeInv'
    <2>1. req' \in [Requests -> RequestState] /\ RequestTargets'
      BY <1>5, IdleRequestType
      DEF RetryRead, RequestState, RequestOps, IdleRequest, RequestTargets
    <2> QED BY <1>1, <1>2, <1>5, <2>1 DEF RetryRead
  <1>6. ASSUME NEW j \in Jobs, NEW op \in {"delete", "web_delete"}, DeleteRead(r, j, op)
        PROVE  TypeInv'
    <2>1. req' \in [Requests -> RequestState] /\ RequestTargets'
      BY <1>6, IdleRequestType
      DEF DeleteRead, RequestState, RequestOps, IdleRequest, RequestTargets
    <2> QED BY <1>1, <1>2, <1>6, <2>1 DEF DeleteRead
  <1>7. ASSUME NEW f \in FailedIds, ReplayFind(r, f) PROVE TypeInv'
    <2>1. req' \in [Requests -> RequestState] /\ RequestTargets'
      BY <1>7, IdleRequestType
      DEF ReplayFind, RequestState, RequestOps, IdleRequest, RequestTargets, FailedRow
    <2> QED BY <1>1, <1>2, <1>7, <2>1 DEF ReplayFind
  <1>8. CASE SelectOutboxId(r)
    <2>1. req' \in [Requests -> RequestState] /\ RequestTargets'
      BY <1>3, <1>8 DEF SelectOutboxId, RequestState, RequestOps, RequestTargets
    <2> QED BY <1>1, <1>2, <1>8, <2>1 DEF SelectOutboxId
  <1>9. CASE enqueue_job(r)
    <2>1. req' \in [Requests -> RequestState] /\ RequestTargets'
      BY <1>3, <1>9 DEF enqueue_job, RequestState, RequestOps, RequestTargets
    <2>2. queue' \in [Jobs -> 0..MaxMsgs]
      BY <1>9, DownloadServiceAssumption DEF enqueue_job, RequestTargets
    <2> QED BY <1>1, <1>2, <1>9, <2>1, <2>2 DEF enqueue_job
  <1>10. CASE CloseOutboxRow(r)
    <2>1. outbox' \in [Jobs -> [rows: Nat, pending: BOOLEAN]]
      BY <1>10 DEF CloseOutboxRow
    <2> QED BY <1>1, <1>2, <1>10, <2>1, FinishType DEF CloseOutboxRow
  <1>11. CASE RetryWrite(r)
    BY <1>1, <1>2, <1>11, ResetType, FinishType DEF RetryWrite, RequestTargets
  <1>12. CASE ReplayLoad(r)
    <2>1. CASE req[r].job # None /\ Exists(req[r].job)
      <3>1. req[r].job \in Jobs /\ job[req[r].job] \in Row
        BY <1>3, <2>1 DEF RequestState
      <3>2. req' = [req EXCEPT ![r].op = "replay_write", ![r].snap = job[req[r].job]]
        BY <1>12, <2>1 DEF ReplayLoad
      <3>3. req' \in [Requests -> RequestState] /\ RequestTargets'
        BY <1>3, <1>12, <3>1, <3>2 DEF ReplayLoad, RequestState, RequestOps, RequestTargets
      <3> QED BY <1>1, <1>2, <1>12, <3>3 DEF ReplayLoad
    <2>2. CASE ~(req[r].job # None /\ Exists(req[r].job))
      <3>1. req' = [req EXCEPT ![r].op = "replay_new", ![r].job = None]
        BY <1>12, <2>2 DEF ReplayLoad
      <3>2. req' \in [Requests -> RequestState] /\ RequestTargets'
        BY <1>3, <1>12, <3>1 DEF ReplayLoad, RequestState, RequestOps, RequestTargets
      <3> QED BY <1>1, <1>2, <1>12, <3>2 DEF ReplayLoad
    <2> QED BY <2>1, <2>2
  <1>13. CASE ReplayWrite(r)
    BY <1>1, <1>2, <1>13, ResetType, FinishType DEF ReplayWrite, RequestTargets
  <1>14. ASSUME NEW j \in Jobs, ReplayNew(r, j) PROVE TypeInv'
    <2>1. failed_jobs' \in [FailedIds -> FailedRow]
      BY <1>14, NoFailedRowType DEF ReplayNew
    <2> QED BY <1>1, <1>2, <1>14, <2>1, InsertJobType, FinishType DEF ReplayNew
  <1>15. CASE DeleteUnlink(r)
    <2>1. req' \in [Requests -> RequestState] /\ RequestTargets'
      BY <1>3, <1>15 DEF DeleteUnlink, RequestState, RequestOps, RequestTargets
    <2> QED BY <1>1, <1>2, <1>15, <2>1 DEF DeleteUnlink
  <1>16. CASE DeleteCommit(r)
    BY <1>1, <1>2, <1>16, DeleteRowType, FinishType DEF DeleteCommit, RequestTargets
  <1>17. CASE EnqueueFails(r)
    BY <1>1, <1>2, <1>17, FaultType, FinishType DEF EnqueueFails
  <1>18. CASE DeleteUnlinkFails(r)
    <2>1. CASE req[r].op = "delete"
      BY <1>1, <1>2, <1>18, <2>1, FaultType, FinishType DEF DeleteUnlinkFails
    <2>2. CASE req[r].op = "web_delete"
      <3>1. req' = [req EXCEPT ![r].op = "delete_row"]
        BY <1>18, <2>2 DEF DeleteUnlinkFails
      <3>2. req' \in [Requests -> RequestState] /\ RequestTargets'
        BY <1>3, <2>2, <3>1 DEF RequestState, RequestOps, RequestTargets
      <3> QED BY <1>1, <1>2, <1>18, <3>2, FaultType DEF DeleteUnlinkFails
    <2> QED BY <1>18, <2>1, <2>2 DEF DeleteUnlinkFails
  <1>19. CASE RequestLost(r)
    BY <1>1, <1>2, <1>19, FaultType, FinishType DEF RequestLost
  <1> QED BY <1>4, <1>5, <1>6, <1>7, <1>8, <1>9, <1>10, <1>11, <1>12, <1>13, <1>14, <1>15,
             <1>16, <1>17, <1>18, <1>19 DEF RequestStep

\* The executions of process_download.
LEMMA WorkerType ==
  ASSUME TypeInv, NEW w \in Workers, WorkerStep(w) \/ WorkerFault(w)
  PROVE  TypeInv'
  <1> USE DEF TypeInv, TypeOK, ServiceTypeOK
  <1>1. wk[w] \in WorkerState
    OBVIOUS
  <1>2. ASSUME UNCHANGED req PROVE RequestTargets'
    BY <1>2 DEF RequestTargets
  <1>3. CASE ExtractionSucceeds(w)
    <2>1. PICK f \in FreshFiles : /\ files' = files \cup {f}
                                  /\ wk' = [wk EXCEPT ![w].phase = "extracted", ![w].file = f]
      BY <1>3 DEF ExtractionSucceeds
    <2>2. f \in Files
      BY DEF FreshFiles
    <2>3. wk' \in [Workers -> WorkerState] /\ WorkerTargets'
      BY <1>1, <1>3, <2>1, <2>2 DEF ExtractionSucceeds, WorkerState, Phases, WorkerTargets
    <2> QED BY <1>2, <1>3, <2>1, <2>2, <2>3 DEF ExtractionSucceeds
  <1>4. ASSUME NEW cap \in CategoryCaps, ExtractionFails(w, cap) PROVE TypeInv'
    <2>1. is_final(wk[w].retry_count, cap) \in BOOLEAN
      BY DEF is_final
    <2>2. wk' \in [Workers -> WorkerState] /\ WorkerTargets'
      BY <1>1, <1>4, <2>1 DEF ExtractionFails, WorkerState, Phases, WorkerTargets
    <2> QED BY <1>2, <1>4, <2>2 DEF ExtractionFails, serviceVars
  <1>5. CASE Complete(w)
    <2>1. \A j \in Jobs : WhereProcessing(job[j], CompletedRow(job[j], wk[w].file)) \in Row
      BY <1>1, WrittenRowType DEF WhereProcessing, WorkerState
    <2>2. job' \in [Jobs -> Row]
      BY <1>5, <2>1 DEF Complete
    <2> QED BY <1>2, <1>5, <2>2, ReleaseType DEF Complete
  <1>6. CASE ScheduleRetry(w)
    <2>1. \A j \in Jobs : WhereProcessing(job[j], RetryRow(job[j], wk[w].retry_count)) \in Row
      BY <1>1, WrittenRowType DEF WhereProcessing, WorkerState
    <2>2. job' \in [Jobs -> Row]
      BY <1>6, <2>1 DEF ScheduleRetry
    <2>3. wk' \in [Workers -> WorkerState] /\ WorkerTargets'
      BY <1>1, <1>6 DEF ScheduleRetry, WorkerState, Phases, WorkerTargets
    <2> QED BY <1>2, <1>6, <2>2, <2>3 DEF ScheduleRetry
  <1>7. CASE PublishRetry(w)
    <2>1. eta' \in [Jobs -> 0..MaxMsgs]
      BY <1>7, DownloadServiceAssumption DEF PublishRetry, WorkerTargets
    <2> QED BY <1>2, <1>7, <2>1, ReleaseType DEF PublishRetry, serviceVars
  <1>8. CASE move_to_dlq(w)
    <2>1. wk[w].job \in Jobs
      BY <1>8 DEF move_to_dlq, WorkerTargets
    <2>2. \A j \in Jobs : WhereProcessing(job[j], FailedRowOf(job[j])) \in Row
      BY WrittenRowType DEF WhereProcessing
    <2>3. job' \in [Jobs -> Row]
      BY <1>8, <2>2 DEF move_to_dlq
    <2>4. failed_jobs' \in [FailedIds -> FailedRow]
      <3>1. CASE UNCHANGED failed_jobs
        BY <3>1
      <3>2. CASE InsertFailedJob(wk[w].job)
        <4>1. PICK f \in FailedIds : failed_jobs' = [failed_jobs EXCEPT ![f] =
                                        [exists |-> TRUE, original_job_id |-> wk[w].job]]
          BY <3>2 DEF InsertFailedJob
        <4> QED BY <2>1, <4>1 DEF FailedRow
      <3> QED BY <1>8, <3>1, <3>2 DEF move_to_dlq
    <2> QED BY <1>2, <1>8, <2>3, <2>4, ReleaseType DEF move_to_dlq
  <1>9. CASE Cancelled(w)
    <2>1. \A j \in Jobs : WhereProcessing(job[j], RequeuedRow(job[j])) \in Row
      BY WrittenRowType DEF WhereProcessing
    <2>2. job' \in [Jobs -> Row]
      BY <1>9, <2>1 DEF Cancelled
    <2> QED BY <1>2, <1>9, <2>2, ReleaseType, FaultType DEF Cancelled
  <1>10. CASE WorkerLost(w)
    <2>1. queue' \in [Jobs -> 0..MaxMsgs]
      BY <1>10, DownloadServiceAssumption DEF WorkerLost, WorkerTargets
    <2> QED BY <1>2, <1>10, <2>1, ReleaseType, FaultType DEF WorkerLost
  <1>11. CASE TaskAborts(w)
    BY <1>2, <1>11, ReleaseType, FaultType DEF TaskAborts
  <1>12. CASE SoftTimeLimit(w)
    <2>1. wk' \in [Workers -> WorkerState] /\ WorkerTargets'
      BY <1>1, <1>12 DEF SoftTimeLimit, WorkerState, WorkerTargets
    <2> QED BY <1>2, <1>12, <2>1, FaultType DEF SoftTimeLimit
  <1>13. ASSUME NEW cap \in CategoryCaps, CompletionFails(w, cap) PROVE TypeInv'
    <2>1. \A j \in Jobs : WhereProcessing(job[j], CompletedRow(job[j], wk[w].file)) \in Row
      BY <1>1, WrittenRowType DEF WhereProcessing, WorkerState
    <2>2. job' \in [Jobs -> Row]
      BY <1>13, <2>1 DEF CompletionFails
    <2>3. is_final(wk[w].retry_count, cap) \in BOOLEAN
      BY DEF is_final
    <2>4. wk' \in [Workers -> WorkerState] /\ WorkerTargets'
      BY <1>1, <1>13, <2>3 DEF CompletionFails, WorkerState, Phases, WorkerTargets
    <2> QED BY <1>2, <1>13, <2>2, <2>4, FaultType DEF CompletionFails
  <1> QED BY <1>3, <1>4, <1>5, <1>6, <1>7, <1>8, <1>9, <1>10, <1>11, <1>12, <1>13
          DEF WorkerStep, WorkerFault

\* Deliveries, the passage of time and Celery Beat.
LEMMA BrokerType ==
  ASSUME TypeInv,
         \/ \E j \in Jobs : Deliver(j) \/ Clock(j) \/ CleanupUnlink(j)
         \/ \E f \in FailedIds : cleanup_dlq(f)
         \/ BeatStep
         \/ BeatTaskLost
  PROVE  TypeInv'
  <1> USE DEF TypeInv, TypeOK, ServiceTypeOK
  <1>1. ASSUME UNCHANGED req PROVE RequestTargets'
    BY <1>1 DEF RequestTargets
  <1>2. ASSUME UNCHANGED wk PROVE WorkerTargets'
    BY <1>2 DEF WorkerTargets
  <1>3. ASSUME NEW w \in Workers, NEW j \in Jobs, Claim(w, j) PROVE TypeInv'
    <2>1. ClaimedRow(job[j]) \in Row
      BY WrittenRowType
    <2>2. job' \in [Jobs -> Row]
      BY <1>3, <2>1 DEF Claim
    <2>3. job[j].retry_count \in Nat
      BY DEF Row
    <2>4. wk' \in [Workers -> WorkerState] /\ WorkerTargets'
      BY <1>3, <2>3, IdleWorkerType DEF Claim, WorkerState, Phases, IdleWorker, WorkerTargets
    <2>5. queue' \in [Jobs -> 0..MaxMsgs]
      BY <1>3, DownloadServiceAssumption DEF Claim
    <2> QED BY <1>1, <1>3, <2>2, <2>4, <2>5 DEF Claim
  <1>4. ASSUME NEW w \in Workers, NEW j \in Jobs, Skip(w, j) PROVE TypeInv'
    <2>1. queue' \in [Jobs -> 0..MaxMsgs]
      BY <1>4, DownloadServiceAssumption DEF Skip
    <2> QED BY <1>1, <1>2, <1>4, <2>1 DEF Skip, pipelineVars
  <1>5. ASSUME NEW j \in Jobs, RowAges(j) \/ RetryFallsDue(j) PROVE TypeInv'
    <2>1. job' \in [Jobs -> Row]
      <3>1. /\ [job[j] EXCEPT !.old = TRUE] \in Row
            /\ [job[j] EXCEPT !.next_retry_at = "due"] \in Row
        BY WrittenRowType
      <3> QED BY <1>5, <3>1 DEF RowAges, RetryFallsDue
    <2> QED BY <1>1, <1>2, <1>5, <2>1 DEF RowAges, RetryFallsDue, pipelineVars
  <1>6. ASSUME NEW j \in Jobs, EtaElapses(j) PROVE TypeInv'
    <2>1. queue' \in [Jobs -> 0..MaxMsgs] /\ eta' \in [Jobs -> 0..MaxMsgs]
      BY <1>6, DownloadServiceAssumption DEF EtaElapses
    <2> QED BY <1>1, <1>2, <1>6, <2>1 DEF EtaElapses
  <1>7. ASSUME NEW j \in Jobs, CleanupUnlink(j) PROVE TypeInv'
    BY <1>1, <1>2, <1>7 DEF CleanupUnlink
  <1>8. CASE CleanupCommit
    BY <1>1, <1>2, <1>8, DeleteRowType DEF CleanupCommit
  <1>9. ASSUME NEW f \in FailedIds, cleanup_dlq(f) PROVE TypeInv'
    <2>1. failed_jobs' \in [FailedIds -> FailedRow]
      BY <1>9, NoFailedRowType DEF cleanup_dlq
    <2> QED BY <1>1, <1>2, <1>9, <2>1 DEF cleanup_dlq, pipelineVars
  <1>10. CASE requeue_stuck_jobs
    <2>1. \A j \in Jobs : RequeuedRow(job[j]) \in Row
      BY WrittenRowType
    <2> QED BY <1>1, <1>2, <1>10, <2>1 DEF requeue_stuck_jobs
  <1>11. CASE enqueue_pending
    BY <1>1, <1>2, <1>11 DEF enqueue_pending, serviceVars
  <1>12. ASSUME NEW j \in Jobs, SweepPublish(j) \/ EnqueuePublish(j) PROVE TypeInv'
    <2>1. queue' \in [Jobs -> 0..MaxMsgs]
      BY <1>12, DownloadServiceAssumption DEF SweepPublish, EnqueuePublish
    <2> QED BY <1>1, <1>2, <1>12, <2>1 DEF SweepPublish, EnqueuePublish
  <1>13. CASE BeatTaskLost
    BY <1>1, <1>2, <1>13, FaultType DEF BeatTaskLost
  <1> QED BY <1>3, <1>4, <1>5, <1>6, <1>7, <1>8, <1>9, <1>10, <1>11, <1>12, <1>13
          DEF Deliver, Clock, BeatStep

LEMMA TypeStep == TypeInv /\ [Next]_vars => TypeInv'
  <1> SUFFICES ASSUME TypeInv, [Next]_vars PROVE TypeInv'
    OBVIOUS
  <1>1. CASE ServiceNext /\ UNCHANGED pipelineVars
    BY <1>1, ServiceType
  <1>2. CASE \E w \in Workers : WorkerStep(w) \/ WorkerFault(w)
    BY <1>2, WorkerType
  <1>3. CASE \/ \E j \in Jobs : Deliver(j) \/ Clock(j) \/ CleanupUnlink(j)
             \/ \E f \in FailedIds : cleanup_dlq(f)
             \/ BeatStep
             \/ BeatTaskLost
    BY <1>3, BrokerType
  <1>4. CASE UNCHANGED vars
    BY <1>4 DEF vars, serviceVars, pipelineVars, TypeInv, TypeOK, ServiceTypeOK,
                RequestTargets, WorkerTargets
  <1> QED BY <1>1, <1>2, <1>3, <1>4 DEF Next

\* The tables, the broker and the processes keep their types in every behaviour,
\* whatever the faults and the interleaving.  No worker counts retries below zero
\* and no message count leaves its bound.
THEOREM TypeCorrect == Spec => []TypeOK
  <1>1. TypeInv => TypeOK
    BY DEF TypeInv
  <1> QED BY <1>1, TypeInit, TypeStep, PTL DEF Spec

----------------------------------------------------------------------------
(* A failed job is in the dead-letter table                                *)

\* A dead letter points at a row that is there (ON DELETE SET NULL).
OriginalsExist ==
  \A f \in FailedIds :
    failed_jobs[f].original_job_id # None => Exists(failed_jobs[f].original_job_id)

\* What a replay remembers of its dead letter is still true of it: the id is not
\* reused for another job, and a replay that inserts a new job has no original.
ReplaysAgree ==
  \A r \in Requests :
    /\ req[r].op \in {"replay_load", "replay_write"} =>
         failed_jobs[req[r].failed].original_job_id \in {req[r].job, None}
    /\ req[r].op = "replay_new" => failed_jobs[req[r].failed].original_job_id = None

\* Request r will delete the dead letter f and leave the status of the original
\* alone: it loaded the original as pending, so its flush does not set status.
Dooms(r, f) ==
  req[r].op = "replay_write" /\ req[r].failed = f /\ req[r].snap.status = "pending"

LastingDlqRow ==
  \A j \in Jobs : job[j].status = "failed" =>
    \E f \in FailedIds : /\ failed_jobs[f].exists /\ failed_jobs[f].original_job_id = j
                         /\ \A r \in Requests : ~Dooms(r, f)

DlqInv == TypeInv /\ OriginalsExist /\ ReplaysAgree /\ LastingDlqRow

\* A step that leaves the dead letters alone, fails and deletes no job, and moves
\* no replay.
DlqQuiet ==
  /\ failed_jobs' = failed_jobs
  /\ \A j \in Jobs : /\ Exists(j) => job'[j].status \notin {"absent", "deleted"}
                     /\ job'[j].status = "failed" => job[j].status = "failed"
  /\ \A r \in Requests : \/ req'[r] = req[r]
                         \/ req'[r].op \notin {"replay_load", "replay_write", "replay_new"}

LEMMA QuietStep == DlqInv /\ TypeInv' /\ DlqQuiet => DlqInv'
  <1> SUFFICES ASSUME DlqInv, TypeInv', DlqQuiet PROVE DlqInv'
    OBVIOUS
  <1>1. OriginalsExist'
    <2> SUFFICES ASSUME NEW f \in FailedIds, failed_jobs'[f].original_job_id # None
                 PROVE  job'[failed_jobs'[f].original_job_id].status \notin {"absent", "deleted"}
      BY DEF OriginalsExist, Exists
    <2>1. failed_jobs[f].original_job_id \in Jobs /\ Exists(failed_jobs[f].original_job_id)
      BY DEF DlqInv, OriginalsExist, DlqQuiet, TypeInv, TypeOK, ServiceTypeOK, FailedRow
    <2> QED BY <2>1 DEF DlqQuiet, Exists
  <1>2. ReplaysAgree'
    BY DEF DlqInv, ReplaysAgree, DlqQuiet
  <1>3. LastingDlqRow'
    BY DEF DlqInv, LastingDlqRow, DlqQuiet, Dooms
  <1> QED BY <1>1, <1>2, <1>3 DEF DlqInv

\* Deleting a job takes its id out of the dead letters.
LEMMA DeleteStep ==
  ASSUME DlqInv, TypeInv', NEW j \in Jobs, DeleteRow(j),
         \A r \in Requests : req'[r] = req[r] \/ req'[r].op = "idle"
  PROVE  DlqInv'
  <1> USE DEF DlqInv, TypeInv, TypeOK, ServiceTypeOK
  <1>1. \A f \in FailedIds :
          /\ failed_jobs'[f].exists = failed_jobs[f].exists
          /\ failed_jobs'[f].original_job_id =
               IF failed_jobs[f].original_job_id = j THEN None
               ELSE failed_jobs[f].original_job_id
    BY DEF DeleteRow, FailedRow
  <1>2. \A k \in Jobs : job'[k] = IF k = j THEN NoRow("deleted") ELSE job[k]
    BY DEF DeleteRow
  <1>3. job'[j].status = "deleted"
    BY <1>2 DEF NoRow
  <1>4. OriginalsExist'
    <2> SUFFICES ASSUME NEW f \in FailedIds, failed_jobs'[f].original_job_id # None
                 PROVE  job'[failed_jobs'[f].original_job_id].status \notin {"absent", "deleted"}
      BY DEF OriginalsExist, Exists
    <2>1. /\ failed_jobs'[f].original_job_id = failed_jobs[f].original_job_id
          /\ failed_jobs[f].original_job_id \in Jobs \ {j}
          /\ Exists(failed_jobs[f].original_job_id)
      BY <1>1 DEF OriginalsExist, FailedRow
    <2> QED BY <1>2, <2>1 DEF Exists
  <1>5. ReplaysAgree'
    <2> SUFFICES ASSUME NEW r \in Requests, req'[r] = req[r],
                        req[r].op \in {"replay_load", "replay_write", "replay_new"}
                 PROVE  /\ req[r].op \in {"replay_load", "replay_write"} =>
                             failed_jobs'[req[r].failed].original_job_id \in {req[r].job, None}
                        /\ req[r].op = "replay_new" =>
                             failed_jobs'[req[r].failed].original_job_id = None
      BY DEF ReplaysAgree
    <2>1. req[r].failed \in FailedIds
      BY DEF RequestTargets
    <2> QED BY <1>1, <2>1 DEF ReplaysAgree
  <1>6. LastingDlqRow'
    <2> SUFFICES ASSUME NEW k \in Jobs, job'[k].status = "failed"
                 PROVE  \E f \in FailedIds :
                          /\ failed_jobs'[f].exists /\ failed_jobs'[f].original_job_id = k
                          /\ \A r \in Requests : ~Dooms(r, f)'
      BY DEF LastingDlqRow
    <2>1. k # j /\ job[k].status = "failed"
      BY <1>2, <1>3
    <2>2. PICK f \in FailedIds :
             /\ failed_jobs[f].exists /\ failed_jobs[f].original_job_id = k
             /\ \A r \in Requests : ~Dooms(r, f)
      BY <2>1 DEF LastingDlqRow
    <2>3. failed_jobs'[f].exists /\ failed_jobs'[f].original_job_id = k
      BY <1>1, <2>1, <2>2
    <2>4. \A r \in Requests : ~Dooms(r, f)'
      BY <2>2 DEF Dooms
    <2> QED BY <2>3, <2>4
  <1> QED BY <1>4, <1>5, <1>6

\* What the writes of an execution do to the status of a row.
LEMMA WrittenStatus ==
  ASSUME NEW row \in Row, NEW file, NEW n
  PROVE  /\ WhereProcessing(row, CompletedRow(row, file)).status \in {row.status, "completed"}
         /\ WhereProcessing(row, RetryRow(row, n)).status \in {row.status, "pending"}
         /\ WhereProcessing(row, RequeuedRow(row)).status \in {row.status, "pending"}
         /\ WhereProcessing(row, FailedRowOf(row)).status \in {row.status, "failed"}
         /\ RequeuedRow(row).status = "pending"
         /\ ClaimedRow(row).status = "processing"
  BY DEF WhereProcessing, CompletedRow, RetryRow, RequeuedRow, FailedRowOf, ClaimedRow, Row

\* What the reset of a loaded row does: it sets pending, or leaves the status
\* alone when the row was loaded as pending.
LEMMA FlushedStatus ==
  ASSUME NEW row \in Row, NEW snap \in Row
  PROVE  /\ Flush(row, snap, reset_job_for_replay(snap)).status \in {row.status, "pending"}
         /\ snap.status # "pending" =>
              Flush(row, snap, reset_job_for_replay(snap)).status = "pending"
  BY DEF Flush, reset_job_for_replay, Row

LEMMA RetryWriteQuiet ==
  ASSUME TypeInv, NEW r \in Requests, RetryWrite(r)
  PROVE  DlqQuiet
  <1> USE DEF TypeInv, TypeOK, ServiceTypeOK
  <1>1. req[r].job \in Jobs /\ req[r].snap \in Row
    BY DEF RetryWrite, RequestTargets, RequestState
  <1>2. failed_jobs' = failed_jobs
    BY DEF RetryWrite, ResetAndCommit
  <1>3. \A s \in Requests : req'[s] = req[s] \/ req'[s].op = "idle"
    BY DEF RetryWrite, Finish, IdleRequest
  <1>4. CASE Exists(req[r].job)
    <2>1. job' = [job EXCEPT ![req[r].job] =
                    Flush(@, req[r].snap, reset_job_for_replay(req[r].snap))]
      BY <1>4 DEF RetryWrite, ResetAndCommit
    <2>2. job'[req[r].job].status \in {job[req[r].job].status, "pending"}
      BY <1>1, <2>1, FlushedStatus
    <2> QED BY <1>1, <1>2, <1>3, <2>1, <2>2 DEF DlqQuiet, Exists
  <1>5. CASE ~Exists(req[r].job)
    BY <1>2, <1>3, <1>5 DEF RetryWrite, ResetAndCommit, DlqQuiet, Exists
  <1> QED BY <1>4, <1>5

LEMMA ServiceQuiet ==
  ASSUME TypeInv, NEW r \in Requests,
         \/ \E j \in Jobs : create(r, j) \/ RetryRead(r, j)
              \/ DeleteRead(r, j, "delete") \/ DeleteRead(r, j, "web_delete")
         \/ SelectOutboxId(r) \/ enqueue_job(r) \/ CloseOutboxRow(r) \/ RetryWrite(r)
         \/ DeleteUnlink(r) \/ EnqueueFails(r) \/ DeleteUnlinkFails(r) \/ RequestLost(r)
  PROVE  DlqQuiet
  <1> USE DEF TypeInv, TypeOK, ServiceTypeOK
  <1>1. ASSUME UNCHANGED <<job, failed_jobs>>, NEW state,
               state.op \notin {"replay_load", "replay_write", "replay_new"},
               req' = [req EXCEPT ![r] = state]
        PROVE  DlqQuiet
    BY <1>1 DEF DlqQuiet, Exists
  <1>2. IdleRequest.op = "idle"
    BY DEF IdleRequest
  <1>3. ASSUME NEW j \in Jobs, create(r, j) PROVE DlqQuiet
    <2>1. \A k \in Jobs : job'[k].status = IF k = j THEN "pending" ELSE job[k].status
      BY <1>3 DEF create, InsertJob, NoRow
    <2>2. \A s \in Requests : req'[s] = req[s] \/ req'[s].op = "best_effort"
      BY <1>3 DEF create, IdleRequest
    <2> QED BY <1>3, <2>1, <2>2 DEF create, DlqQuiet, Exists
  <1>4. ASSUME NEW j \in Jobs, RetryRead(r, j) PROVE DlqQuiet
    BY <1>1, <1>4 DEF RetryRead, IdleRequest
  <1>5. ASSUME NEW j \in Jobs, NEW op \in {"delete", "web_delete"}, DeleteRead(r, j, op)
        PROVE  DlqQuiet
    BY <1>1, <1>5 DEF DeleteRead, IdleRequest
  <1>6. CASE SelectOutboxId(r)
    BY <1>6 DEF SelectOutboxId, DlqQuiet, Exists, RequestState
  <1>7. CASE enqueue_job(r)
    BY <1>7 DEF enqueue_job, DlqQuiet, Exists, RequestState
  <1>8. CASE CloseOutboxRow(r) \/ EnqueueFails(r) \/ RequestLost(r)
    BY <1>1, <1>2, <1>8 DEF CloseOutboxRow, EnqueueFails, RequestLost, Finish
  <1>9. CASE DeleteUnlink(r)
    BY <1>9 DEF DeleteUnlink, DlqQuiet, Exists, RequestState
  <1>10. CASE DeleteUnlinkFails(r)
    <2>1. CASE req[r].op = "delete"
      BY <1>1, <1>2, <1>10, <2>1 DEF DeleteUnlinkFails, Finish
    <2>2. CASE req[r].op # "delete"
      <3>1. req' = [req EXCEPT ![r].op = "delete_row"] /\ UNCHANGED <<job, failed_jobs>>
        BY <1>10, <2>2 DEF DeleteUnlinkFails
      <3> QED BY <3>1 DEF DlqQuiet, Exists, RequestState
    <2> QED BY <2>1, <2>2
  <1> QED BY <1>3, <1>4, <1>5, <1>6, <1>7, <1>8, <1>9, <1>10, RetryWriteQuiet

LEMMA WorkerQuiet ==
  ASSUME TypeInv, NEW w \in Workers, WorkerStep(w) \/ WorkerFault(w), ~move_to_dlq(w)
  PROVE  DlqQuiet
  <1> USE DEF TypeInv, TypeOK, ServiceTypeOK
  <1>1. UNCHANGED <<failed_jobs, req>>
    BY DEF WorkerStep, WorkerFault, ExtractionSucceeds, ExtractionFails, Complete, CompletionFails,
           ScheduleRetry, PublishRetry, Cancelled, WorkerLost, TaskAborts, SoftTimeLimit, serviceVars
  <1>2. ASSUME UNCHANGED job PROVE DlqQuiet
    BY <1>1, <1>2 DEF DlqQuiet, Exists
  <1>3. ASSUME NEW j \in Jobs, NEW row, job' = [job EXCEPT ![j] = row],
               row.status \in {job[j].status, "pending", "completed"}
        PROVE  DlqQuiet
    BY <1>1, <1>3 DEF DlqQuiet, Exists
  <1>4. CASE Complete(w)
    <2>1. wk[w].job \in Jobs
      BY <1>4 DEF Complete, WorkerTargets
    <2>2. job' = [job EXCEPT ![wk[w].job] =
                    WhereProcessing(job[wk[w].job], CompletedRow(job[wk[w].job], wk[w].file))]
      BY <1>4 DEF Complete
    <2>3. WhereProcessing(job[wk[w].job], CompletedRow(job[wk[w].job], wk[w].file)).status
            \in {job[wk[w].job].status, "pending", "completed"}
      BY <2>1, WrittenStatus
    <2> QED BY <1>3, <2>1, <2>2, <2>3
  <1>5. CASE ScheduleRetry(w)
    <2>1. wk[w].job \in Jobs
      BY <1>5 DEF ScheduleRetry, WorkerTargets
    <2>2. job' = [job EXCEPT ![wk[w].job] =
                    WhereProcessing(job[wk[w].job], RetryRow(job[wk[w].job], wk[w].retry_count))]
      BY <1>5 DEF ScheduleRetry
    <2>3. WhereProcessing(job[wk[w].job], RetryRow(job[wk[w].job], wk[w].retry_count)).status
            \in {job[wk[w].job].status, "pending", "completed"}
      BY <2>1 DEF WhereProcessing, RetryRow, Row
    <2> QED BY <1>3, <2>1, <2>2, <2>3
  <1>6. CASE Cancelled(w)
    <2>1. wk[w].job \in Jobs
      BY <1>6 DEF Cancelled, Working, WorkerTargets
    <2>2. job' = [job EXCEPT ![wk[w].job] =
                    WhereProcessing(job[wk[w].job], RequeuedRow(job[wk[w].job]))]
      BY <1>6 DEF Cancelled
    <2>3. WhereProcessing(job[wk[w].job], RequeuedRow(job[wk[w].job])).status
            \in {job[wk[w].job].status, "pending", "completed"}
      BY <2>1 DEF WhereProcessing, RequeuedRow, Row
    <2> QED BY <1>3, <2>1, <2>2, <2>3
  <1>7. ASSUME NEW cap \in CategoryCaps, CompletionFails(w, cap) PROVE DlqQuiet
    <2>1. wk[w].job \in Jobs
      BY <1>7 DEF CompletionFails, WorkerTargets
    <2>2. CASE job' = [job EXCEPT ![wk[w].job] =
                         WhereProcessing(job[wk[w].job], CompletedRow(job[wk[w].job], wk[w].file))]
      <3>1. WhereProcessing(job[wk[w].job], CompletedRow(job[wk[w].job], wk[w].file)).status
              \in {job[wk[w].job].status, "pending", "completed"}
        BY <2>1, WrittenStatus
      <3> QED BY <1>3, <2>1, <2>2, <3>1
    <2>3. CASE UNCHANGED job
      BY <1>2, <2>3
    <2> QED BY <1>7, <2>2, <2>3 DEF CompletionFails
  <1>8. ASSUME ~Complete(w), ~ScheduleRetry(w), ~Cancelled(w),
               \A cap \in CategoryCaps : ~CompletionFails(w, cap)
        PROVE  DlqQuiet
    BY <1>2, <1>8 DEF WorkerStep, WorkerFault, ExtractionSucceeds, ExtractionFails, PublishRetry,
                      WorkerLost, TaskAborts, SoftTimeLimit, serviceVars
  <1> QED BY <1>4, <1>5, <1>6, <1>7, <1>8

LEMMA BrokerQuiet ==
  ASSUME TypeInv, UNCHANGED failed_jobs,
         \/ \E j \in Jobs : Deliver(j) \/ Clock(j) \/ CleanupUnlink(j)
         \/ BeatStep /\ ~CleanupCommit
         \/ BeatTaskLost
  PROVE  DlqQuiet
  <1> USE DEF TypeInv, TypeOK, ServiceTypeOK
  <1>1. UNCHANGED req
    BY DEF Deliver, Claim, Skip, Clock, RowAges, RetryFallsDue, EtaElapses, CleanupUnlink, BeatStep,
           requeue_stuck_jobs, enqueue_pending, SweepPublish, EnqueuePublish, BeatTaskLost,
           serviceVars
  <1>2. ASSUME UNCHANGED job PROVE DlqQuiet
    BY <1>1, <1>2 DEF DlqQuiet, Exists
  <1>3. ASSUME NEW w \in Workers, NEW j \in Jobs, Claim(w, j) PROVE DlqQuiet
    <2>1. job' = [job EXCEPT ![j] = ClaimedRow(job[j])]
      BY <1>3 DEF Claim
    <2>2. ClaimedRow(job[j]).status = "processing"
      BY WrittenStatus
    <2> QED BY <1>1, <2>1, <2>2 DEF DlqQuiet, Exists
  <1>4. ASSUME NEW j \in Jobs, RowAges(j) \/ RetryFallsDue(j) PROVE DlqQuiet
    <2>1. \A k \in Jobs : job'[k].status = job[k].status
      BY <1>4 DEF RowAges, RetryFallsDue, Row
    <2> QED BY <1>1, <2>1 DEF DlqQuiet, Exists
  <1>5. CASE requeue_stuck_jobs
    <2>1. \A k \in Jobs : RequeuedRow(job[k]).status = "pending"
      BY WrittenStatus
    <2>2. \A k \in Jobs : job'[k].status \in {job[k].status, "pending"}
      BY <1>5, <2>1 DEF requeue_stuck_jobs
    <2> QED BY <1>1, <2>2 DEF DlqQuiet, Exists
  <1> QED BY <1>2, <1>3, <1>4, <1>5
          DEF Deliver, Skip, Clock, EtaElapses, CleanupUnlink, BeatStep, enqueue_pending,
              SweepPublish, EnqueuePublish, BeatTaskLost, serviceVars

LEMMA ReplayFindStep ==
  ASSUME DlqInv, TypeInv', NEW r \in Requests, NEW f \in FailedIds, ReplayFind(r, f)
  PROVE  DlqInv'
  <1> USE DEF DlqInv, TypeInv, TypeOK, ServiceTypeOK
  <1>1. /\ req'[r].op = "replay_load" /\ req'[r].failed = f
        /\ req'[r].job = failed_jobs[f].original_job_id
        /\ \A s \in Requests \ {r} : req'[s] = req[s]
    BY DEF ReplayFind, IdleRequest
  <1>2. UNCHANGED <<job, failed_jobs>>
    BY DEF ReplayFind
  <1>3. OriginalsExist'
    BY <1>2 DEF OriginalsExist, Exists
  <1>4. ReplaysAgree'
    BY <1>1, <1>2 DEF ReplaysAgree
  <1>5. LastingDlqRow'
    BY <1>1, <1>2 DEF LastingDlqRow, Dooms
  <1> QED BY <1>3, <1>4, <1>5

\* A replay dooms its dead letter only while the original is pending.
LEMMA ReplayLoadStep ==
  ASSUME DlqInv, TypeInv', NEW r \in Requests, ReplayLoad(r)
  PROVE  DlqInv'
  <1> USE DEF DlqInv, TypeInv, TypeOK, ServiceTypeOK
  <1>1. /\ req[r].op = "replay_load" /\ req[r].failed \in FailedIds
        /\ failed_jobs[req[r].failed].original_job_id \in {req[r].job, None}
        /\ req[r].job \in Jobs \cup {None}
    BY DEF ReplayLoad, RequestTargets, ReplaysAgree, RequestState
  <1>2. UNCHANGED <<job, failed_jobs>> /\ \A s \in Requests \ {r} : req'[s] = req[s]
    BY DEF ReplayLoad
  <1>3. OriginalsExist'
    BY <1>2 DEF OriginalsExist, Exists
  <1>4. CASE req[r].job # None /\ Exists(req[r].job)
    <2>1. req' = [req EXCEPT ![r].op = "replay_write", ![r].snap = job[req[r].job]]
      BY <1>4 DEF ReplayLoad
    <2>2. /\ req'[r].op = "replay_write" /\ req'[r].failed = req[r].failed
          /\ req'[r].job = req[r].job /\ req'[r].snap = job[req[r].job]
      BY <2>1 DEF RequestState
    <2>3. ReplaysAgree'
      BY <1>1, <1>2, <2>2 DEF ReplaysAgree
    <2>4. \A j \in Jobs, f \in FailedIds :
            /\ job[j].status = "failed" /\ failed_jobs[f].original_job_id = j
            /\ \A s \in Requests : ~Dooms(s, f)
            => \A s \in Requests : ~Dooms(s, f)'
      <3> SUFFICES ASSUME NEW j \in Jobs, NEW f \in FailedIds, job[j].status = "failed",
                          failed_jobs[f].original_job_id = j
                   PROVE  ~Dooms(r, f)'
        BY <1>2 DEF Dooms
      <3>1. CASE f = req[r].failed
        <4>1. j = req[r].job
          BY <1>1, <3>1, DownloadServiceAssumption
        <4> QED BY <2>2, <4>1 DEF Dooms
      <3>2. CASE f # req[r].failed
        BY <2>2, <3>2 DEF Dooms
      <3> QED BY <3>1, <3>2
    <2>5. LastingDlqRow'
      BY <1>2, <2>4 DEF LastingDlqRow
    <2> QED BY <1>3, <2>3, <2>5
  <1>5. CASE ~(req[r].job # None /\ Exists(req[r].job))
    <2>1. req' = [req EXCEPT ![r].op = "replay_new", ![r].job = None]
      BY <1>5 DEF ReplayLoad
    <2>2. req'[r].op = "replay_new" /\ req'[r].failed = req[r].failed
      BY <2>1 DEF RequestState
    <2>3. failed_jobs[req[r].failed].original_job_id = None
      BY <1>1, <1>5 DEF OriginalsExist
    <2>4. ReplaysAgree'
      BY <1>2, <2>2, <2>3 DEF ReplaysAgree
    <2>5. \A s \in Requests, f \in FailedIds : ~Dooms(s, f) => ~Dooms(s, f)'
      BY <1>2, <2>2 DEF Dooms
    <2>6. LastingDlqRow'
      BY <1>2, <2>5 DEF LastingDlqRow
    <2> QED BY <1>3, <2>4, <2>6
  <1> QED BY <1>4, <1>5

\* A dead letter that the step removes is not the one a failed job lasts by.
LEMMA RemovalStep ==
  ASSUME DlqInv, TypeInv', NEW f0 \in FailedIds,
         failed_jobs' = [f \in FailedIds |-> IF f = f0 THEN NoFailedRow ELSE failed_jobs[f]],
         \A j \in Jobs : job'[j].status \in {job[j].status, "pending"},
         \A s \in Requests : req'[s] = req[s] \/ req'[s].op = "idle",
         \A j \in Jobs : /\ job'[j].status = "failed"
                         /\ failed_jobs[f0].original_job_id = j
                         => \E s \in Requests : Dooms(s, f0)
  PROVE  DlqInv'
  <1> USE DEF DlqInv, TypeInv, TypeOK, ServiceTypeOK
  <1>1. OriginalsExist'
    <2> SUFFICES ASSUME NEW f \in FailedIds, failed_jobs'[f].original_job_id # None
                 PROVE  job'[failed_jobs'[f].original_job_id].status \notin {"absent", "deleted"}
      BY DEF OriginalsExist, Exists
    <2>1. /\ failed_jobs'[f].original_job_id = failed_jobs[f].original_job_id
          /\ failed_jobs[f].original_job_id \in Jobs
          /\ Exists(failed_jobs[f].original_job_id)
      BY DEF NoFailedRow, FailedRow, OriginalsExist
    <2> QED BY <2>1 DEF Exists
  <1>2. ReplaysAgree'
    <2>1. \A f \in FailedIds :
            failed_jobs'[f].original_job_id \in {failed_jobs[f].original_job_id, None}
      BY DEF NoFailedRow
    <2> SUFFICES ASSUME NEW r \in Requests, req'[r] = req[r],
                        req[r].op \in {"replay_load", "replay_write", "replay_new"}
                 PROVE  /\ req[r].op \in {"replay_load", "replay_write"} =>
                             failed_jobs'[req[r].failed].original_job_id \in {req[r].job, None}
                        /\ req[r].op = "replay_new" =>
                             failed_jobs'[req[r].failed].original_job_id = None
      BY DEF ReplaysAgree
    <2>2. req[r].failed \in FailedIds
      BY DEF RequestTargets
    <2> QED BY <2>1, <2>2 DEF ReplaysAgree
  <1>3. LastingDlqRow'
    <2> SUFFICES ASSUME NEW k \in Jobs, job'[k].status = "failed"
                 PROVE  \E f \in FailedIds :
                          /\ failed_jobs'[f].exists /\ failed_jobs'[f].original_job_id = k
                          /\ \A s \in Requests : ~Dooms(s, f)'
      BY DEF LastingDlqRow
    <2>1. job[k].status = "failed"
      OBVIOUS
    <2>2. PICK f \in FailedIds :
             /\ failed_jobs[f].exists /\ failed_jobs[f].original_job_id = k
             /\ \A s \in Requests : ~Dooms(s, f)
      BY <2>1 DEF LastingDlqRow
    <2>3. f # f0
      BY <2>2
    <2>4. failed_jobs'[f] = failed_jobs[f]
      BY <2>3
    <2>5. \A s \in Requests : ~Dooms(s, f)'
      BY <2>2 DEF Dooms
    <2> QED BY <2>2, <2>4, <2>5
  <1> QED BY <1>1, <1>2, <1>3

LEMMA ReplayWriteStep ==
  ASSUME DlqInv, TypeInv', NEW r \in Requests, ReplayWrite(r)
  PROVE  DlqInv'
  <1> USE DEF DlqInv, TypeInv, TypeOK, ServiceTypeOK
  <1>1. /\ req[r].op = "replay_write" /\ req[r].job \in Jobs /\ req[r].failed \in FailedIds
        /\ req[r].snap \in Row
        /\ failed_jobs[req[r].failed].original_job_id \in {req[r].job, None}
    BY DEF ReplayWrite, RequestTargets, ReplaysAgree, RequestState
  <1>2. \A s \in Requests : req'[s] = req[s] \/ req'[s].op = "idle"
    BY DEF ReplayWrite, Finish, IdleRequest
  <1>3. CASE Exists(req[r].job)
    <2>1. job' = [job EXCEPT ![req[r].job] =
                    Flush(job[req[r].job], req[r].snap, reset_job_for_replay(req[r].snap))]
      BY <1>3 DEF ReplayWrite, ResetAndCommit
    <2>2. failed_jobs' = [f \in FailedIds |-> IF f = req[r].failed THEN NoFailedRow
                                             ELSE failed_jobs[f]]
      BY <1>3 DEF ReplayWrite, ResetAndCommit
    <2>3. /\ job'[req[r].job].status \in {job[req[r].job].status, "pending"}
          /\ req[r].snap.status # "pending" => job'[req[r].job].status = "pending"
      BY <1>1, <2>1, FlushedStatus
    <2>4. \A j \in Jobs : job'[j].status \in {job[j].status, "pending"}
      BY <1>1, <2>1, <2>3
    <2>5. ASSUME NEW j \in Jobs, job'[j].status = "failed",
                 failed_jobs[req[r].failed].original_job_id = j
          PROVE  Dooms(r, req[r].failed)
      <3>1. j = req[r].job
        BY <1>1, <2>5, DownloadServiceAssumption
      <3> QED BY <1>1, <2>3, <2>5, <3>1 DEF Dooms
    <2> QED BY <1>1, <1>2, <2>2, <2>4, <2>5, RemovalStep
  <1>4. CASE ~Exists(req[r].job)
    <2>1. DlqQuiet
      BY <1>2, <1>4 DEF ReplayWrite, ResetAndCommit, DlqQuiet, Exists
    <2> QED BY <2>1, QuietStep
  <1> QED BY <1>3, <1>4

LEMMA ReplayNewStep ==
  ASSUME DlqInv, TypeInv', NEW r \in Requests, NEW j \in Jobs, ReplayNew(r, j)
  PROVE  DlqInv'
  <1> USE DEF DlqInv, TypeInv, TypeOK, ServiceTypeOK
  <1>1. /\ req[r].failed \in FailedIds /\ failed_jobs[req[r].failed].original_job_id = None
    BY DEF ReplayNew, RequestTargets, ReplaysAgree
  <1>2. \A s \in Requests : req'[s] = req[s] \/ req'[s].op = "idle"
    BY DEF ReplayNew, Finish, IdleRequest
  <1>3. \A k \in Jobs : job'[k].status \in {job[k].status, "pending"}
    BY DEF ReplayNew, InsertJob, NoRow
  <1>4. failed_jobs' = [f \in FailedIds |-> IF f = req[r].failed THEN NoFailedRow
                                           ELSE failed_jobs[f]]
    BY <1>1 DEF ReplayNew
  <1>5. \A k \in Jobs : failed_jobs[req[r].failed].original_job_id # k
    BY <1>1, DownloadServiceAssumption
  <1> QED BY <1>1, <1>2, <1>3, <1>4, <1>5, RemovalStep

\* Status and dead letter are written together, under a fresh id.
LEMMA MoveToDlqStep ==
  ASSUME DlqInv, TypeInv', NEW w \in Workers, move_to_dlq(w)
  PROVE  DlqInv'
  <1> USE DEF DlqInv, TypeInv, TypeOK, ServiceTypeOK
  <1>1. wk[w].job \in Jobs /\ UNCHANGED req
    BY DEF move_to_dlq, WorkerTargets
  <1>2. CASE ~Exists(wk[w].job)
    <2>1. DlqQuiet
      BY <1>1, <1>2 DEF move_to_dlq, DlqQuiet, Exists
    <2> QED BY <2>1, QuietStep
  <1>3. CASE Exists(wk[w].job)
    <2> DEFINE j == wk[w].job
    <2>1. PICK f0 \in FailedIds :
             /\ ~failed_jobs[f0].exists
             /\ \A r \in Requests : req[r].failed # f0
             /\ failed_jobs' = [failed_jobs EXCEPT ![f0] =
                                  [exists |-> TRUE, original_job_id |-> j]]
      BY <1>3 DEF move_to_dlq, InsertFailedJob
    <2>2. job' = [job EXCEPT ![j] = WhereProcessing(job[j], FailedRowOf(job[j]))]
      BY <1>3 DEF move_to_dlq
    <2>3. WhereProcessing(job[j], FailedRowOf(job[j])).status \in {job[j].status, "failed"}
      BY <1>1 DEF WhereProcessing, FailedRowOf, Row
    <2>4. /\ job'[j].status \in {job[j].status, "failed"}
          /\ \A k \in Jobs \ {j} : job'[k] = job[k]
      BY <1>1, <2>2, <2>3
    <2>5. /\ failed_jobs'[f0].exists /\ failed_jobs'[f0].original_job_id = j
          /\ \A f \in FailedIds \ {f0} : failed_jobs'[f] = failed_jobs[f]
      BY <2>1
    <2> HIDE DEF j
    <2>6. OriginalsExist'
      <3> SUFFICES ASSUME NEW f \in FailedIds, failed_jobs'[f].original_job_id # None
                   PROVE  job'[failed_jobs'[f].original_job_id].status
                            \notin {"absent", "deleted"}
        BY DEF OriginalsExist, Exists
      <3>1. /\ failed_jobs'[f].original_job_id \in Jobs
            /\ Exists(failed_jobs'[f].original_job_id)
        BY <1>1, <1>3, <2>5 DEF OriginalsExist, FailedRow, j
      <3> QED BY <2>4, <3>1 DEF Exists
    <2>7. ReplaysAgree'
      BY <1>1, <2>1, <2>5 DEF ReplaysAgree, RequestTargets
    <2>8. LastingDlqRow'
      <3> SUFFICES ASSUME NEW k \in Jobs, job'[k].status = "failed"
                   PROVE  \E f \in FailedIds :
                            /\ failed_jobs'[f].exists /\ failed_jobs'[f].original_job_id = k
                            /\ \A r \in Requests : ~Dooms(r, f)'
        BY DEF LastingDlqRow
      <3>1. CASE k = j
        <4>1. \A r \in Requests : ~Dooms(r, f0)'
          BY <1>1, <2>1 DEF Dooms
        <4> QED BY <2>5, <3>1, <4>1
      <3>2. CASE k # j
        <4>1. PICK f \in FailedIds :
                 /\ failed_jobs[f].exists /\ failed_jobs[f].original_job_id = k
                 /\ \A r \in Requests : ~Dooms(r, f)
          BY <2>4, <3>2 DEF LastingDlqRow
        <4>2. failed_jobs'[f] = failed_jobs[f]
          BY <2>1, <2>5, <4>1
        <4>3. \A r \in Requests : ~Dooms(r, f)'
          BY <1>1, <4>1 DEF Dooms
        <4> QED BY <4>1, <4>2, <4>3
      <3> QED BY <3>1, <3>2
    <2> QED BY <2>6, <2>7, <2>8
  <1> QED BY <1>2, <1>3

LEMMA DlqInit == Init => DlqInv
  <1> SUFFICES ASSUME Init PROVE DlqInv
    OBVIOUS
  <1>1. TypeInv
    BY TypeInit
  <1>2. OriginalsExist
    BY DEF Init, ServiceInit, OriginalsExist, NoFailedRow
  <1>3. ReplaysAgree
    BY DEF Init, ServiceInit, ReplaysAgree, IdleRequest
  <1>4. LastingDlqRow
    BY DEF Init, ServiceInit, LastingDlqRow, NoRow
  <1> QED BY <1>1, <1>2, <1>3, <1>4 DEF DlqInv

LEMMA DlqStep ==
  ASSUME "cleanup_dlq" \notin BeatTasks
  PROVE  DlqInv /\ [Next]_vars => DlqInv'
  <1> SUFFICES ASSUME DlqInv, [Next]_vars PROVE DlqInv'
    OBVIOUS
  <1>1. TypeInv'
    BY TypeStep DEF DlqInv
  <1>2. TypeInv
    BY DEF DlqInv
  <1>3. ASSUME DlqQuiet PROVE DlqInv'
    BY <1>1, <1>3, QuietStep
  <1>4. ASSUME NEW r \in Requests,
               \/ \E j \in Jobs : create(r, j) \/ RetryRead(r, j)
                    \/ DeleteRead(r, j, "delete") \/ DeleteRead(r, j, "web_delete")
               \/ \E f \in FailedIds : ReplayFind(r, f)
               \/ RequestStep(r)
               \/ EnqueueFails(r) \/ DeleteUnlinkFails(r) \/ RequestLost(r)
        PROVE  DlqInv'
    <2>1. CASE \E f \in FailedIds : ReplayFind(r, f)
      BY <1>1, <2>1, ReplayFindStep
    <2>2. CASE ReplayLoad(r)
      BY <1>1, <2>2, ReplayLoadStep
    <2>3. CASE ReplayWrite(r)
      BY <1>1, <2>3, ReplayWriteStep
    <2>4. CASE \E j \in Jobs : ReplayNew(r, j)
      BY <1>1, <2>4, ReplayNewStep
    <2>5. CASE DeleteCommit(r)
      <3>1. \A s \in Requests : req'[s] = req[s] \/ req'[s].op = "idle"
        BY <2>5 DEF DeleteCommit, Finish, IdleRequest, TypeInv, TypeOK, ServiceTypeOK
      <3>2. CASE Exists(req[r].job)
        <4>1. req[r].job \in Jobs /\ DeleteRow(req[r].job)
          BY <1>2, <2>5, <3>2 DEF DeleteCommit, TypeInv, RequestTargets
        <4> QED BY <1>1, <3>1, <4>1, DeleteStep
      <3>3. CASE ~Exists(req[r].job)
        BY <1>3, <2>5, <3>1, <3>3 DEF DeleteCommit, DlqQuiet, Exists
      <3> QED BY <3>2, <3>3
    <2> QED BY <1>2, <1>3, <1>4, <2>1, <2>2, <2>3, <2>4, <2>5, ServiceQuiet DEF RequestStep
  <1>5. ASSUME NEW w \in Workers, WorkerStep(w) \/ WorkerFault(w) PROVE DlqInv'
    <2>1. CASE move_to_dlq(w)
      BY <1>1, <2>1, MoveToDlqStep
    <2>2. CASE ~move_to_dlq(w)
      BY <1>2, <1>3, <1>5, <2>2, WorkerQuiet
    <2> QED BY <2>1, <2>2
  <1>6. CASE CleanupCommit
    <2>1. UNCHANGED req
      BY <1>6 DEF CleanupCommit
    <2>2. CASE Exists(cleaner)
      <3>1. cleaner \in Jobs /\ DeleteRow(cleaner)
        BY <1>2, <1>6, <2>2 DEF CleanupCommit, TypeInv, TypeOK
      <3> QED BY <1>1, <2>1, <3>1, DeleteStep
    <2>3. CASE ~Exists(cleaner)
      BY <1>3, <1>6, <2>3 DEF CleanupCommit, DlqQuiet, Exists
    <2> QED BY <2>2, <2>3
  <1>7. CASE \/ \E j \in Jobs : Deliver(j) \/ Clock(j) \/ CleanupUnlink(j)
             \/ BeatStep /\ ~CleanupCommit
             \/ BeatTaskLost
    <2>1. UNCHANGED failed_jobs
      BY <1>7 DEF Deliver, Claim, Skip, Clock, RowAges, RetryFallsDue, EtaElapses, CleanupUnlink,
                  BeatStep, requeue_stuck_jobs, enqueue_pending, SweepPublish, EnqueuePublish,
                  BeatTaskLost, serviceVars
    <2> QED BY <1>2, <1>3, <1>7, <2>1, BrokerQuiet
  <1>8. \A f \in FailedIds : ~cleanup_dlq(f)
    BY DEF cleanup_dlq
  <1>9. CASE UNCHANGED vars
    BY <1>3, <1>9 DEF vars, serviceVars, DlqQuiet, Exists
  <1> QED BY <1>4, <1>5, <1>6, <1>7, <1>8, <1>9 DEF Next, ServiceNext

\* Until cleanup_dlq purges it, the dead-letter row of a failed job is there,
\* however many requests retry, replay and delete at the same time and whatever
\* faults happen: _move_to_dlq writes status and row in one transaction, and a
\* replay that removes a row it loaded earlier either takes the job out of failed
\* in the same transaction or leaves a newer row behind.
THEOREM FailedIsDeadLettered ==
  ASSUME "cleanup_dlq" \notin BeatTasks
  PROVE  Spec => []FailedHasDlqRow
  <1>1. DlqInv => FailedHasDlqRow
    BY DEF DlqInv, LastingDlqRow, FailedHasDlqRow
  <1>2. DlqInv /\ [Next]_vars => DlqInv'
    BY DlqStep
  <1> QED BY <1>1, <1>2, DlqInit, PTL DEF Spec
============================================================================
