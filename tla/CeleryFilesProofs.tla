-------------------------- MODULE CeleryFilesProofs --------------------------
(***************************************************************************)
(* The media files of CeleryPipeline: a completed job has its file, and a  *)
(* fault costs at most one file.                                           *)
(***************************************************************************)
EXTENDS CeleryLifecycleProofs, FiniteSetTheorems

----------------------------------------------------------------------------
(* A completed job has its file                                            *)

DeleteOps == {"delete", "web_delete", "delete_row"}

\* Who has removed the file of a job goes on to remove its row: no process dies
\* between the two, be it a delete request or the expiry task.
DeletionsFinish ==
  /\ "request" \notin Faults \/ UserOps \cap {"delete", "web_delete"} = {}
  /\ "abort" \notin Faults \/ "cleanup_expired_jobs" \notin BeatTasks

\* A completed job has its file, or is about to lose its row as well.
Served ==
  \A j \in Jobs : job[j].status = "completed" =>
    \/ job[j].file_path \in files
    \/ cleaner = j
    \/ \E r \in Requests : req[r].op = "delete_row" /\ req[r].job = j

\* The file of an extraction stays on disk until the execution has stored it.
InFlight ==
  \A w \in Workers : /\ wk[w].file # None => wk[w].file \in files
                     /\ wk[w].phase = "extracted" => wk[w].file # None

\* No two rows and no two executions name the same file.
PathsDiffer ==
  /\ \A j, k \in Jobs : j # k /\ job[j].file_path # None => job[j].file_path # job[k].file_path
  /\ \A v, w \in Workers : v # w /\ wk[v].file # None => wk[v].file # wk[w].file
  /\ \A w \in Workers : \A j \in Jobs : wk[w].file # None => wk[w].file # job[j].file_path

\* A path that a request has read belongs to the job it has read, or to nobody.
SnapsAreOld ==
  \A r \in Requests :
    /\ req[r].op = "replay_load" => req[r].snap.file_path = None
    /\ req[r].snap.file_path # None =>
         /\ \A w \in Workers : wk[w].file # req[r].snap.file_path
         /\ \A k \in Jobs : job[k].file_path = req[r].snap.file_path => k = req[r].job

\* Nobody deletes what was not asked for.
DeletersAsked ==
  /\ \A r \in Requests : req[r].op \in DeleteOps => UserOps \cap {"delete", "web_delete"} # {}
  /\ cleaner # None => "cleanup_expired_jobs" \in BeatTasks

FilesInv == TypeInv /\ Served /\ InFlight /\ PathsDiffer /\ SnapsAreOld /\ DeletersAsked

\* A step that creates and removes no file, stores none in a row and reads none.
RowsForget ==
  \A j \in Jobs : /\ job'[j].file_path \in {job[j].file_path, None}
                  /\ job'[j].status = "completed" =>
                       job[j].status = "completed" /\ job'[j].file_path = job[j].file_path

WorkersForget ==
  \A w \in Workers : /\ wk'[w].file \in {wk[w].file, None}
                     /\ wk'[w].phase = "extracted" =>
                          wk[w].phase = "extracted" /\ wk'[w].file = wk[w].file

\* A request that has removed a file ends only with the row.
RequestGoesOn(r) ==
  /\ req[r].op = "delete_row" => req'[r] = req[r] \/ job'[req[r].job].status # "completed"
  /\ \/ req'[r].snap.file_path = None
     \/ req'[r].snap.file_path = req[r].snap.file_path /\ req'[r].job = req[r].job
  /\ req'[r].op = "replay_load" => req'[r].snap.file_path = None
  /\ req'[r].op \in DeleteOps => UserOps \cap {"delete", "web_delete"} # {}

CleanerGoesOn ==
  \/ cleaner' = cleaner
  \/ cleaner' = None /\ (cleaner # None => job'[cleaner].status # "completed")

FilesQuiet ==
  /\ UNCHANGED files
  /\ RowsForget /\ WorkersForget /\ CleanerGoesOn
  /\ \A r \in Requests : RequestGoesOn(r)

LEMMA ForgettingKeepsPaths ==
  ASSUME FilesInv, RowsForget, WorkersForget
  PROVE  PathsDiffer'
  <1>1. \A j, k \in Jobs : j # k /\ job'[j].file_path # None
                           => job'[j].file_path # job'[k].file_path
    BY DEF FilesInv, PathsDiffer, RowsForget
  <1>2. \A v, w \in Workers : v # w /\ wk'[v].file # None => wk'[v].file # wk'[w].file
    BY DEF FilesInv, PathsDiffer, WorkersForget
  <1>3. \A w \in Workers : \A j \in Jobs : wk'[w].file # None => wk'[w].file # job'[j].file_path
    BY DEF FilesInv, PathsDiffer, WorkersForget, RowsForget
  <1> QED BY <1>1, <1>2, <1>3 DEF PathsDiffer

LEMMA GoingOnKeepsSnaps ==
  ASSUME FilesInv, RowsForget, WorkersForget, NEW r \in Requests, RequestGoesOn(r)
  PROVE  /\ req'[r].op = "replay_load" => req'[r].snap.file_path = None
         /\ req'[r].snap.file_path # None =>
              /\ \A w \in Workers : wk'[w].file # req'[r].snap.file_path
              /\ \A k \in Jobs : job'[k].file_path = req'[r].snap.file_path => k = req'[r].job
  BY DEF FilesInv, SnapsAreOld, RowsForget, WorkersForget, RequestGoesOn

LEMMA FilesQuietStep ==
  ASSUME FilesInv, TypeInv', FilesQuiet
  PROVE  FilesInv'
  <1>1. Served'
    <2> SUFFICES ASSUME NEW j \in Jobs, job'[j].status = "completed", job'[j].file_path \notin files'
                 PROVE  \/ cleaner' = j
                        \/ \E r \in Requests : req'[r].op = "delete_row" /\ req'[r].job = j
      BY DEF Served
    <2>1. job[j].status = "completed" /\ job[j].file_path \notin files
      BY DEF FilesQuiet, RowsForget
    <2>2. CASE cleaner = j
      BY <2>2, DownloadServiceAssumption DEF FilesQuiet, CleanerGoesOn
    <2>3. CASE \E r \in Requests : req[r].op = "delete_row" /\ req[r].job = j
      BY <2>3 DEF FilesQuiet, RequestGoesOn
    <2> QED BY <2>1, <2>2, <2>3 DEF FilesInv, Served
  <1>2. InFlight'
    BY DEF FilesInv, InFlight, FilesQuiet, WorkersForget
  <1>3. PathsDiffer'
    BY ForgettingKeepsPaths DEF FilesQuiet
  <1>4. SnapsAreOld'
    BY GoingOnKeepsSnaps DEF FilesQuiet, SnapsAreOld
  <1>5. DeletersAsked'
    BY DEF FilesInv, DeletersAsked, FilesQuiet, RequestGoesOn, CleanerGoesOn
  <1> QED BY <1>1, <1>2, <1>3, <1>4, <1>5 DEF FilesInv

\* A request reads the row of a job.
LEMMA FilesSnapStep ==
  ASSUME FilesInv, TypeInv', UNCHANGED <<job, files, wk, cleaner>>, NEW r \in Requests,
         \A s \in Requests \ {r} : req'[s] = req[s],
         req[r].op # "delete_row", req'[r].op # "replay_load",
         req'[r].op \in DeleteOps => UserOps \cap {"delete", "web_delete"} # {},
         NEW j \in Jobs, req'[r].job = j, req'[r].snap = job[j]
  PROVE  FilesInv'
  <1>1. Served'
    BY DEF FilesInv, Served
  <1>2. InFlight' /\ PathsDiffer'
    BY DEF FilesInv, InFlight, PathsDiffer
  <1>3. SnapsAreOld'
    <2> SUFFICES ASSUME NEW s \in Requests
                 PROVE  /\ req'[s].op = "replay_load" => req'[s].snap.file_path = None
                        /\ req'[s].snap.file_path # None =>
                             /\ \A w \in Workers : wk[w].file # req'[s].snap.file_path
                             /\ \A k \in Jobs : job[k].file_path = req'[s].snap.file_path
                                                => k = req'[s].job
      BY DEF SnapsAreOld
    <2>1. CASE s = r
      <3>1. \A w \in Workers : job[j].file_path # None => wk[w].file # job[j].file_path
        BY DEF FilesInv, PathsDiffer
      <3>2. \A k \in Jobs : job[j].file_path # None /\ job[k].file_path = job[j].file_path => k = j
        BY DEF FilesInv, PathsDiffer
      <3> QED BY <2>1, <3>1, <3>2
    <2>2. CASE s # r
      BY <2>2 DEF FilesInv, SnapsAreOld
    <2> QED BY <2>1, <2>2
  <1>4. DeletersAsked'
    BY DEF FilesInv, DeletersAsked
  <1> QED BY <1>1, <1>2, <1>3, <1>4 DEF FilesInv

\* The execution w stores its file in the row of job j.
LEMMA FilesStoreStep ==
  ASSUME FilesInv, TypeInv', UNCHANGED <<files, req, cleaner>>, NEW w \in Workers, NEW j \in Jobs,
         wk[w].phase = "extracted", wk'[w].file = None, wk'[w].phase # "extracted",
         \A v \in Workers \ {w} : wk'[v] = wk[v],
         job'[j].file_path = wk[w].file, \A k \in Jobs \ {j} : job'[k] = job[k]
  PROVE  FilesInv'
  <1>1. wk[w].file # None /\ wk[w].file \in files
    BY DEF FilesInv, InFlight
  <1>2. Served'
    BY <1>1 DEF FilesInv, Served
  <1>3. InFlight'
    BY <1>1 DEF FilesInv, InFlight
  <1>4. PathsDiffer'
    <2>1. \A i, k \in Jobs : i # k /\ job'[i].file_path # None
                             => job'[i].file_path # job'[k].file_path
      BY <1>1 DEF FilesInv, PathsDiffer
    <2>2. \A u, v \in Workers : u # v /\ wk'[u].file # None => wk'[u].file # wk'[v].file
      BY <1>1 DEF FilesInv, PathsDiffer
    <2>3. \A v \in Workers : \A k \in Jobs : wk'[v].file # None => wk'[v].file # job'[k].file_path
      BY <1>1 DEF FilesInv, PathsDiffer
    <2> QED BY <2>1, <2>2, <2>3 DEF PathsDiffer
  <1>5. SnapsAreOld'
    BY <1>1 DEF FilesInv, SnapsAreOld
  <1>6. DeletersAsked'
    BY DEF FilesInv, DeletersAsked
  <1> QED BY <1>2, <1>3, <1>4, <1>5, <1>6 DEF FilesInv

LEMMA FilesExtractStep ==
  ASSUME FilesInv, TypeInv', NEW w \in Workers, ExtractionSucceeds(w)
  PROVE  FilesInv'
  <1>1. PICK f \in FreshFiles : /\ files' = files \cup {f}
                                /\ wk' = [wk EXCEPT ![w].phase = "extracted", ![w].file = f]
    BY DEF ExtractionSucceeds
  <1>2. /\ wk'[w].file = f /\ \A v \in Workers \ {w} : wk'[v] = wk[v]
        /\ UNCHANGED <<job, req, cleaner>>
    <2>1. wk \in [Workers -> WorkerState] /\ wk[w] \in WorkerState
      BY DEF FilesInv, TypeInv, TypeOK
    <2> QED BY <1>1, <2>1 DEF ExtractionSucceeds, WorkerState
  <1>3. /\ f \in Files /\ f # None /\ f \notin files /\ \A j \in Jobs : job[j].file_path # f
        /\ \A v \in Workers : wk[v].file # f
        /\ \A r \in Requests : req[r].snap.file_path # f
    BY DownloadServiceAssumption DEF FreshFiles
  <1>4. Served'
    BY <1>1, <1>2 DEF FilesInv, Served
  <1>5. InFlight'
    <2> SUFFICES ASSUME NEW v \in Workers
                 PROVE  /\ wk'[v].file # None => wk'[v].file \in files'
                        /\ wk'[v].phase = "extracted" => wk'[v].file # None
      BY DEF InFlight
    <2>1. CASE v = w
      BY <1>1, <1>2, <1>3, <2>1
    <2>2. CASE v # w
      <3>1. wk'[v] = wk[v] /\ files \subseteq files'
        BY <1>1, <1>2, <2>2
      <3> QED BY <3>1 DEF FilesInv, InFlight
    <2> QED BY <2>1, <2>2
  <1>6. PathsDiffer'
    <2>1. \A u, v \in Workers : u # v /\ wk'[u].file # None => wk'[u].file # wk'[v].file
      BY <1>2, <1>3 DEF FilesInv, PathsDiffer
    <2>2. \A v \in Workers : \A k \in Jobs : wk'[v].file # None => wk'[v].file # job[k].file_path
      BY <1>2, <1>3 DEF FilesInv, PathsDiffer
    <2> QED BY <1>2, <2>1, <2>2 DEF FilesInv, PathsDiffer
  <1>7. SnapsAreOld'
    BY <1>2, <1>3 DEF FilesInv, SnapsAreOld
  <1>8. DeletersAsked'
    BY <1>2 DEF FilesInv, DeletersAsked
  <1> QED BY <1>4, <1>5, <1>6, <1>7, <1>8 DEF FilesInv

\* Removing the file a request has read takes no other job's file.
LEMMA FilesUnlinkStep ==
  ASSUME FilesInv, TypeInv', UNCHANGED pipelineVars, NEW r \in Requests, DeleteUnlink(r)
  PROVE  FilesInv'
  <1> DEFINE p == req[r].snap.file_path
  <1>1. /\ req[r] \in RequestState /\ req[r].op \in {"delete", "web_delete"}
        /\ files' = files \ {p} /\ UNCHANGED <<job, wk, cleaner>>
        /\ \A s \in Requests \ {r} : req'[s] = req[s]
    BY DEF DeleteUnlink, pipelineVars, FilesInv, TypeInv, TypeOK, ServiceTypeOK
  <1>2. /\ req'[r].op = "delete_row" /\ req'[r].job = req[r].job /\ req'[r].snap = req[r].snap
    BY <1>1 DEF DeleteUnlink, RequestState, FilesInv, TypeInv, TypeOK, ServiceTypeOK
  <1>3. p \in files => /\ p # None /\ \A w \in Workers : wk[w].file # p
                       /\ \A k \in Jobs : job[k].file_path = p => k = req[r].job
    BY DownloadServiceAssumption DEF FilesInv, SnapsAreOld, TypeInv, TypeOK, ServiceTypeOK
  <1>4. Served'
    BY <1>1, <1>2, <1>3 DEF FilesInv, Served
  <1>5. InFlight'
    BY <1>1, <1>3 DEF FilesInv, InFlight
  <1>6. PathsDiffer'
    BY <1>1 DEF FilesInv, PathsDiffer
  <1>7. SnapsAreOld'
    BY <1>1, <1>2 DEF FilesInv, SnapsAreOld
  <1>8. DeletersAsked'
    BY <1>1, <1>2 DEF FilesInv, DeletersAsked, DeleteOps
  <1> QED BY <1>4, <1>5, <1>6, <1>7, <1>8 DEF FilesInv

LEMMA FilesExpireStep ==
  ASSUME FilesInv, TypeInv', NEW j \in Jobs, CleanupUnlink(j)
  PROVE  FilesInv'
  <1>1. /\ UNCHANGED <<job, wk, req>> /\ files' = files \ {job[j].file_path} /\ cleaner' = j
        /\ cleaner = None /\ "cleanup_expired_jobs" \in BeatTasks
    BY DEF CleanupUnlink
  <1>2. job[j].file_path \in files =>
          /\ job[j].file_path # None /\ \A w \in Workers : wk[w].file # job[j].file_path
          /\ \A k \in Jobs : job[k].file_path = job[j].file_path => k = j
    BY DownloadServiceAssumption DEF FilesInv, PathsDiffer, TypeInv, TypeOK, ServiceTypeOK
  <1>3. Served'
    <2> SUFFICES ASSUME NEW k \in Jobs, k # j, job[k].status = "completed"
                 PROVE  \/ job[k].file_path \in files'
                        \/ \E r \in Requests : req[r].op = "delete_row" /\ req[r].job = k
      BY <1>1 DEF Served
    <2>1. cleaner # k
      BY <1>1, DownloadServiceAssumption
    <2> QED BY <1>1, <1>2, <2>1 DEF FilesInv, Served
  <1>4. InFlight'
    BY <1>1, <1>2 DEF FilesInv, InFlight
  <1>5. PathsDiffer' /\ SnapsAreOld' /\ DeletersAsked'
    BY <1>1 DEF FilesInv, PathsDiffer, SnapsAreOld, DeletersAsked
  <1> QED BY <1>3, <1>4, <1>5 DEF FilesInv
\* A request that stays as it is, and one that ends with its row.
LEMMA SameRequestGoesOn ==
  ASSUME FilesInv, NEW r \in Requests, req'[r] = req[r]
  PROVE  RequestGoesOn(r)
  BY DEF RequestGoesOn, FilesInv, SnapsAreOld, DeletersAsked

LEMMA FinishGoesOn ==
  ASSUME FilesInv, NEW r \in Requests, Finish(r),
         req[r].op = "delete_row" => job'[req[r].job].status # "completed"
  PROVE  \A s \in Requests : RequestGoesOn(s)
  <1>1. req'[r] = IdleRequest /\ \A s \in Requests \ {r} : req'[s] = req[s]
    BY DEF Finish, FilesInv, TypeInv, TypeOK, ServiceTypeOK
  <1>2. req'[r].op = "idle" /\ req'[r].snap.file_path = None
    BY <1>1 DEF IdleRequest, NoRow
  <1>3. RequestGoesOn(r)
    BY <1>2 DEF RequestGoesOn, DeleteOps
  <1> QED BY <1>1, <1>3, SameRequestGoesOn

\* A request that goes to its next operation with what it has read.
LEMMA NextOpGoesOn ==
  ASSUME FilesInv, NEW r \in Requests, \A s \in Requests \ {r} : req'[s] = req[s],
         req[r].op # "delete_row", req'[r].op # "replay_load",
         req'[r].snap = req[r].snap, req'[r].job = req[r].job \/ req[r].op = "replay_load",
         req'[r].op \in DeleteOps => req[r].op \in DeleteOps
  PROVE  \A s \in Requests : RequestGoesOn(s)
  <1>1. RequestGoesOn(r)
    BY DEF RequestGoesOn, FilesInv, SnapsAreOld, DeletersAsked
  <1> QED BY <1>1, SameRequestGoesOn

\* What the transactions of a request do to the rows.
LEMMA DeleteForgets ==
  ASSUME TypeInv, NEW j \in Jobs, DeleteRow(j)
  PROVE  RowsForget /\ job'[j].status = "deleted"
  BY DEF DeleteRow, NoRow, RowsForget, TypeInv, TypeOK, ServiceTypeOK

LEMMA InsertForgets ==
  ASSUME TypeInv, NEW j \in Jobs, InsertJob(j)
  PROVE  RowsForget
  BY DEF InsertJob, NoRow, RowsForget, TypeInv, TypeOK, ServiceTypeOK

LEMMA ResetForgets ==
  ASSUME TypeInv, NEW r \in Requests, NEW S, req[r].job \in Jobs, ResetAndCommit(r, S)
  PROVE  RowsForget
  <1>1. CASE ~Exists(req[r].job)
    BY <1>1 DEF ResetAndCommit, RowsForget
  <1>2. CASE Exists(req[r].job)
    <2>1. PICK j \in Jobs : j = req[r].job
      OBVIOUS
    <2>2. job[j] \in Row /\ req[r].snap \in Row /\ job \in [Jobs -> Row]
      BY DEF TypeInv, TypeOK, ServiceTypeOK, RequestState
    <2> DEFINE new == Flush(job[j], req[r].snap, reset_job_for_replay(req[r].snap))
    <2>3. new.file_path = job[j].file_path /\ new.status \in {job[j].status, "pending"}
      BY <2>2, FlushedStatus DEF Flush, Row
    <2>4. job' = [job EXCEPT ![j] = new]
      BY <1>2, <2>1 DEF ResetAndCommit
    <2> HIDE DEF new
    <2>5. job'[j] = new /\ \A k \in Jobs \ {j} : job'[k] = job[k]
      BY <2>2, <2>4
    <2> QED BY <2>3, <2>5 DEF RowsForget
  <1> QED BY <1>1, <1>2

LEMMA FilesServiceStep ==
  ASSUME DeletionsFinish, FilesInv, TypeInv', UNCHANGED pipelineVars, NEW r \in Requests,
         \/ \E j \in Jobs : create(r, j) \/ RetryRead(r, j)
              \/ DeleteRead(r, j, "delete") \/ DeleteRead(r, j, "web_delete")
         \/ \E f \in FailedIds : ReplayFind(r, f)
         \/ RequestStep(r)
         \/ EnqueueFails(r) \/ DeleteUnlinkFails(r) \/ RequestLost(r)
  PROVE  FilesInv'
  <1>1. UNCHANGED <<wk, cleaner>> /\ WorkersForget /\ CleanerGoesOn
    BY DEF pipelineVars, WorkersForget, CleanerGoesOn
  <1>2. TypeInv /\ req \in [Requests -> RequestState] /\ req[r] \in RequestState
        /\ job \in [Jobs -> Row]
    BY DEF FilesInv, TypeInv, TypeOK, ServiceTypeOK
  <1>3. ASSUME UNCHANGED files, RowsForget, \A s \in Requests : RequestGoesOn(s) PROVE FilesInv'
    BY <1>1, <1>3, FilesQuietStep DEF FilesQuiet
  <1>4. UNCHANGED job => RowsForget
    BY DEF RowsForget
  <1>5. ASSUME NEW j \in Jobs, create(r, j) PROVE FilesInv'
    <2>1. /\ \A s \in Requests \ {r} : req'[s] = req[s]
          /\ req'[r].op = "best_effort" /\ req'[r].snap.file_path = None /\ req[r].op = "idle"
      BY <1>2, <1>5 DEF create, IdleRequest, NoRow
    <2>2. RequestGoesOn(r)
      BY <2>1 DEF RequestGoesOn, DeleteOps
    <2> QED BY <1>2, <1>3, <1>5, <2>1, <2>2, SameRequestGoesOn, InsertForgets DEF create
  <1>6. ASSUME NEW j \in Jobs, RetryRead(r, j) \/ DeleteRead(r, j, "delete")
                               \/ DeleteRead(r, j, "web_delete")
        PROVE  FilesInv'
    <2>1. /\ \A s \in Requests \ {r} : req'[s] = req[s]
          /\ req'[r].op \in {"retry", "delete", "web_delete"}
          /\ req'[r].job = j /\ req'[r].snap = job[j] /\ req[r].op = "idle"
          /\ req'[r].op \in DeleteOps => UserOps \cap {"delete", "web_delete"} # {}
      BY <1>2, <1>6 DEF RetryRead, DeleteRead, IdleRequest, DeleteOps
    <2>2. UNCHANGED <<job, files, wk, cleaner>>
      BY <1>1, <1>6 DEF RetryRead, DeleteRead
    <2> QED BY <2>1, <2>2, FilesSnapStep
  <1>7. ASSUME NEW f \in FailedIds, ReplayFind(r, f) PROVE FilesInv'
    <2>1. /\ \A s \in Requests \ {r} : req'[s] = req[s]
          /\ req'[r].op = "replay_load" /\ req'[r].snap.file_path = None /\ req[r].op = "idle"
      BY <1>2, <1>7 DEF ReplayFind, IdleRequest, NoRow
    <2>2. RequestGoesOn(r)
      BY <2>1 DEF RequestGoesOn, DeleteOps
    <2> QED BY <1>3, <1>4, <1>7, <2>1, <2>2, SameRequestGoesOn DEF ReplayFind
  <1>8. CASE SelectOutboxId(r)
    <2>1. /\ \A s \in Requests \ {r} : req'[s] = req[s]
          /\ req[r].op = "best_effort" /\ req'[r].op = "enqueue" /\ req'[r].snap = req[r].snap
          /\ req'[r].job = req[r].job
      BY <1>2, <1>8 DEF SelectOutboxId, RequestState
    <2>2. \A s \in Requests : RequestGoesOn(s)
      BY <2>1, NextOpGoesOn DEF DeleteOps
    <2> QED BY <1>3, <1>4, <1>8, <2>2 DEF SelectOutboxId
  <1>9. CASE enqueue_job(r)
    <2>1. /\ \A s \in Requests \ {r} : req'[s] = req[s]
          /\ req[r].op = "enqueue" /\ req'[r].op = "close" /\ req'[r].snap = req[r].snap
          /\ req'[r].job = req[r].job
      BY <1>2, <1>9 DEF enqueue_job, RequestState
    <2>2. \A s \in Requests : RequestGoesOn(s)
      BY <2>1, NextOpGoesOn DEF DeleteOps
    <2> QED BY <1>3, <1>4, <1>9, <2>2 DEF enqueue_job
  <1>10. CASE CloseOutboxRow(r) \/ EnqueueFails(r)
    BY <1>3, <1>4, <1>10, FinishGoesOn DEF CloseOutboxRow, EnqueueFails
  <1>11. CASE RetryWrite(r) \/ ReplayWrite(r)
    <2>1. req[r].job \in Jobs
      BY <1>2, <1>11 DEF TypeInv, RequestTargets, RetryWrite, ReplayWrite
    <2>2. RowsForget
      BY <1>2, <1>11, <2>1, ResetForgets DEF RetryWrite, ReplayWrite
    <2> QED BY <1>3, <1>11, <2>2, FinishGoesOn DEF RetryWrite, ReplayWrite
  <1>12. CASE ReplayLoad(r)
    <2>1. UNCHANGED <<job, files, wk, cleaner>> /\ req[r].op = "replay_load"
      BY <1>1, <1>12 DEF ReplayLoad
    <2>2. CASE req[r].job # None /\ Exists(req[r].job)
      <3>1. PICK j \in Jobs : j = req[r].job
        BY <1>2, <2>2 DEF RequestState
      <3>2. req' = [req EXCEPT ![r].op = "replay_write", ![r].snap = job[j]]
        BY <1>12, <2>2, <3>1 DEF ReplayLoad
      <3>3. /\ \A s \in Requests \ {r} : req'[s] = req[s]
            /\ req'[r].op = "replay_write" /\ req'[r].job = j /\ req'[r].snap = job[j]
        BY <1>2, <3>1, <3>2 DEF RequestState
      <3> QED BY <2>1, <3>3, FilesSnapStep DEF DeleteOps
    <2>3. CASE ~(req[r].job # None /\ Exists(req[r].job))
      <3>1. req' = [req EXCEPT ![r].op = "replay_new", ![r].job = None]
        BY <1>12, <2>3 DEF ReplayLoad
      <3>2. /\ \A s \in Requests \ {r} : req'[s] = req[s]
            /\ req'[r].op = "replay_new" /\ req'[r].snap = req[r].snap
        BY <1>2, <3>1 DEF RequestState
      <3>3. \A s \in Requests : RequestGoesOn(s)
        BY <2>1, <3>2, NextOpGoesOn DEF DeleteOps
      <3> QED BY <1>3, <1>4, <2>1, <3>3
    <2> QED BY <2>2, <2>3
  <1>13. ASSUME NEW j \in Jobs, ReplayNew(r, j) PROVE FilesInv'
    BY <1>2, <1>3, <1>13, FinishGoesOn, InsertForgets DEF ReplayNew
  <1>14. CASE DeleteUnlink(r)
    BY <1>14, FilesUnlinkStep
  <1>15. CASE DeleteCommit(r)
    <2>1. req[r].job \in Jobs
      BY <1>2, <1>15 DEF TypeInv, RequestTargets, DeleteCommit
    <2>2. RowsForget /\ job'[req[r].job].status # "completed"
      <3>1. CASE Exists(req[r].job)
        BY <1>2, <1>15, <2>1, <3>1, DeleteForgets DEF DeleteCommit
      <3>2. CASE ~Exists(req[r].job)
        BY <1>4, <1>15, <3>2 DEF DeleteCommit, Exists
      <3> QED BY <3>1, <3>2
    <2> QED BY <1>3, <1>15, <2>2, FinishGoesOn DEF DeleteCommit
  <1>16. CASE DeleteUnlinkFails(r)
    <2>1. CASE req[r].op = "delete"
      BY <1>3, <1>4, <1>16, <2>1, FinishGoesOn DEF DeleteUnlinkFails
    <2>2. CASE req[r].op # "delete"
      <3>1. req' = [req EXCEPT ![r].op = "delete_row"] /\ req[r].op = "web_delete"
        BY <1>16, <2>2 DEF DeleteUnlinkFails
      <3>2. /\ \A s \in Requests \ {r} : req'[s] = req[s]
            /\ req'[r].op = "delete_row" /\ req'[r].snap = req[r].snap /\ req'[r].job = req[r].job
        BY <1>2, <3>1 DEF RequestState
      <3>3. \A s \in Requests : RequestGoesOn(s)
        BY <3>1, <3>2, NextOpGoesOn DEF DeleteOps
      <3> QED BY <1>3, <1>4, <1>16, <3>3 DEF DeleteUnlinkFails
    <2> QED BY <2>1, <2>2
  <1>17. CASE RequestLost(r)
    <2>1. req[r].op # "delete_row"
      BY <1>17 DEF RequestLost, Fault, DeletionsFinish, FilesInv, DeletersAsked, DeleteOps
    <2> QED BY <1>3, <1>4, <1>17, <2>1, FinishGoesOn DEF RequestLost
  <1> QED BY <1>5, <1>6, <1>7, <1>8, <1>9, <1>10, <1>11, <1>12, <1>13, <1>14, <1>15, <1>16, <1>17
          DEF RequestStep

LEMMA FilesWorkerStep ==
  ASSUME FilesInv, TypeInv', NEW w \in Workers, WorkerStep(w) \/ WorkerFault(w)
  PROVE  FilesInv'
  <1>1. UNCHANGED <<req, cleaner>>
    BY DEF WorkerStep, WorkerFault, ExtractionSucceeds, ExtractionFails, Complete, CompletionFails,
           ScheduleRetry, PublishRetry, move_to_dlq, Cancelled, WorkerLost, TaskAborts,
           SoftTimeLimit, serviceVars
  <1>2. TypeInv /\ wk \in [Workers -> WorkerState] /\ wk[w] \in WorkerState /\ job \in [Jobs -> Row]
        /\ \A k \in Jobs : job[k] \in Row
    BY DEF FilesInv, TypeInv, TypeOK, ServiceTypeOK
  <1>3. ASSUME UNCHANGED files, RowsForget, WorkersForget PROVE FilesInv'
    <2>1. CleanerGoesOn /\ \A r \in Requests : RequestGoesOn(r)
      BY <1>1, SameRequestGoesOn DEF CleanerGoesOn
    <2> QED BY <1>3, <2>1, FilesQuietStep DEF FilesQuiet
  <1>4. UNCHANGED job => RowsForget
    BY DEF RowsForget
  <1>5. Release(w) => /\ WorkersForget /\ wk'[w].file = None /\ wk'[w].phase # "extracted"
                      /\ \A v \in Workers \ {w} : wk'[v] = wk[v]
    BY <1>2 DEF Release, IdleWorker, WorkersForget
  <1>6. ASSUME NEW j \in Jobs, NEW row, job' = [job EXCEPT ![j] = WhereProcessing(job[j], row)],
               row.status # "completed", row.file_path = job[j].file_path
        PROVE  RowsForget
    <2>1. job'[j] \in {job[j], row} /\ \A k \in Jobs \ {j} : job'[k] = job[k]
      BY <1>2, <1>6 DEF WhereProcessing
    <2> QED BY <1>6, <2>1 DEF RowsForget
  <1>7. CASE ExtractionSucceeds(w)
    BY <1>7, FilesExtractStep
  <1>8. ASSUME NEW cap \in CategoryCaps, ExtractionFails(w, cap) PROVE FilesInv'
    <2>1. WorkersForget
      BY <1>2, <1>8 DEF ExtractionFails, WorkersForget, WorkerState
    <2> QED BY <1>3, <1>4, <1>8, <2>1 DEF ExtractionFails, serviceVars
  <1>9. ASSUME NEW j \in Jobs, wk[w].phase = "extracted", UNCHANGED files, WorkersForget,
               wk'[w].file = None, wk'[w].phase # "extracted",
               \A v \in Workers \ {w} : wk'[v] = wk[v],
               job' = [job EXCEPT ![j] = WhereProcessing(job[j], CompletedRow(job[j], wk[w].file))]
        PROVE  FilesInv'
    <2>1. CASE job[j].status = "processing"
      <3>1. job'[j].file_path = wk[w].file /\ \A k \in Jobs \ {j} : job'[k] = job[k]
        BY <1>2, <1>9, <2>1 DEF WhereProcessing, CompletedRow, Row
      <3> QED BY <1>1, <1>9, <3>1, FilesStoreStep
    <2>2. CASE job[j].status # "processing"
      BY <1>2, <1>3, <1>4, <1>9, <2>2 DEF WhereProcessing
    <2> QED BY <2>1, <2>2
  <1>10. CASE Complete(w)
    <2>1. PICK j \in Jobs : j = wk[w].job
      BY <1>2, <1>10 DEF Complete, TypeInv, WorkerTargets
    <2> QED BY <1>5, <1>9, <1>10, <2>1 DEF Complete
  <1>11. ASSUME NEW cap \in CategoryCaps, CompletionFails(w, cap) PROVE FilesInv'
    <2>1. PICK j \in Jobs : j = wk[w].job
      BY <1>2, <1>11 DEF CompletionFails, TypeInv, WorkerTargets
    <2>2. wk' = [wk EXCEPT ![w].phase = "failing", ![w].file = None,
                           ![w].final = is_final(wk[w].retry_count, cap)]
      BY <1>11 DEF CompletionFails
    <2>3. /\ wk'[w].file = None /\ wk'[w].phase = "failing"
          /\ \A v \in Workers \ {w} : wk'[v] = wk[v]
      BY <1>2, <2>2 DEF WorkerState
    <2>4. WorkersForget
      BY <2>3 DEF WorkersForget
    <2> QED BY <1>3, <1>4, <1>9, <1>11, <2>1, <2>3, <2>4 DEF CompletionFails
  <1>12. CASE ScheduleRetry(w)
    <2>1. PICK j \in Jobs : j = wk[w].job
      BY <1>2, <1>12 DEF ScheduleRetry, TypeInv, WorkerTargets
    <2>2. /\ RetryRow(job[j], wk[w].retry_count).status = "pending"
          /\ RetryRow(job[j], wk[w].retry_count).file_path = job[j].file_path
      BY <1>2 DEF RetryRow, Row
    <2>3. WorkersForget
      BY <1>2, <1>12 DEF ScheduleRetry, WorkersForget, WorkerState
    <2> QED BY <1>3, <1>6, <1>12, <2>1, <2>2, <2>3 DEF ScheduleRetry
  <1>13. CASE PublishRetry(w)
    BY <1>3, <1>4, <1>5, <1>13 DEF PublishRetry, serviceVars
  <1>14. CASE move_to_dlq(w)
    <2>1. PICK j \in Jobs : j = wk[w].job
      BY <1>2, <1>14 DEF move_to_dlq, TypeInv, WorkerTargets
    <2>2. FailedRowOf(job[j]).status = "failed" /\ FailedRowOf(job[j]).file_path = job[j].file_path
      BY <1>2 DEF FailedRowOf, Row
    <2>3. RowsForget
      BY <1>4, <1>6, <1>14, <2>1, <2>2 DEF move_to_dlq
    <2> QED BY <1>3, <1>5, <1>14, <2>3 DEF move_to_dlq
  <1>15. CASE Cancelled(w)
    <2>1. PICK j \in Jobs : j = wk[w].job
      BY <1>2, <1>15 DEF Cancelled, Working, TypeInv, WorkerTargets
    <2>2. RequeuedRow(job[j]).status = "pending" /\ RequeuedRow(job[j]).file_path = job[j].file_path
      BY <1>2 DEF RequeuedRow, Row
    <2> QED BY <1>3, <1>5, <1>6, <1>15, <2>1, <2>2 DEF Cancelled
  <1>16. CASE WorkerLost(w) \/ TaskAborts(w)
    BY <1>3, <1>4, <1>5, <1>16 DEF WorkerLost, TaskAborts
  <1>17. CASE SoftTimeLimit(w)
    <2>1. WorkersForget
      BY <1>2, <1>17 DEF SoftTimeLimit, WorkersForget, WorkerState
    <2> QED BY <1>3, <1>4, <1>17, <2>1 DEF SoftTimeLimit
  <1> QED BY <1>7, <1>8, <1>10, <1>11, <1>12, <1>13, <1>14, <1>15, <1>16, <1>17
          DEF WorkerStep, WorkerFault

LEMMA FilesBrokerStep ==
  ASSUME DeletionsFinish, FilesInv, TypeInv',
         \/ \E j \in Jobs : Deliver(j) \/ Clock(j) \/ CleanupUnlink(j)
         \/ \E f \in FailedIds : cleanup_dlq(f)
         \/ BeatStep
         \/ BeatTaskLost
         \/ UNCHANGED vars
  PROVE  FilesInv'
  <1>1. TypeInv /\ wk \in [Workers -> WorkerState] /\ job \in [Jobs -> Row]
        /\ \A k \in Jobs : job[k] \in Row
    BY DEF FilesInv, TypeInv, TypeOK, ServiceTypeOK
  <1>2. UNCHANGED req
    BY DEF Deliver, Claim, Skip, Clock, RowAges, RetryFallsDue, EtaElapses, CleanupUnlink, BeatStep,
           requeue_stuck_jobs, enqueue_pending, SweepPublish, EnqueuePublish, BeatTaskLost,
           serviceVars, pipelineVars, cleanup_dlq, CleanupCommit, vars
  <1>3. ASSUME UNCHANGED files, RowsForget, WorkersForget, CleanerGoesOn PROVE FilesInv'
    <2>1. \A r \in Requests : RequestGoesOn(r)
      BY <1>2, SameRequestGoesOn
    <2> QED BY <1>3, <2>1, FilesQuietStep DEF FilesQuiet
  <1>4. /\ UNCHANGED job => RowsForget
        /\ UNCHANGED wk => WorkersForget
        /\ UNCHANGED cleaner => CleanerGoesOn
    BY DEF RowsForget, WorkersForget, CleanerGoesOn
  <1>5. ASSUME NEW w \in Workers, NEW j \in Jobs, Claim(w, j) PROVE FilesInv'
    <2>1. RowsForget
      BY <1>1, <1>5 DEF Claim, ClaimedRow, RowsForget, Row
    <2>2. WorkersForget
      BY <1>1, <1>5 DEF Claim, IdleWorker, WorkersForget
    <2> QED BY <1>3, <1>4, <1>5, <2>1, <2>2 DEF Claim
  <1>6. ASSUME NEW j \in Jobs, RowAges(j) \/ RetryFallsDue(j) PROVE FilesInv'
    <2>1. RowsForget
      BY <1>1, <1>6 DEF RowAges, RetryFallsDue, RowsForget, Row
    <2> QED BY <1>3, <1>4, <1>6, <2>1 DEF RowAges, RetryFallsDue, pipelineVars
  <1>7. CASE requeue_stuck_jobs
    <2>1. RowsForget
      BY <1>1, <1>7 DEF requeue_stuck_jobs, RequeuedRow, RowsForget, Row
    <2> QED BY <1>3, <1>4, <1>7, <2>1 DEF requeue_stuck_jobs
  <1>8. ASSUME NEW j \in Jobs, CleanupUnlink(j) PROVE FilesInv'
    BY <1>8, FilesExpireStep
  <1>9. CASE CleanupCommit
    <2>1. cleaner \in Jobs
      BY <1>1, <1>9 DEF CleanupCommit, TypeInv, TypeOK
    <2>2. RowsForget /\ job'[cleaner].status # "completed"
      <3>1. CASE Exists(cleaner)
        BY <1>1, <1>9, <2>1, <3>1, DeleteForgets DEF CleanupCommit
      <3>2. CASE ~Exists(cleaner)
        BY <1>4, <1>9, <3>2 DEF CleanupCommit, Exists
      <3> QED BY <3>1, <3>2
    <2>3. CleanerGoesOn
      BY <1>9, <2>2 DEF CleanupCommit, CleanerGoesOn
    <2> QED BY <1>3, <1>4, <1>9, <2>2, <2>3 DEF CleanupCommit
  <1>10. CASE BeatTaskLost
    <2>1. cleaner = None
      BY <1>10 DEF BeatTaskLost, Fault, DeletionsFinish, FilesInv, DeletersAsked
    <2>2. CleanerGoesOn
      BY <1>10, <2>1 DEF BeatTaskLost, CleanerGoesOn
    <2> QED BY <1>3, <1>4, <1>10, <2>2 DEF BeatTaskLost
  <1>11. ASSUME UNCHANGED <<job, files, wk, cleaner>> PROVE FilesInv'
    BY <1>3, <1>4, <1>11
  <1> QED BY <1>5, <1>6, <1>7, <1>8, <1>9, <1>10, <1>11
          DEF Deliver, Skip, Clock, EtaElapses, BeatStep, enqueue_pending, SweepPublish,
              EnqueuePublish, cleanup_dlq, serviceVars, pipelineVars, vars

LEMMA FilesInit == Init => FilesInv
  <1> SUFFICES ASSUME Init PROVE FilesInv
    OBVIOUS
  <1>1. TypeInv
    BY TypeInit
  <1>2. Served /\ InFlight /\ PathsDiffer
    BY DEF Init, ServiceInit, Served, InFlight, PathsDiffer, NoRow, IdleWorker
  <1>3. SnapsAreOld /\ DeletersAsked
    BY DEF Init, ServiceInit, SnapsAreOld, DeletersAsked, DeleteOps, IdleRequest, NoRow
  <1> QED BY <1>1, <1>2, <1>3 DEF FilesInv

\* A completed job can be served, for any mix of retries, replays and deletes of
\* any number of requests and any executions that overlap: file names are fresh,
\* an execution stores only a file that is still on disk, and nobody removes the
\* file of another job by a path that was read too early.  The hypothesis is
\* about the deletions themselves: a delete or an expiry that dies between the
\* file and the row does leave a completed job without its file.
THEOREM CompletedIsServed ==
  ASSUME DeletionsFinish
  PROVE  Spec => []CompletedHasFile
  <1>1. FilesInv => CompletedHasFile
    BY DEF FilesInv, Served, CompletedHasFile
  <1>2. FilesInv /\ [Next]_vars => FilesInv'
    <2> SUFFICES ASSUME FilesInv, [Next]_vars PROVE FilesInv'
      OBVIOUS
    <2>1. TypeInv'
      BY TypeStep DEF FilesInv
    <2>2. CASE ServiceNext /\ UNCHANGED pipelineVars
      BY <2>1, <2>2, FilesServiceStep DEF ServiceNext
    <2>3. CASE \E w \in Workers : WorkerStep(w) \/ WorkerFault(w)
      BY <2>1, <2>3, FilesWorkerStep
    <2> QED BY <2>1, <2>2, <2>3, FilesBrokerStep DEF Next
  <1> QED BY <1>1, <1>2, FilesInit, PTL DEF Spec
----------------------------------------------------------------------------
(* A fault costs at most one file                                          *)

\* Jobs are deleted through the web route, resets are retries, one at a time, and
\* no coroutine survives its task.
WebDeletesAndRetries == ResetsAreExclusive /\ UserOps \subseteq {"web_delete", "retry"}

\* Steps of the requests that are then never made.
OtherOps == {"delete", "replay_load", "replay_write", "replay_new"}

\* An execution before its verdict has its claim.
ClaimsStand ==
  \A w \in Workers :
    wk[w].phase \in {"executing", "extracted"} => job[wk[w].job].status = "processing"

\* A file is named by an execution that has extracted it, or by a completed row.
FilesAreNamed ==
  /\ \A w \in Workers : wk[w].phase # "extracted" => wk[w].file = None
  /\ \A j \in Jobs : job[j].status # "completed" => job[j].file_path = None

\* A delete request knows the path of its job, which is settled.
DeletesAreCurrent ==
  \A r \in Requests :
    /\ req[r].op \notin OtherOps
    /\ req[r].op \in DeleteOps =>
         /\ job[req[r].job].status \in {"completed", "failed", "deleted"}
         /\ Exists(req[r].job) => job[req[r].job].file_path = req[r].snap.file_path

\* What the expiry task is about to delete has lost its file.
ExpiredIsGone ==
  cleaner # None => /\ job[cleaner].status \in {"completed", "deleted"}
                    /\ job[cleaner].file_path \notin files

SettledInv == ClaimsStand /\ FilesAreNamed /\ DeletesAreCurrent /\ ExpiredIsGone

\* Files that are orphans, or will be when a web delete whose unlink failed
\* removes the row.
Lost ==
  Orphans \cup
    {f \in files : \E r \in Requests : req[r].op = "delete_row" /\ req[r].snap.file_path = f}

LossesAreCounted == IsFiniteSet(Lost) /\ Cardinality(Lost) <= faults

LossInv == OwnerInv /\ SettledInv /\ LossesAreCounted

\* The row of j stays, is settled by its execution, is created or claimed, is
\* deleted after it was settled, or is reset while nobody deletes it.
RowMoves(j) ==
  \/ job'[j].status = job[j].status /\ job'[j].file_path = job[j].file_path
  \/ /\ job[j].status = "processing"
     /\ job'[j].status = "completed" \/ job'[j].file_path = job[j].file_path
     /\ \A w \in Workers : wk'[w].phase \in {"executing", "extracted"} => wk'[w].job # j
  \/ /\ job[j].status \in {"absent", "pending"}
     /\ job'[j].status # "completed" /\ job'[j].file_path = None
  \/ job[j].status \in {"completed", "failed"} /\ job'[j].status = "deleted"
     /\ job'[j].file_path = None
  \/ /\ job[j].status \in {"failed", "deferred"}
     /\ job'[j].status = "pending" /\ job'[j].file_path = None
     /\ \A r \in Requests : req'[r].op \in DeleteOps => req'[r].job # j

SettledQuiet ==
  /\ \A j \in Jobs : RowMoves(j)
  /\ \A w \in Workers :
       /\ wk'[w].phase \in {"executing", "extracted"} =>
            \/ wk[w].phase \in {"executing", "extracted"} /\ wk'[w].job = wk[w].job
            \/ job'[wk'[w].job].status = "processing"
       /\ wk'[w].phase # "extracted" => wk'[w].file = None
  /\ \A r \in Requests :
       /\ req'[r].op \notin OtherOps
       /\ req'[r].op \in DeleteOps =>
            \/ req[r].op \in DeleteOps /\ req'[r].job = req[r].job /\ req'[r].snap = req[r].snap
            \/ /\ job'[req'[r].job].status \in {"completed", "failed", "deleted"}
               /\ job'[req'[r].job].file_path = req'[r].snap.file_path
  /\ \A f \in files' \ files : \A j \in Jobs : job[j].file_path # f
  /\ \/ cleaner' \in {cleaner, None}
     \/ job'[cleaner'].status = "completed" /\ job'[cleaner'].file_path \notin files'

LEMMA SettledQuietStep ==
  ASSUME TypeInv, TypeInv', SettledInv, SettledQuiet
  PROVE  SettledInv'
  <1>1. ClaimsStand'
    <2> SUFFICES ASSUME NEW w \in Workers, wk'[w].phase \in {"executing", "extracted"}
                 PROVE  job'[wk'[w].job].status = "processing"
      BY DEF ClaimsStand
    <2>1. wk'[w].job \in Jobs
      BY DEF TypeInv, WorkerTargets
    <2>2. CASE wk[w].phase \in {"executing", "extracted"} /\ wk'[w].job = wk[w].job
      <3>1. job[wk'[w].job].status = "processing"
        BY <2>2 DEF SettledInv, ClaimsStand
      <3> QED BY <2>1, <3>1 DEF SettledQuiet, RowMoves
    <2> QED BY <2>2 DEF SettledQuiet
  <1>2. FilesAreNamed'
    BY DEF SettledInv, FilesAreNamed, SettledQuiet, RowMoves
  <1>3. DeletesAreCurrent'
    <2> SUFFICES ASSUME NEW r \in Requests, req'[r].op \in DeleteOps
                 PROVE  /\ job'[req'[r].job].status \in {"completed", "failed", "deleted"}
                        /\ job'[req'[r].job].status # "deleted" =>
                             job'[req'[r].job].file_path = req'[r].snap.file_path
      BY DEF DeletesAreCurrent, SettledQuiet, Exists
    <2>1. CASE req[r].op \in DeleteOps /\ req'[r].job = req[r].job /\ req'[r].snap = req[r].snap
      <3>1. PICK j \in Jobs : j = req[r].job
        BY <2>1 DEF TypeInv, RequestTargets, DeleteOps
      <3>2. /\ job[j].status \in {"completed", "failed", "deleted"}
            /\ Exists(j) => job[j].file_path = req[r].snap.file_path
        BY <2>1, <3>1 DEF SettledInv, DeletesAreCurrent
      <3>3. RowMoves(j)
        BY DEF SettledQuiet
      <3> QED BY <2>1, <3>1, <3>2, <3>3 DEF RowMoves, Exists
    <2> QED BY <2>1 DEF SettledQuiet
  <1>4. ExpiredIsGone'
    <2> SUFFICES ASSUME cleaner' = cleaner, cleaner # None
                 PROVE  /\ job'[cleaner].status \in {"completed", "deleted"}
                        /\ job'[cleaner].file_path \notin files'
      BY DEF SettledQuiet, ExpiredIsGone
    <2>1. PICK j \in Jobs : j = cleaner
      BY DEF TypeInv, TypeOK
    <2>2. job[j].status \in {"completed", "deleted"} /\ job[j].file_path \notin files
      BY <2>1 DEF SettledInv, ExpiredIsGone
    <2>3. None \notin files'
      BY DownloadServiceAssumption DEF TypeInv, TypeOK, ServiceTypeOK
    <2>4. RowMoves(j) /\ job[j].file_path \notin files'
      BY <2>2 DEF SettledQuiet
    <2> QED BY <2>1, <2>2, <2>3, <2>4 DEF RowMoves
  <1> QED BY <1>1, <1>2, <1>3, <1>4 DEF SettledInv

\* A step after which every file that had a name has one, but for x.
LosesOnly(x) ==
  \A f \in files' :
    /\ (\E j \in Jobs : job[j].file_path = f) => (\E j \in Jobs : job'[j].file_path = f) \/ f \in Lost
    /\ (\E w \in Workers : wk[w].file = f) =>
         (\E w \in Workers : wk'[w].file = f) \/ (\E j \in Jobs : job'[j].file_path = f) \/ f = x
    /\ \/ f \in files
       \/ /\ \E w \in Workers : wk'[w].file = f
          /\ \A r \in Requests : req'[r].snap.file_path # f
    /\ (\E r \in Requests : req'[r].op = "delete_row" /\ req'[r].snap.file_path = f) =>
         (\E r \in Requests : req[r].op = "delete_row" /\ req[r].snap.file_path = f) \/ f = x

LEMMA LostGrows ==
  ASSUME NEW x, LosesOnly(x)
  PROVE  Lost' \subseteq Lost \cup {x}
  <1> SUFFICES ASSUME NEW f, f \in Lost', f # x PROVE f \in Lost
    OBVIOUS
  <1>1. f \in files'
    BY DEF Lost, Orphans
  <1>2. CASE \E r \in Requests : req'[r].op = "delete_row" /\ req'[r].snap.file_path = f
    <2>1. \E r \in Requests : req[r].op = "delete_row" /\ req[r].snap.file_path = f
      BY <1>1, <1>2 DEF LosesOnly
    <2>2. f \in files
      BY <1>1, <1>2 DEF LosesOnly
    <2> QED BY <2>1, <2>2 DEF Lost
  <1>3. CASE /\ \A j \in Jobs : job'[j].file_path # f
             /\ \A w \in Workers : wk'[w].file # f
    <2>1. f \in files /\ (f \in Lost \/ \A j \in Jobs : job[j].file_path # f)
          /\ \A w \in Workers : wk[w].file # f
      BY <1>1, <1>3 DEF LosesOnly
    <2> QED BY <2>1 DEF Lost, Orphans
  <1> QED BY <1>2, <1>3 DEF Lost, Orphans

\* A fault loses one file, any other step none.
LEMMA LossesStayCounted ==
  ASSUME TypeInv, TypeInv', LossesAreCounted, NEW x, LosesOnly(x),
         faults' = faults + 1 \/ (x = None /\ faults' = faults)
  PROVE  LossesAreCounted'
  <1>1. Lost' \subseteq Lost \cup {x} /\ IsFiniteSet(Lost) /\ Cardinality(Lost) <= faults
    BY LostGrows DEF LossesAreCounted
  <1>2. faults \in Nat /\ Cardinality(Lost) \in Nat
    BY <1>1, FS_CardinalityType, DownloadServiceAssumption DEF TypeInv, TypeOK, ServiceTypeOK
  <1>3. IsFiniteSet(Lost \cup {x}) /\ Cardinality(Lost \cup {x}) <= Cardinality(Lost) + 1
    <2>1. CASE x \in Lost
      <3>1. Lost \cup {x} = Lost
        BY <2>1
      <3> HIDE DEF Lost
      <3> QED BY <1>1, <1>2, <3>1
    <2>2. CASE x \notin Lost
      <3> HIDE DEF Lost
      <3>1. /\ IsFiniteSet(Lost \cup {x})
            /\ Cardinality(Lost \cup {x}) = Cardinality(Lost) + 1
        BY <1>1, <2>2, FS_AddElement
      <3> QED BY <1>2, <3>1
    <2> QED BY <2>1, <2>2
  <1>4. IsFiniteSet(Lost') /\ Cardinality(Lost') <= Cardinality(Lost \cup {x})
    BY <1>1, <1>3, FS_Subset
  <1>5. Cardinality(Lost') \in Nat /\ Cardinality(Lost \cup {x}) \in Nat
    BY <1>3, <1>4, FS_CardinalityType
  <1>6. CASE faults' = faults + 1
    <2>1. Cardinality(Lost') <= faults'
      BY <1>1, <1>2, <1>3, <1>4, <1>5, <1>6
    <2> QED BY <1>4, <2>1 DEF LossesAreCounted
  <1>7. CASE x = None /\ faults' = faults
    <2>1. None \notin Lost'
      BY DownloadServiceAssumption DEF Lost, Orphans, TypeInv, TypeOK, ServiceTypeOK
    <2>2. Lost' \subseteq Lost
      BY <1>1, <1>7, <2>1
    <2>3. Cardinality(Lost') <= Cardinality(Lost)
      BY <1>1, <2>2, FS_Subset
    <2>4. Cardinality(Lost') <= faults'
      BY <1>1, <1>2, <1>5, <1>7, <2>3
    <2> QED BY <1>4, <2>4 DEF LossesAreCounted
  <1> QED BY <1>6, <1>7
\* What a step shows to keep the invariant: its shape, and the file it may lose.
LossStep(x) ==
  /\ SettledQuiet
  /\ LosesOnly(x)
  /\ faults' = faults + 1 \/ (x = None /\ faults' = faults)

\* Steps of the executions: the requests and the expiry task stand still.
WorkerShape(w) ==
  /\ \A v \in Workers \ {w} : wk'[v] = wk[v]
  /\ UNCHANGED <<req, cleaner>>

LEMMA WorkerShapeOf ==
  ASSUME ResetsAreExclusive, OwnerInv, NEW w \in Workers, WorkerStep(w) \/ WorkerFault(w)
  PROVE  WorkerShape(w)
  BY WorkerFrame
     DEF WorkerShape, WorkerStep, WorkerFault, ExtractionSucceeds, ExtractionFails, Complete,
         CompletionFails, ScheduleRetry, PublishRetry, move_to_dlq, Cancelled, WorkerLost,
         TaskAborts, SoftTimeLimit

\* An execution w moves on within its claim, or gives up the job j, which it has.
LEMMA WorkerSettles ==
  ASSUME TypeInv, NoDoubleProcessing, SettledInv,
         NEW w \in Workers, NEW j, j = wk[w].job, WorkerShape(w),
         \A k \in Jobs \ {j} : job'[k] = job[k],
         j \in Jobs => RowMoves(j),
         wk'[w].phase \in {"executing", "extracted"} =>
           wk[w].phase \in {"executing", "extracted"} /\ wk'[w].job = j,
         wk'[w].phase # "extracted" => wk'[w].file = None,
         \A f \in files' \ files : \A k \in Jobs : job[k].file_path # f
  PROVE  SettledQuiet
  <1>1. \A k \in Jobs : RowMoves(k)
    BY DEF RowMoves
  <1>2. \A v \in Workers :
          /\ wk'[v].phase \in {"executing", "extracted"} =>
               wk[v].phase \in {"executing", "extracted"} /\ wk'[v].job = wk[v].job
          /\ wk'[v].phase # "extracted" => wk'[v].file = None
    BY DEF WorkerShape, SettledInv, FilesAreNamed
  <1>3. \A r \in Requests :
          /\ req'[r].op \notin OtherOps
          /\ req'[r] = req[r]
    BY DEF WorkerShape, SettledInv, DeletesAreCurrent
  <1>4. cleaner' = cleaner
    BY DEF WorkerShape
  <1> QED BY <1>1, <1>2, <1>3, <1>4 DEF SettledQuiet

\* The row that an execution of w leaves when it stops working on j.
LEMMA SettledRow ==
  ASSUME OwnerInv, NEW w \in Workers, Working(w), NEW j \in Jobs, j = wk[w].job, WorkerShape(w),
         wk'[w].phase \notin {"executing", "extracted"}, NEW row,
         job' = [job EXCEPT ![j] = WhereProcessing(job[j], row)],
         row.status = "completed" \/ row.file_path = job[j].file_path
  PROVE  RowMoves(j) /\ \A k \in Jobs \ {j} : job'[k] = job[k]
  <1>1. job'[j] = WhereProcessing(job[j], row) /\ \A k \in Jobs \ {j} : job'[k] = job[k]
    BY DEF OwnerInv, TypeInv, TypeOK, ServiceTypeOK
  <1>2. \A v \in Workers : wk'[v].phase \in {"executing", "extracted"} => wk'[v].job # j
    BY DEF WorkerShape, OwnerInv, NoDoubleProcessing, Working
  <1> QED BY <1>1, <1>2 DEF RowMoves, WhereProcessing
\* An execution that drops its file loses that one, if it does not store it.
LEMMA WorkerLoses ==
  ASSUME NEW w \in Workers, WorkerShape(w), UNCHANGED files, NEW x,
         \A k \in Jobs : job'[k].file_path = job[k].file_path \/ job[k].file_path = None,
         None \notin files,
         \/ x = wk[w].file
         \/ wk[w].file = None
         \/ \E k \in Jobs : job'[k].file_path = wk[w].file
  PROVE  LosesOnly(x)
  <1> SUFFICES ASSUME NEW f \in files', f # None
               PROVE  /\ (\E k \in Jobs : job[k].file_path = f) =>
                           (\E k \in Jobs : job'[k].file_path = f)
                      /\ (\E v \in Workers : wk[v].file = f) =>
                           \/ \E v \in Workers : wk'[v].file = f
                           \/ \E k \in Jobs : job'[k].file_path = f
                           \/ f = x
    BY DEF LosesOnly, WorkerShape
  <1>1. ASSUME NEW k \in Jobs, job[k].file_path = f PROVE job'[k].file_path = f
    BY <1>1
  <1>2. ASSUME NEW v \in Workers, wk[v].file = f
        PROVE  \/ \E u \in Workers : wk'[u].file = f
               \/ \E k \in Jobs : job'[k].file_path = f
               \/ f = x
    <2>1. CASE v = w
      BY <1>2, <2>1
    <2>2. CASE v # w
      BY <1>2, <2>2 DEF WorkerShape
    <2> QED BY <2>1, <2>2
  <1> QED BY <1>1, <1>2

LEMMA WorkerLossStep ==
  ASSUME ResetsAreExclusive, LossInv, TypeInv', NEW w \in Workers,
         WorkerStep(w) \/ WorkerFault(w)
  PROVE  \E x : LossStep(x)
  <1>0. PICK j : j = wk[w].job
    OBVIOUS
  <1>1. /\ WorkerShape(w) /\ OwnerInv /\ TypeInv /\ NoDoubleProcessing /\ SettledInv
        /\ None \notin files /\ wk[w] \in WorkerState
        /\ IdleWorker.phase = "idle" /\ IdleWorker.file = None
    BY WorkerShapeOf, DownloadServiceAssumption
       DEF LossInv, OwnerInv, TypeInv, TypeOK, ServiceTypeOK, IdleWorker
  <1>2. ASSUME Working(w) PROVE j \in Jobs /\ job[j] \in Row
    BY <1>0, <1>1, <1>2 DEF Working, TypeInv, WorkerTargets, TypeOK, ServiceTypeOK
  <1>3. ASSUME Release(w) PROVE wk'[w].phase = "idle" /\ wk'[w].file = None
    BY <1>1, <1>3 DEF Release, TypeInv, TypeOK
  <1>4. wk[w].phase # "extracted" => wk[w].file = None
    BY <1>1 DEF SettledInv, FilesAreNamed
  <1>5. wk[w].phase \in {"executing", "extracted"} =>
          job[j].status = "processing" /\ job[j].file_path = None
    BY <1>0, <1>1, <1>2 DEF SettledInv, ClaimsStand, FilesAreNamed, Working
  \* Steps that leave rows and files alone.
  <1>6. ASSUME UNCHANGED <<job, files>>,
               wk'[w].phase \in {"executing", "extracted"} =>
                 wk[w].phase \in {"executing", "extracted"} /\ wk'[w].job = j,
               wk'[w].phase # "extracted" => wk'[w].file = None,
               faults' = faults + 1 \/ (wk[w].file = None /\ faults' = faults)
        PROVE  LossStep(wk[w].file)
    <2>1. SettledQuiet
      BY <1>0, <1>1, <1>6, WorkerSettles DEF RowMoves
    <2>2. LosesOnly(wk[w].file)
      BY <1>1, <1>6, WorkerLoses
    <2> QED BY <1>6, <2>1, <2>2 DEF LossStep
  \* Steps that give the job up.
  <1>7. ASSUME Working(w), UNCHANGED files,
               wk'[w].phase \notin {"executing", "extracted"}, wk'[w].file = None, NEW row,
               job' = [job EXCEPT ![j] = WhereProcessing(job[j], row)],
               \/ row.status = "completed" /\ wk[w].phase = "extracted"
               \/ row.file_path = job[j].file_path,
               NEW x, \/ x = wk[w].file
                      \/ wk[w].file = None
                      \/ row.file_path = wk[w].file /\ wk[w].phase = "extracted",
               faults' = faults + 1 \/ (x = None /\ faults' = faults)
        PROVE  LossStep(x)
    <2>0. j \in Jobs
      BY <1>2, <1>7
    <2>1. RowMoves(j) /\ \A k \in Jobs \ {j} : job'[k] = job[k]
      BY <1>0, <1>1, <1>7, <2>0, SettledRow
    <2>2. SettledQuiet
      BY <1>0, <1>1, <1>7, <2>1, WorkerSettles
    <2>3. job'[j] = WhereProcessing(job[j], row)
      BY <1>1, <1>7, <2>0 DEF TypeInv, TypeOK, ServiceTypeOK
    <2>4. job'[j].file_path = job[j].file_path \/ job[j].file_path = None
      BY <1>5, <1>7, <2>3 DEF WhereProcessing
    <2>5. row.file_path = wk[w].file /\ wk[w].phase = "extracted" => job'[j].file_path = wk[w].file
      BY <1>5, <2>3 DEF WhereProcessing
    <2>6. LosesOnly(x)
      <3>1. \A k \in Jobs : job'[k].file_path = job[k].file_path \/ job[k].file_path = None
        BY <2>1, <2>4
      <3>2. \/ x = wk[w].file
            \/ wk[w].file = None
            \/ \E k \in Jobs : job'[k].file_path = wk[w].file
        BY <1>7, <2>0, <2>5
      <3> QED BY <1>1, <1>7, <3>1, <3>2, WorkerLoses
    <2> QED BY <1>7, <2>2, <2>6 DEF LossStep
  <1>8. CASE ExtractionSucceeds(w)
    <2>1. PICK f \in FreshFiles :
            files' = files \cup {f} /\ wk' = [wk EXCEPT ![w].phase = "extracted", ![w].file = f]
      BY <1>8 DEF ExtractionSucceeds
    <2>2. /\ wk'[w].phase = "extracted" /\ wk'[w].file = f /\ wk'[w].job = j
          /\ wk[w].phase = "executing" /\ UNCHANGED <<job, faults>>
      BY <1>0, <1>1, <1>8, <2>1 DEF ExtractionSucceeds, TypeInv, TypeOK, WorkerState
    <2>3. /\ \A k \in Jobs : job[k].file_path # f
          /\ \A r \in Requests : req[r].snap.file_path # f
      BY DEF FreshFiles
    <2>4. SettledQuiet
      <3>1. \A g \in files' \ files : \A k \in Jobs : job[k].file_path # g
        BY <2>1, <2>3
      <3>2. /\ \A k \in Jobs \ {j} : job'[k] = job[k]
            /\ j \in Jobs => RowMoves(j)
        BY <2>2 DEF RowMoves
      <3> QED BY <1>0, <1>1, <2>2, <3>1, <3>2, WorkerSettles
    <2>5. wk[w].file = None
      BY <1>4, <2>2
    <2>6. \A v \in Workers : wk[v].file # None => wk'[v].file = wk[v].file
      BY <1>1, <2>5 DEF WorkerShape
    <2>7. LosesOnly(None)
      <3> SUFFICES ASSUME NEW g \in files'
                   PROVE  /\ (\E v \in Workers : wk[v].file = g) =>
                               (\E v \in Workers : wk'[v].file = g) \/ g = None
                          /\ \/ g \in files
                             \/ /\ \E v \in Workers : wk'[v].file = g
                                /\ \A r \in Requests : req'[r].snap.file_path # g
        BY <1>1, <2>2 DEF LosesOnly, WorkerShape
      <3>1. g \in files \/ g = f
        BY <2>1
      <3>2. \A r \in Requests : req'[r].snap.file_path # f
        BY <1>1, <2>3 DEF WorkerShape
      <3> QED BY <2>2, <2>6, <3>1, <3>2
    <2> QED BY <2>2, <2>4, <2>7 DEF LossStep
  <1>9. ASSUME NEW cap \in CategoryCaps, ExtractionFails(w, cap) PROVE \E x : LossStep(x)
    <2>1. /\ wk'[w].phase = "failing" /\ wk'[w].file = wk[w].file /\ wk[w].phase = "executing"
          /\ UNCHANGED <<job, files, faults>>
      BY <1>1, <1>9 DEF ExtractionFails, serviceVars, TypeInv, TypeOK, WorkerState
    <2>2. LossStep(wk[w].file)
      BY <1>4, <1>6, <2>1
    <2> QED BY <2>2
  <1>10. CASE Complete(w)
    <2> DEFINE row == CompletedRow(job[j], wk[w].file)
    <2>1. /\ wk[w].phase = "extracted" /\ Working(w)
          /\ UNCHANGED <<files, faults>> /\ wk'[w].phase = "idle" /\ wk'[w].file = None
      BY <1>3, <1>10 DEF Complete, Working
    <2>2. row.status = "completed" /\ row.file_path = wk[w].file
      BY <1>2, <2>1 DEF CompletedRow, Row
    <2>3. job' = [job EXCEPT ![j] = WhereProcessing(job[j], row)]
      BY <1>0, <1>10 DEF Complete
    <2> HIDE DEF row
    <2>4. LossStep(None)
      BY <1>7, <2>1, <2>2, <2>3
    <2> QED BY <2>4
  <1>11. ASSUME NEW cap \in CategoryCaps, CompletionFails(w, cap) PROVE \E x : LossStep(x)
    <2> DEFINE row == CompletedRow(job[j], wk[w].file)
    <2>1. /\ wk[w].phase = "extracted" /\ Working(w)
          /\ UNCHANGED files /\ faults' = faults + 1
          /\ wk'[w].phase = "failing" /\ wk'[w].file = None
      BY <1>1, <1>11 DEF CompletionFails, Working, Fault, TypeInv, TypeOK, WorkerState
    <2>2. row.status = "completed"
      BY <1>2, <2>1 DEF CompletedRow, Row
    <2>3. \/ job' = [job EXCEPT ![j] = WhereProcessing(job[j], row)]
          \/ UNCHANGED job
      BY <1>0, <1>11 DEF CompletionFails
    <2> HIDE DEF row
    <2>4. CASE UNCHANGED job
      <3>1. LossStep(wk[w].file)
        BY <1>6, <2>1, <2>4
      <3> QED BY <3>1
    <2>5. CASE job' = [job EXCEPT ![j] = WhereProcessing(job[j], row)]
      <3>1. LossStep(wk[w].file)
        BY <1>7, <2>1, <2>2, <2>5
      <3> QED BY <3>1
    <2> QED BY <2>3, <2>4, <2>5
  <1>12. CASE ScheduleRetry(w)
    <2> DEFINE row == RetryRow(job[j], wk[w].retry_count)
    <2>1. /\ wk[w].phase = "failing" /\ Working(w)
          /\ UNCHANGED <<files, faults>>
          /\ wk'[w].phase = "publishing" /\ wk'[w].file = None
      BY <1>1, <1>4, <1>12 DEF ScheduleRetry, Working, TypeInv, TypeOK, WorkerState
    <2>2. row.file_path = job[j].file_path
      BY <1>2, <2>1 DEF RetryRow, Row
    <2>3. job' = [job EXCEPT ![j] = WhereProcessing(job[j], row)]
      BY <1>0, <1>12 DEF ScheduleRetry
    <2> HIDE DEF row
    <2>4. LossStep(None)
      BY <1>4, <1>7, <2>1, <2>2, <2>3
    <2> QED BY <2>4
  <1>13. CASE PublishRetry(w)
    <2>1. LossStep(wk[w].file)
      BY <1>3, <1>4, <1>6, <1>13 DEF PublishRetry, serviceVars
    <2> QED BY <2>1
  <1>14. CASE move_to_dlq(w)
    <2> DEFINE row == FailedRowOf(job[j])
    <2>1. /\ wk[w].phase = "failing" /\ Working(w)
          /\ UNCHANGED <<files, faults>>
          /\ wk'[w].phase = "idle" /\ wk'[w].file = None
      BY <1>3, <1>14 DEF move_to_dlq, Working
    <2>2. row.file_path = job[j].file_path
      BY <1>2, <2>1 DEF FailedRowOf, Row
    <2>3. \/ job' = [job EXCEPT ![j] = WhereProcessing(job[j], row)]
          \/ UNCHANGED job
      BY <1>0, <1>14 DEF move_to_dlq
    <2> HIDE DEF row
    <2>4. LossStep(wk[w].file)
      BY <1>4, <1>6, <1>7, <2>1, <2>2, <2>3
    <2> QED BY <2>4
  <1>15. CASE Cancelled(w)
    <2> DEFINE row == RequeuedRow(job[j])
    <2>1. /\ Working(w) /\ UNCHANGED files /\ faults' = faults + 1
          /\ wk'[w].phase = "idle" /\ wk'[w].file = None
      BY <1>3, <1>15 DEF Cancelled, Fault
    <2>2. row.file_path = job[j].file_path
      BY <1>2, <2>1 DEF RequeuedRow, Row
    <2>3. job' = [job EXCEPT ![j] = WhereProcessing(job[j], row)]
      BY <1>0, <1>15 DEF Cancelled
    <2> HIDE DEF row
    <2>4. LossStep(wk[w].file)
      BY <1>7, <2>1, <2>2, <2>3
    <2> QED BY <2>4
  <1>16. CASE WorkerLost(w) \/ TaskAborts(w)
    <2>1. LossStep(wk[w].file)
      BY <1>3, <1>6, <1>16 DEF WorkerLost, TaskAborts, Fault
    <2> QED BY <2>1
  <1>17. ~SoftTimeLimit(w)
    BY DEF SoftTimeLimit, Fault, ResetsAreExclusive
  <1> QED BY <1>8, <1>9, <1>10, <1>11, <1>12, <1>13, <1>14, <1>15, <1>16, <1>17
          DEF WorkerStep, WorkerFault
\* Steps of request r: the executions and the expiry task stand still.
LEMMA ServiceSettles ==
  ASSUME TypeInv, SettledInv, UNCHANGED <<wk, cleaner>>, NEW r \in Requests,
         \A s \in Requests \ {r} : req'[s] = req[s],
         \A j \in Jobs : RowMoves(j), files' \subseteq files,
         req'[r].op \notin OtherOps,
         req'[r].op \in DeleteOps =>
           \/ req[r].op \in DeleteOps /\ req'[r].job = req[r].job /\ req'[r].snap = req[r].snap
           \/ /\ job'[req'[r].job].status \in {"completed", "failed", "deleted"}
              /\ job'[req'[r].job].file_path = req'[r].snap.file_path
  PROVE  SettledQuiet
  <1>1. \A w \in Workers :
          /\ wk'[w].phase \in {"executing", "extracted"} =>
               wk[w].phase \in {"executing", "extracted"} /\ wk'[w].job = wk[w].job
          /\ wk'[w].phase # "extracted" => wk'[w].file = None
    BY DEF SettledInv, FilesAreNamed
  <1>2. \A s \in Requests :
          /\ req'[s].op \notin OtherOps
          /\ req'[s].op \in DeleteOps =>
               \/ req[s].op \in DeleteOps /\ req'[s].job = req[s].job /\ req'[s].snap = req[s].snap
               \/ /\ job'[req'[s].job].status \in {"completed", "failed", "deleted"}
                  /\ job'[req'[s].job].file_path = req'[s].snap.file_path
    BY DEF SettledInv, DeletesAreCurrent
  <1> QED BY <1>1, <1>2 DEF SettledQuiet

LEMMA ServiceLoses ==
  ASSUME UNCHANGED wk, files' \subseteq files, NEW r \in Requests, NEW x,
         \A s \in Requests \ {r} : req'[s] = req[s],
         \A j \in Jobs : \/ job'[j].file_path = job[j].file_path
                         \/ job[j].file_path \notin files'
                         \/ job[j].file_path \in Lost,
         req'[r].op = "delete_row" => \/ req'[r].snap.file_path \notin files'
                                      \/ req'[r].snap.file_path = x
  PROVE  LosesOnly(x)
  <1> SUFFICES ASSUME NEW f \in files'
               PROVE  /\ (\E j \in Jobs : job[j].file_path = f) =>
                           (\E j \in Jobs : job'[j].file_path = f) \/ f \in Lost
                      /\ (\E s \in Requests : req'[s].op = "delete_row" /\ req'[s].snap.file_path = f)
                           => \/ \E s \in Requests : req[s].op = "delete_row"
                                                     /\ req[s].snap.file_path = f
                              \/ f = x
    BY DEF LosesOnly
  <1>1. ASSUME NEW j \in Jobs, job[j].file_path = f
        PROVE  job'[j].file_path = f \/ f \in Lost
    BY <1>1
  <1>2. ASSUME NEW s \in Requests, req'[s].op = "delete_row", req'[s].snap.file_path = f
        PROVE  (req[s].op = "delete_row" /\ req[s].snap.file_path = f) \/ f = x
    BY <1>2
  <1> QED BY <1>1, <1>2

LEMMA ServiceLossStep ==
  ASSUME WebDeletesAndRetries, LossInv, TypeInv', UNCHANGED pipelineVars, NEW r \in Requests,
         \/ \E j \in Jobs : create(r, j) \/ RetryRead(r, j)
              \/ DeleteRead(r, j, "delete") \/ DeleteRead(r, j, "web_delete")
         \/ \E f \in FailedIds : ReplayFind(r, f)
         \/ RequestStep(r)
         \/ EnqueueFails(r) \/ DeleteUnlinkFails(r) \/ RequestLost(r)
  PROVE  \E x : LossStep(x)
  <1>1. /\ UNCHANGED <<wk, cleaner>> /\ TypeInv /\ SettledInv
        /\ req \in [Requests -> RequestState] /\ req[r] \in RequestState /\ job \in [Jobs -> Row]
        /\ None \notin files
        /\ req[r].op \notin OtherOps
        /\ IdleRequest.op = "idle"
    BY DownloadServiceAssumption
       DEF pipelineVars, LossInv, OwnerInv, TypeInv, TypeOK, ServiceTypeOK, SettledInv,
           DeletesAreCurrent, IdleRequest
  \* Steps that leave rows alone and hold no deletion.
  <1>2. ASSUME UNCHANGED <<job, files>>, \A s \in Requests \ {r} : req'[s] = req[s],
               req'[r].op \in {"idle", "enqueue", "close", "retry"},
               NEW x, faults' = faults + 1 \/ (x = None /\ faults' = faults)
        PROVE  LossStep(x)
    <2>1. SettledQuiet
      BY <1>1, <1>2, ServiceSettles DEF RowMoves, DeleteOps, OtherOps
    <2>2. LosesOnly(x)
      BY <1>1, <1>2, ServiceLoses
    <2> QED BY <1>2, <2>1, <2>2 DEF LossStep
  <1>3. ASSUME Finish(r)
        PROVE  (\A s \in Requests \ {r} : req'[s] = req[s]) /\ req'[r].op = "idle"
    BY <1>1, <1>3 DEF Finish
  <1>4. ASSUME NEW j \in Jobs, create(r, j) PROVE LossStep(None)
    <2>1. /\ \A s \in Requests \ {r} : req'[s] = req[s]
          /\ req'[r].op = "best_effort" /\ UNCHANGED <<files, faults>>
      BY <1>1, <1>4 DEF create, IdleRequest
    <2>2. /\ job[j].status = "absent" /\ job'[j].status = "pending" /\ job'[j].file_path = None
          /\ \A k \in Jobs \ {j} : job'[k] = job[k]
      BY <1>1, <1>4 DEF create, InsertJob, NoRow
    <2>3. job[j].file_path = None
      BY <1>1, <2>2 DEF SettledInv, FilesAreNamed
    <2>4. \A k \in Jobs : RowMoves(k) /\ job'[k].file_path = job[k].file_path
      BY <2>2, <2>3 DEF RowMoves
    <2>5. SettledQuiet
      BY <1>1, <2>1, <2>4, ServiceSettles DEF DeleteOps, OtherOps
    <2>6. LosesOnly(None)
      BY <1>1, <2>1, <2>4, ServiceLoses
    <2> QED BY <2>1, <2>5, <2>6 DEF LossStep
  <1>5. ASSUME NEW j \in Jobs, DeleteRead(r, j, "web_delete") PROVE LossStep(None)
    <2>1. /\ \A s \in Requests \ {r} : req'[s] = req[s]
          /\ req'[r].op = "web_delete" /\ req'[r].job = j /\ req'[r].snap = job[j]
          /\ UNCHANGED <<job, files, faults>> /\ job[j].status \in {"completed", "failed"}
      BY <1>1, <1>5 DEF DeleteRead, IdleRequest
    <2>2. SettledQuiet
      BY <1>1, <2>1, ServiceSettles DEF RowMoves, DeleteOps, OtherOps
    <2>3. LosesOnly(None)
      BY <1>1, <2>1, ServiceLoses
    <2> QED BY <2>1, <2>2, <2>3 DEF LossStep
  <1>6. CASE SelectOutboxId(r) \/ enqueue_job(r)
    <2>1. /\ \A s \in Requests \ {r} : req'[s] = req[s]
          /\ req'[r].op \in {"enqueue", "close"} /\ UNCHANGED <<job, files, faults>>
      BY <1>1, <1>6 DEF SelectOutboxId, enqueue_job, RequestState
    <2>2. LossStep(None)
      BY <1>2, <2>1
    <2> QED BY <2>2
  <1>7. CASE CloseOutboxRow(r) \/ EnqueueFails(r) \/ RequestLost(r)
    <2>1. /\ UNCHANGED <<job, files>> /\ Finish(r)
          /\ faults' = faults + 1 \/ faults' = faults
      BY <1>7 DEF CloseOutboxRow, EnqueueFails, RequestLost, Fault
    <2>2. LossStep(None)
      BY <1>2, <1>3, <2>1
    <2> QED BY <2>2
  <1>8. CASE DeleteUnlink(r) \/ DeleteUnlinkFails(r)
    <2>1. /\ req[r].op = "web_delete" /\ UNCHANGED job
          /\ req' = [req EXCEPT ![r].op = "delete_row"]
      BY <1>1, <1>8 DEF DeleteUnlink, DeleteUnlinkFails, OtherOps
    <2>2. /\ \A s \in Requests \ {r} : req'[s] = req[s]
          /\ req'[r].op = "delete_row" /\ req'[r].job = req[r].job /\ req'[r].snap = req[r].snap
      BY <1>1, <2>1 DEF RequestState
    <2>3. PICK x : x = IF DeleteUnlink(r) THEN None ELSE req[r].snap.file_path
      OBVIOUS
    <2>4. /\ files' \subseteq files
          /\ req[r].snap.file_path \notin files' \/ req[r].snap.file_path = x
          /\ faults' = faults + 1 \/ (x = None /\ faults' = faults)
      <3>1. CASE DeleteUnlink(r)
        BY <2>3, <3>1 DEF DeleteUnlink
      <3>2. CASE ~DeleteUnlink(r)
        BY <1>8, <2>3, <3>2 DEF DeleteUnlinkFails, Fault
      <3> QED BY <3>1, <3>2
    <2>5. SettledQuiet
      BY <1>1, <2>1, <2>2, <2>4, ServiceSettles DEF RowMoves, DeleteOps, OtherOps
    <2>6. LosesOnly(x)
      BY <1>1, <2>1, <2>2, <2>4, ServiceLoses
    <2> QED BY <2>4, <2>5, <2>6 DEF LossStep
  <1>9. CASE DeleteCommit(r)
    <2>1. /\ req[r].op = "delete_row" /\ UNCHANGED <<files, faults>>
          /\ \A s \in Requests \ {r} : req'[s] = req[s]
          /\ req'[r].op = "idle"
      BY <1>3, <1>9 DEF DeleteCommit
    <2>2. PICK j \in Jobs : j = req[r].job
      BY <1>1, <2>1 DEF TypeInv, RequestTargets
    <2>3. CASE ~Exists(j)
      <3>1. LossStep(None)
        BY <1>2, <1>9, <2>1, <2>2, <2>3 DEF DeleteCommit
      <3> QED BY <3>1
    <2>4. CASE Exists(j)
      <3>1. /\ job'[j].status = "deleted" /\ job'[j].file_path = None
            /\ \A k \in Jobs \ {j} : job'[k] = job[k]
        BY <1>1, <1>9, <2>2, <2>4 DEF DeleteCommit, DeleteRow, NoRow
      <3>2. /\ job[j].status \in {"completed", "failed"}
            /\ job[j].file_path = req[r].snap.file_path
        BY <1>1, <2>1, <2>2, <2>4 DEF SettledInv, DeletesAreCurrent, DeleteOps, Exists
      <3>3. job[j].file_path \notin files' \/ job[j].file_path \in Lost
        BY <2>1, <3>2 DEF Lost
      <3>4. SettledQuiet
        BY <1>1, <2>1, <3>1, <3>2, ServiceSettles DEF RowMoves, DeleteOps, OtherOps
      <3>5. LosesOnly(None)
        BY <1>1, <2>1, <3>1, <3>3, ServiceLoses
      <3> QED BY <2>1, <3>4, <3>5 DEF LossStep
    <2> QED BY <2>3, <2>4
  <1>10. ASSUME NEW j \in Jobs, RetryRead(r, j) PROVE LossStep(None)
    <2>1. /\ \A s \in Requests \ {r} : req'[s] = req[s]
          /\ req'[r].op = "retry" /\ UNCHANGED <<job, files, faults>>
      BY <1>1, <1>10 DEF RetryRead, IdleRequest
    <2> QED BY <1>2, <2>1
  <1>11. CASE RetryWrite(r)
    <2>1. /\ req[r].op = "retry" /\ UNCHANGED <<files, faults>>
          /\ \A s \in Requests \ {r} : req'[s] = req[s]
          /\ req'[r].op = "idle"
      BY <1>3, <1>11 DEF RetryWrite
    <2>2. PICK j \in Jobs : j = req[r].job
      BY <1>1, <2>1 DEF TypeInv, RequestTargets
    <2>3. CASE ~Exists(j)
      <3>1. LossStep(None)
        BY <1>2, <1>11, <2>1, <2>2, <2>3 DEF RetryWrite, ResetAndCommit
      <3> QED BY <3>1
    <2>4. CASE Exists(j)
      <3>1. /\ "retry" \in UserOps /\ ResetIsCurrent(r, j)
            /\ "replay" \notin UserOps
        BY <2>1, <2>2 DEF LossInv, OwnerInv, ResetsAreCurrent, ResetOps, WebDeletesAndRetries
      <3>2. \A s \in Requests : s = r
        BY <3>1 DEF WebDeletesAndRetries, ResetsAreExclusive
      <3>3. job[j].status \in {"failed", "deferred"} /\ job[j].status = req[r].snap.status
        BY <2>1, <2>4, <3>1 DEF ResetIsCurrent, Resettable, CompletedIsReplayed, Exists
      <3>4. job[j].file_path = None
        BY <1>1, <3>3 DEF SettledInv, FilesAreNamed
      <3>5. /\ job'[j].status = "pending" /\ job'[j].file_path = None
            /\ \A k \in Jobs \ {j} : job'[k] = job[k]
        <4>1. /\ job' = [job EXCEPT ![j] =
                           Flush(job[j], req[r].snap, reset_job_for_replay(req[r].snap))]
              /\ req[r].snap \in Row /\ job[j] \in Row
          BY <1>1, <1>11, <2>2, <2>4 DEF RetryWrite, ResetAndCommit, RequestState
        <4>2. /\ reset_job_for_replay(req[r].snap).status = "pending"
              /\ reset_job_for_replay(req[r].snap) # req[r].snap
          BY <3>3, <4>1 DEF reset_job_for_replay, Row
        <4>3. /\ Flush(job[j], req[r].snap, reset_job_for_replay(req[r].snap)).status = "pending"
              /\ Flush(job[j], req[r].snap, reset_job_for_replay(req[r].snap)).file_path
                   = job[j].file_path
          BY <3>3, <4>1, <4>2 DEF Flush, Row
        <4> QED BY <1>1, <3>4, <4>1, <4>3
      <3>6. \A k \in Jobs : RowMoves(k) /\ job'[k].file_path = job[k].file_path
        BY <2>1, <3>2, <3>3, <3>4, <3>5 DEF RowMoves, DeleteOps
      <3>7. SettledQuiet
        BY <1>1, <2>1, <3>6, ServiceSettles DEF DeleteOps, OtherOps
      <3>8. LosesOnly(None)
        BY <1>1, <2>1, <3>6, ServiceLoses
      <3> QED BY <2>1, <3>7, <3>8 DEF LossStep
    <2> QED BY <2>3, <2>4
  <1>12. /\ \A j \in Jobs : ~DeleteRead(r, j, "delete")
         /\ \A f \in FailedIds : ~ReplayFind(r, f)
         /\ ~ReplayLoad(r) /\ ~ReplayWrite(r) /\ \A j \in Jobs : ~ReplayNew(r, j)
    BY <1>1 DEF WebDeletesAndRetries, DeleteRead, ReplayFind, ReplayLoad, ReplayWrite, ReplayNew,
                OtherOps
  <1> QED BY <1>4, <1>5, <1>6, <1>7, <1>8, <1>9, <1>10, <1>11, <1>12 DEF RequestStep
\* Steps of the broker, the clock and Beat: the requests stand still, and no
\* execution drops a file.
LEMMA BrokerSettles ==
  ASSUME SettledInv, UNCHANGED req, files' \subseteq files,
         \A j \in Jobs : RowMoves(j),
         \A w \in Workers :
           \/ wk'[w] = wk[w]
           \/ wk'[w].phase = "executing" /\ wk'[w].file = None
              /\ job'[wk'[w].job].status = "processing",
         \/ cleaner' \in {cleaner, None}
         \/ job'[cleaner'].status = "completed" /\ job'[cleaner'].file_path \notin files'
  PROVE  SettledQuiet
  <1>1. \A w \in Workers :
          /\ wk'[w].phase \in {"executing", "extracted"} =>
               \/ wk[w].phase \in {"executing", "extracted"} /\ wk'[w].job = wk[w].job
               \/ job'[wk'[w].job].status = "processing"
          /\ wk'[w].phase # "extracted" => wk'[w].file = None
    BY DEF SettledInv, FilesAreNamed
  <1>2. \A s \in Requests :
          /\ req'[s].op \notin OtherOps
          /\ req'[s] = req[s]
    BY DEF SettledInv, DeletesAreCurrent
  <1> QED BY <1>1, <1>2 DEF SettledQuiet

LEMMA BrokerLoses ==
  ASSUME UNCHANGED req, files' \subseteq files, None \notin files,
         \A j \in Jobs : \/ job'[j].file_path = job[j].file_path
                         \/ job[j].file_path \notin files',
         \A w \in Workers : wk'[w].file = wk[w].file
  PROVE  LosesOnly(None)
  BY DEF LosesOnly

LEMMA BrokerLossStep ==
  ASSUME LossInv, TypeInv',
         \/ \E j \in Jobs : Deliver(j) \/ Clock(j) \/ CleanupUnlink(j)
         \/ \E f \in FailedIds : cleanup_dlq(f)
         \/ BeatStep
         \/ BeatTaskLost
         \/ UNCHANGED vars
  PROVE  LossStep(None)
  <1>1. /\ TypeInv /\ SettledInv /\ wk \in [Workers -> WorkerState] /\ job \in [Jobs -> Row]
        /\ \A k \in Jobs : job[k] \in Row
        /\ None \notin files
    BY DownloadServiceAssumption DEF LossInv, OwnerInv, TypeInv, TypeOK, ServiceTypeOK
  <1>2. /\ UNCHANGED req
        /\ faults' \in {faults, faults + 1}
    BY DEF Deliver, Claim, Skip, Clock, RowAges, RetryFallsDue, EtaElapses, CleanupUnlink, BeatStep,
           requeue_stuck_jobs, enqueue_pending, SweepPublish, EnqueuePublish, BeatTaskLost,
           serviceVars, pipelineVars, cleanup_dlq, CleanupCommit, vars, Fault
  <1>3. ASSUME files' \subseteq files, UNCHANGED wk,
               \A j \in Jobs : RowMoves(j),
               \A j \in Jobs : \/ job'[j].file_path = job[j].file_path
                               \/ job[j].file_path \notin files',
               \/ cleaner' \in {cleaner, None}
               \/ job'[cleaner'].status = "completed" /\ job'[cleaner'].file_path \notin files'
        PROVE  LossStep(None)
    <2>1. SettledQuiet
      BY <1>1, <1>2, <1>3, BrokerSettles
    <2>2. LosesOnly(None)
      BY <1>1, <1>2, <1>3, BrokerLoses
    <2> QED BY <1>2, <2>1, <2>2 DEF LossStep
  <1>4. ASSUME UNCHANGED <<files, wk>>, cleaner' \in {cleaner, None},
               \A j \in Jobs : job'[j].status = job[j].status /\ job'[j].file_path = job[j].file_path
        PROVE  LossStep(None)
    BY <1>3, <1>4 DEF RowMoves
  <1>5. ASSUME NEW w \in Workers, NEW j \in Jobs, Claim(w, j) PROVE LossStep(None)
    <2>1. /\ job[j].status = "pending" /\ job'[j].status = "processing"
          /\ job'[j].file_path = job[j].file_path
          /\ \A k \in Jobs \ {j} : job'[k] = job[k]
          /\ UNCHANGED <<files, cleaner>>
      BY <1>1, <1>5 DEF Claim, ClaimedRow, Row
    <2>2. job[j].file_path = None
      BY <1>1, <2>1 DEF SettledInv, FilesAreNamed
    <2>3. /\ wk'[w].phase = "executing" /\ wk'[w].job = j /\ wk'[w].file = None
          /\ \A v \in Workers \ {w} : wk'[v] = wk[v]
          /\ wk[w].phase = "idle"
      BY <1>1, <1>5 DEF Claim, IdleWorker
    <2>4. wk[w].file = None
      BY <1>1, <2>3 DEF SettledInv, FilesAreNamed
    <2>5. SettledQuiet
      <3>1. \A k \in Jobs : RowMoves(k)
        BY <2>1, <2>2 DEF RowMoves
      <3>2. \A v \in Workers :
              \/ wk'[v] = wk[v]
              \/ wk'[v].phase = "executing" /\ wk'[v].file = None
                 /\ job'[wk'[v].job].status = "processing"
        BY <2>1, <2>3
      <3> QED BY <1>1, <1>2, <2>1, <3>1, <3>2, BrokerSettles
    <2>6. LosesOnly(None)
      <3>1. \A v \in Workers : wk'[v].file = wk[v].file
        BY <2>3, <2>4
      <3>2. \A k \in Jobs : job'[k].file_path = job[k].file_path
        BY <2>1
      <3> QED BY <1>1, <1>2, <2>1, <3>1, <3>2, BrokerLoses
    <2> QED BY <1>2, <2>5, <2>6 DEF LossStep
  <1>6. ASSUME NEW j \in Jobs, RowAges(j) \/ RetryFallsDue(j) PROVE LossStep(None)
    <2>1. \A k \in Jobs : job'[k].status = job[k].status /\ job'[k].file_path = job[k].file_path
      BY <1>1, <1>6 DEF RowAges, RetryFallsDue, Row
    <2> QED BY <1>4, <1>6, <2>1 DEF RowAges, RetryFallsDue, pipelineVars
  <1>7. CASE requeue_stuck_jobs
    <2>1. UNCHANGED <<files, wk, cleaner>>
      BY <1>7 DEF requeue_stuck_jobs
    <2>2. \A k \in Jobs : job'[k].file_path = job[k].file_path
      BY <1>1, <1>7 DEF requeue_stuck_jobs, RequeuedRow, Row
    <2>3. ASSUME NEW k \in Jobs PROVE RowMoves(k)
      <3>1. CASE job[k].status = "processing" /\ job[k].old
        <4>1. \A w \in Workers : Working(w) => wk[w].job # k
          BY <3>1 DEF LossInv, OwnerInv, OwnersHold, RowOfOwner
        <4>2. \A w \in Workers : wk'[w].phase \in {"executing", "extracted"} => wk'[w].job # k
          BY <2>1, <4>1 DEF Working
        <4> QED BY <2>2, <3>1, <4>2 DEF RowMoves
      <3>2. CASE ~(job[k].status = "processing" /\ job[k].old)
        <4>1. job'[k] = job[k]
          BY <1>1, <1>7, <3>2 DEF requeue_stuck_jobs
        <4> QED BY <4>1 DEF RowMoves
      <3> QED BY <3>1, <3>2
    <2> QED BY <1>3, <2>1, <2>2, <2>3
  <1>8. ASSUME NEW j \in Jobs, CleanupUnlink(j) PROVE LossStep(None)
    <2>1. /\ files' = files \ {job[j].file_path} /\ cleaner' = j /\ job[j].status = "completed"
          /\ UNCHANGED <<job, wk>>
      BY <1>8 DEF CleanupUnlink
    <2> QED BY <1>3, <2>1 DEF RowMoves
  <1>9. CASE CleanupCommit
    <2>1. PICK j \in Jobs : j = cleaner
      BY <1>1, <1>9 DEF CleanupCommit, TypeInv, TypeOK
    <2>2. UNCHANGED <<files, wk>> /\ cleaner' = None
      BY <1>9 DEF CleanupCommit
    <2>3. CASE ~Exists(j)
      BY <1>4, <1>9, <2>1, <2>2, <2>3 DEF CleanupCommit
    <2>4. CASE Exists(j)
      <3>1. /\ job'[j].status = "deleted" /\ job'[j].file_path = None
            /\ \A k \in Jobs \ {j} : job'[k] = job[k]
        BY <1>1, <1>9, <2>1, <2>4 DEF CleanupCommit, DeleteRow, NoRow
      <3>2. job[j].status = "completed" /\ job[j].file_path \notin files
        BY <1>1, <1>9, <2>1, <2>4 DEF CleanupCommit, SettledInv, ExpiredIsGone, Exists
      <3>3. \A k \in Jobs : RowMoves(k)
        BY <3>1, <3>2 DEF RowMoves
      <3>4. \A k \in Jobs : \/ job'[k].file_path = job[k].file_path
                            \/ job[k].file_path \notin files'
        BY <2>2, <3>1, <3>2
      <3> QED BY <1>3, <2>2, <3>3, <3>4
    <2> QED BY <2>3, <2>4
  <1>10. CASE BeatTaskLost
    BY <1>4, <1>10 DEF BeatTaskLost
  <1>11. ASSUME UNCHANGED <<job, files, wk, cleaner>> PROVE LossStep(None)
    BY <1>4, <1>11
  <1> QED BY <1>5, <1>6, <1>7, <1>8, <1>9, <1>10, <1>11
          DEF Deliver, Skip, Clock, EtaElapses, BeatStep, enqueue_pending, SweepPublish,
              EnqueuePublish, cleanup_dlq, serviceVars, pipelineVars, vars

LEMMA LossInit == Init => LossInv
  <1> SUFFICES ASSUME Init PROVE LossInv
    OBVIOUS
  <1>1. OwnerInv
    BY OwnerInit
  <1>2. SettledInv
    BY DEF Init, ServiceInit, SettledInv, ClaimsStand, FilesAreNamed, DeletesAreCurrent,
           ExpiredIsGone, NoRow, IdleWorker, IdleRequest, DeleteOps, OtherOps
  <1>3. Lost = {} /\ faults = 0
    BY DEF Init, ServiceInit, Lost, Orphans
  <1>4. LossesAreCounted
    BY <1>3, FS_EmptySet DEF LossesAreCounted
  <1> QED BY <1>1, <1>2, <1>4 DEF LossInv

\* Where jobs are deleted through the web route and retried one request at a
\* time, every fault leaves at most one file behind that nobody will ever remove,
\* and nothing else leaves any: an execution that is cancelled, lost or aborted
\* forgets the one file it has, a failed os.remove of the web route gives up one
\* path, a retried job has no file, and every other file is named by an execution
\* or by a row that expires.  The hypothesis is needed: an API delete may take the
\* row of a job in process, and two resets of one job start two executions, each
\* of which leaves a file without any fault.
THEOREM FaultsCostOneFile ==
  ASSUME WebDeletesAndRetries
  PROVE  Spec => []OrphansAreLosses
  <1>1. ResetsAreExclusive
    BY DEF WebDeletesAndRetries
  <1>2. LossInv => OrphansAreLosses
    <2> SUFFICES ASSUME LossInv PROVE OrphansAreLosses
      OBVIOUS
    <2>1. /\ IsFiniteSet(Lost) /\ Cardinality(Lost) <= faults /\ Orphans \subseteq Lost
          /\ faults \in Nat
      BY DownloadServiceAssumption
         DEF LossInv, LossesAreCounted, Lost, OwnerInv, TypeInv, TypeOK, ServiceTypeOK
    <2>2. /\ Cardinality(Orphans) <= Cardinality(Lost)
          /\ Cardinality(Orphans) \in Nat /\ Cardinality(Lost) \in Nat
      BY <2>1, FS_Subset, FS_CardinalityType
    <2> QED BY <2>1, <2>2 DEF OrphansAreLosses
  <1>3. LossInv /\ [Next]_vars => LossInv'
    <2> SUFFICES ASSUME LossInv, [Next]_vars PROVE LossInv'
      OBVIOUS
    <2>1. OwnerInv' /\ TypeInv' /\ TypeInv
      BY <1>1, OwnerStep DEF LossInv, OwnerInv
    <2>2. ASSUME NEW x, LossStep(x) PROVE LossInv'
      <3>1. SettledInv'
        BY <2>1, <2>2, SettledQuietStep DEF LossInv, LossStep
      <3>2. LossesAreCounted'
        BY <2>1, <2>2, LossesStayCounted DEF LossInv, LossStep
      <3> QED BY <2>1, <3>1, <3>2 DEF LossInv
    <2>3. CASE ServiceNext /\ UNCHANGED pipelineVars
      BY <2>1, <2>2, <2>3, ServiceLossStep DEF ServiceNext
    <2>4. CASE \E w \in Workers : WorkerStep(w) \/ WorkerFault(w)
      BY <1>1, <2>1, <2>2, <2>4, WorkerLossStep
    <2> QED BY <2>1, <2>2, <2>3, <2>4, BrokerLossStep DEF Next
  <1> QED BY <1>2, <1>3, LossInit, PTL DEF Spec
============================================================================
