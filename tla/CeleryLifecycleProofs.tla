------------------------ MODULE CeleryLifecycleProofs ------------------------
(***************************************************************************)
(* Who works on a job: executions exclude one another, attempts are never  *)
(* handed back, and CeleryPipeline implements JobLifecycle.  These hold    *)
(* only as long as resets of a job do not overlap, which is what           *)
(* ResetsAreExclusive says; the rest of CeleryPipeline's constants is      *)
(* arbitrary.                                                              *)
(***************************************************************************)
EXTENDS CeleryPipelineProofs

\* The conditions under which a job is reset by one request at a time: no
\* request resets a job, or requests are served one after the other and do not
\* mix retry with replay.  No coroutine survives its task.
ResetsAreExclusive ==
  /\ "soft_limit" \notin Faults
  /\ \/ UserOps \cap {"retry", "replay"} = {}
     \/ /\ \A r1, r2 \in Requests : r1 = r2
        /\ ~({"retry", "replay"} \subseteq UserOps)

NobodyWorksOn(j) == \A w \in Workers : Working(w) => wk[w].job # j

LettersOf(j) == {f \in FailedIds : failed_jobs[f].exists /\ failed_jobs[f].original_job_id = j}

\* An execution whose completing transaction was aborted after its commit writes
\* a dead letter for a completed job, which a replay resets.
CompletedIsReplayed == "abort" \in Faults /\ "replay" \in UserOps

\* Where a job may be reset from.
Resettable ==
  {"failed", "deferred"} \cup (IF CompletedIsReplayed THEN {"completed"} ELSE {})

\* What an execution finds in its row: its claim, with the retry_count it
\* returned, or a row that was deleted or completed for good.
RowOfOwner(row, retry_count) ==
  /\ row.status \in {"processing", "deleted"} \/ (row.status = "completed" /\ "abort" \in Faults)
  /\ ~row.old
  /\ row.status = "processing" => row.retry_count = retry_count

\* An execution has its job, as its claim found it, or has lost it for good.
OwnersHold ==
  \A w \in Workers : /\ ~wk[w].abandoned
                     /\ Working(w) => RowOfOwner(job[wk[w].job], wk[w].retry_count)

\* Nobody works on a job with a dead letter, and it has only one.
LettersAreIdle ==
  "replay" \in UserOps =>
    \A j \in Jobs : \A f \in LettersOf(j) :
      /\ job[j].status \in Resettable
      /\ NobodyWorksOn(j)
      /\ \A g \in LettersOf(j) : g = f

ResetOps == {"retry", "replay_load", "replay_write"}

\* A request that is about to reset job j finds it as it was, and idle.
ResetIsCurrent(r, j) ==
  /\ job[j].status \in Resettable \cup {"deleted"}
  /\ NobodyWorksOn(j)
  /\ req[r].op # "retry" => LettersOf(j) \subseteq {req[r].failed}
  /\ req[r].op # "replay_load" /\ Exists(j) =>
       job[j].status = req[r].snap.status /\ job[j].retry_count = req[r].snap.retry_count

ResetsAreCurrent ==
  \A r \in Requests :
    /\ req[r].op = "retry" => "retry" \in UserOps
    /\ req[r].op \in {"replay_load", "replay_write", "replay_new"} => "replay" \in UserOps
    /\ req[r].op \in ResetOps /\ req[r].job \in Jobs => ResetIsCurrent(r, req[r].job)

AbsentIsBlank == \A j \in Jobs : job[j].status = "absent" => job[j].retry_count = 0

OwnerInv ==
  /\ TypeInv
  /\ NoDoubleProcessing /\ OwnersHold /\ LettersAreIdle /\ ResetsAreCurrent /\ AbsentIsBlank

----------------------------------------------------------------------------
(* Steps that start no execution, write no dead letter and move no reset   *)

\* No execution starts or changes its job.
NobodyStarts ==
  \A w \in Workers :
    /\ ~wk'[w].abandoned
    /\ Working(w)' => Working(w) /\ wk'[w].job = wk[w].job /\ wk'[w].retry_count = wk[w].retry_count

\* The row of j keeps what executions and resets rely on ...
RowKept(j) ==
  /\ job'[j].status = job[j].status /\ job'[j].retry_count = job[j].retry_count
  /\ job'[j].old => job[j].old \/ NobodyWorksOn(j)

\* ... or is written by those who have it, who let go of it, ...
RowGivenBack(j) ==
  /\ job[j].status \in {"processing", "absent"} /\ job'[j].status # "absent"
  /\ NobodyWorksOn(j)'

\* ... or is completed by a transaction whose outcome the execution does not learn, ...
RowCompletedUnseen(j) ==
  /\ "abort" \in Faults
  /\ job[j].status = "processing" /\ job'[j].status = "completed" /\ ~job'[j].old

\* ... or is deleted.
RowDeleted(j) ==
  /\ job'[j].status = "deleted" /\ ~job'[j].old
  /\ LettersOf(j)' = {}

OwnerQuiet ==
  /\ NobodyStarts
  /\ \A j \in Jobs : RowKept(j) \/ RowGivenBack(j) \/ RowCompletedUnseen(j) \/ RowDeleted(j)
  /\ \A j \in Jobs : LettersOf(j)' \subseteq LettersOf(j)
  /\ \A r \in Requests : \/ req'[r] = req[r]
                         \/ req'[r].op \notin ResetOps \cup {"replay_new"}

LEMMA IdleStays ==
  ASSUME NobodyStarts, NEW j, NobodyWorksOn(j)
  PROVE  NobodyWorksOn(j)'
  BY DEF NobodyStarts, NobodyWorksOn

LEMMA OwnerQuietStep ==
  ASSUME OwnerInv, TypeInv', OwnerQuiet
  PROVE  OwnerInv'
  <1>1. NoDoubleProcessing'
    BY DEF OwnerInv, NoDoubleProcessing, OwnerQuiet, NobodyStarts
  <1>2. OwnersHold'
    <2> SUFFICES ASSUME NEW w \in Workers, Working(w)'
                 PROVE  RowOfOwner(job'[wk'[w].job], wk'[w].retry_count)
      BY DEF OwnersHold, OwnerQuiet, NobodyStarts
    <2>1. /\ Working(w) /\ wk'[w].job = wk[w].job /\ wk'[w].retry_count = wk[w].retry_count
          /\ wk[w].job \in Jobs
      BY DEF OwnerQuiet, NobodyStarts, OwnerInv, TypeInv, WorkerTargets, Working
    <2>2. RowOfOwner(job[wk[w].job], wk[w].retry_count)
      BY <2>1 DEF OwnerInv, OwnersHold
    <2>3. ~NobodyWorksOn(wk[w].job) /\ ~NobodyWorksOn(wk[w].job)'
      BY <2>1 DEF NobodyWorksOn
    <2>4. job'[wk[w].job].old \in BOOLEAN
      BY <2>1 DEF TypeInv, TypeOK, ServiceTypeOK, Row
    <2> QED BY <2>1, <2>2, <2>3, <2>4
            DEF OwnerQuiet, RowKept, RowGivenBack, RowCompletedUnseen, RowDeleted, RowOfOwner
  <1>3. LettersAreIdle'
    <2> SUFFICES ASSUME "replay" \in UserOps, NEW j \in Jobs, NEW f \in LettersOf(j)'
                 PROVE  /\ job'[j].status \in Resettable /\ NobodyWorksOn(j)'
                        /\ \A g \in LettersOf(j)' : g = f
      BY DEF LettersAreIdle, Resettable, CompletedIsReplayed
    <2>1. f \in LettersOf(j) /\ \A g \in LettersOf(j)' : g \in LettersOf(j)
      BY DEF OwnerQuiet
    <2>2. /\ job[j].status \in Resettable /\ NobodyWorksOn(j) /\ \A g \in LettersOf(j) : g = f
      BY <2>1 DEF OwnerInv, LettersAreIdle
    <2>3. NobodyWorksOn(j)'
      BY <2>2, IdleStays DEF OwnerQuiet
    <2>4. job'[j].status = job[j].status
      BY <2>2 DEF OwnerQuiet, RowKept, RowGivenBack, RowCompletedUnseen, RowDeleted, Resettable
    <2> QED BY <2>1, <2>2, <2>3, <2>4
  <1>4. ResetsAreCurrent'
    <2> SUFFICES ASSUME NEW r \in Requests, req'[r] = req[r],
                        req[r].op \in ResetOps \cup {"replay_new"}
                 PROVE  /\ req[r].op = "retry" => "retry" \in UserOps
                        /\ req[r].op \in {"replay_load", "replay_write", "replay_new"}
                             => "replay" \in UserOps
                        /\ req[r].op \in ResetOps /\ req[r].job \in Jobs
                             => ResetIsCurrent(r, req[r].job)'
      BY DEF ResetsAreCurrent, ResetOps, OwnerQuiet
    <2>1. /\ req[r].op = "retry" => "retry" \in UserOps
          /\ req[r].op \in {"replay_load", "replay_write", "replay_new"} => "replay" \in UserOps
      BY DEF OwnerInv, ResetsAreCurrent
    <2>2. ASSUME NEW j \in Jobs, req[r].op \in ResetOps, req[r].job = j
          PROVE  ResetIsCurrent(r, j)'
      <3>1. ResetIsCurrent(r, j)
        BY <2>2 DEF OwnerInv, ResetsAreCurrent
      <3>2. NobodyWorksOn(j)' /\ LettersOf(j)' \subseteq LettersOf(j)
        BY <3>1, IdleStays DEF ResetIsCurrent, OwnerQuiet
      <3>3. RowKept(j) \/ job'[j].status = "deleted"
        BY <3>1 DEF ResetIsCurrent, OwnerQuiet, RowGivenBack, RowCompletedUnseen, RowDeleted,
                    Resettable
      <3>4. job'[j].status \in Resettable \cup {"deleted"}
        BY <3>1, <3>3 DEF ResetIsCurrent, RowKept
      <3>5. req[r].op # "retry" => LettersOf(j)' \subseteq {req[r].failed}
        BY <3>1, <3>2 DEF ResetIsCurrent
      <3>6. req[r].op # "replay_load" /\ Exists(j)' =>
              job'[j].status = req[r].snap.status /\ job'[j].retry_count = req[r].snap.retry_count
        BY <3>1, <3>3 DEF ResetIsCurrent, RowKept, Exists
      <3> QED BY <3>2, <3>4, <3>5, <3>6 DEF ResetIsCurrent, Resettable
    <2> QED BY <2>1, <2>2
  <1>5. AbsentIsBlank'
    BY DEF OwnerInv, AbsentIsBlank, OwnerQuiet, RowKept, RowGivenBack, RowCompletedUnseen,
           RowDeleted
  <1> QED BY <1>1, <1>2, <1>3, <1>4, <1>5 DEF OwnerInv

----------------------------------------------------------------------------
(* The executions                                                          *)

\* A step of execution w leaves the other executions alone, and starts nothing.
LEMMA WorkerFrame ==
  ASSUME ResetsAreExclusive, OwnerInv, NEW w \in Workers, WorkerStep(w) \/ WorkerFault(w)
  PROVE  /\ NobodyStarts
         /\ \A v \in Workers \ {w} : wk'[v] = wk[v]
         /\ UNCHANGED req
  <1> USE DEF OwnerInv, TypeInv, TypeOK
  <1>1. wk[w] \in WorkerState /\ IdleWorker \in WorkerState /\ ~wk[w].abandoned
        /\ IdleWorker.phase = "idle" /\ ~IdleWorker.abandoned
    BY IdleWorkerType DEF OwnersHold, IdleWorker
  <1>2. UNCHANGED req
    BY DEF WorkerStep, WorkerFault, ExtractionSucceeds, ExtractionFails, Complete, CompletionFails,
           ScheduleRetry, PublishRetry, move_to_dlq, Cancelled, WorkerLost, TaskAborts,
           SoftTimeLimit, serviceVars
  <1>3. ASSUME NEW v \in WorkerState, wk' = [wk EXCEPT ![w] = v], ~v.abandoned,
               \/ v.phase \in {"idle", "publishing"}
               \/ Working(w) /\ v.job = wk[w].job /\ v.retry_count = wk[w].retry_count
        PROVE  NobodyStarts /\ \A u \in Workers \ {w} : wk'[u] = wk[u]
    <2>1. wk'[w] = v /\ \A u \in Workers \ {w} : wk'[u] = wk[u]
      BY <1>3
    <2> QED BY <1>3, <2>1 DEF NobodyStarts, Working, OwnersHold
  <1>4. CASE \E f \in FreshFiles : wk' = [wk EXCEPT ![w].phase = "extracted", ![w].file = f]
             /\ wk[w].phase = "executing"
    <2>1. PICK f \in FreshFiles : wk' = [wk EXCEPT ![w].phase = "extracted", ![w].file = f]
      BY <1>4
    <2> DEFINE v == [wk[w] EXCEPT !.phase = "extracted", !.file = f]
    <2>2. f \in Files /\ wk' = [wk EXCEPT ![w] = v]
      BY <2>1 DEF FreshFiles
    <2>3. /\ v \in WorkerState /\ ~v.abandoned
          /\ v.job = wk[w].job /\ v.retry_count = wk[w].retry_count
      BY <1>1, <2>2 DEF WorkerState, Phases
    <2> HIDE DEF v
    <2> QED BY <1>3, <1>4, <2>2, <2>3, <1>2 DEF Working
  <1>5. ASSUME NEW final \in BOOLEAN, NEW file \in Files \cup {None},
               wk[w].phase \in {"executing", "extracted"},
               wk' = [wk EXCEPT ![w] = [wk[w] EXCEPT !.phase = "failing", !.file = file,
                                                     !.final = final]]
        PROVE  NobodyStarts /\ \A u \in Workers \ {w} : wk'[u] = wk[u]
    <2> DEFINE v == [wk[w] EXCEPT !.phase = "failing", !.file = file, !.final = final]
    <2>1. /\ v \in WorkerState /\ ~v.abandoned
          /\ v.job = wk[w].job /\ v.retry_count = wk[w].retry_count
      BY <1>1, <1>5 DEF WorkerState, Phases
    <2>2. wk' = [wk EXCEPT ![w] = v] /\ Working(w)
      BY <1>5 DEF Working
    <2> HIDE DEF v
    <2> QED BY <1>3, <2>1, <2>2
  <1>6. ASSUME NEW cap \in CategoryCaps, ExtractionFails(w, cap) \/ CompletionFails(w, cap)
        PROVE  NobodyStarts /\ \A u \in Workers \ {w} : wk'[u] = wk[u]
    <2>1. is_final(wk[w].retry_count, cap) \in BOOLEAN /\ wk[w].file \in Files \cup {None}
      BY <1>1 DEF is_final, WorkerState
    <2>2. CASE ExtractionFails(w, cap)
      <3>1. wk' = [wk EXCEPT ![w] = [wk[w] EXCEPT !.phase = "failing", !.file = wk[w].file,
                                       !.final = is_final(wk[w].retry_count, cap)]]
        BY <2>2, <1>1 DEF ExtractionFails, WorkerState
      <3> QED BY <1>5, <2>1, <2>2, <3>1 DEF ExtractionFails
    <2>3. CASE CompletionFails(w, cap)
      <3>1. wk' = [wk EXCEPT ![w] = [wk[w] EXCEPT !.phase = "failing", !.file = None,
                                       !.final = is_final(wk[w].retry_count, cap)]]
        BY <2>3 DEF CompletionFails
      <3> QED BY <1>5, <2>1, <2>3, <3>1 DEF CompletionFails
    <2> QED BY <1>6, <2>2, <2>3
  <1>7. CASE ScheduleRetry(w)
    <2> DEFINE v == [wk[w] EXCEPT !.phase = "publishing"]
    <2>1. wk' = [wk EXCEPT ![w] = v] /\ v \in WorkerState /\ ~v.abandoned /\ v.phase = "publishing"
      BY <1>1, <1>7 DEF ScheduleRetry, WorkerState, Phases
    <2> HIDE DEF v
    <2> QED BY <1>2, <1>3, <2>1
  <1>8. CASE Release(w)
    BY <1>1, <1>2, <1>3, <1>8 DEF Release
  <1>9. ~SoftTimeLimit(w)
    BY DEF SoftTimeLimit, Fault, ResetsAreExclusive
  <1> QED BY <1>2, <1>4, <1>6, <1>7, <1>8, <1>9
          DEF WorkerStep, WorkerFault, ExtractionSucceeds, Complete, PublishRetry, move_to_dlq,
              Cancelled, WorkerLost, TaskAborts

\* Nobody else works on the job of an execution, so nobody does when it stops.
LEMMA LastOneLeaves ==
  ASSUME OwnerInv, NEW w \in Workers, Working(w), ~Working(w)', NEW j, j = wk[w].job,
         \A v \in Workers \ {w} : wk'[v] = wk[v]
  PROVE  NobodyWorksOn(j)'
  BY DEF OwnerInv, NoDoubleProcessing, NobodyWorksOn, Working

LEMMA ReleasedIsIdle ==
  ASSUME TypeInv, NEW w \in Workers, Release(w)
  PROVE  ~Working(w)'
  BY DEF Release, IdleWorker, Working, TypeInv, TypeOK

\* A step that changes at most the row of one job, and no dead letter.
LEMMA OneRowQuiet ==
  ASSUME OwnerInv, NobodyStarts, UNCHANGED <<req, failed_jobs>>,
         NEW j \in Jobs, \A k \in Jobs \ {j} : job'[k] = job[k],
         RowKept(j) \/ RowGivenBack(j) \/ RowCompletedUnseen(j)
  PROVE  OwnerQuiet
  <1>1. \A k \in Jobs : LettersOf(k)' = LettersOf(k)
    BY DEF LettersOf
  <1>2. \A k \in Jobs \ {j} : RowKept(k)
    BY DEF RowKept
  <1> QED BY <1>1, <1>2 DEF OwnerQuiet

\* What the UPDATE ... WHERE status = 'processing' of an execution that lets go
\* of its job does to the row.
LEMMA WriteGivesBack ==
  ASSUME OwnerInv, TypeInv', NEW j \in Jobs, NobodyWorksOn(j)', NEW row,
         job' = [job EXCEPT ![j] = WhereProcessing(job[j], row)], row.status # "absent"
  PROVE  /\ \A k \in Jobs \ {j} : job'[k] = job[k]
         /\ RowKept(j) \/ RowGivenBack(j)
  <1>1. /\ \A k \in Jobs \ {j} : job'[k] = job[k]
        /\ job'[j] = WhereProcessing(job[j], row)
    BY DEF OwnerInv, TypeInv, TypeOK, ServiceTypeOK
  <1>2. CASE job[j].status = "processing"
    BY <1>1, <1>2 DEF WhereProcessing, RowGivenBack
  <1>3. CASE job[j].status # "processing"
    BY <1>1, <1>3 DEF WhereProcessing, RowKept
  <1> QED BY <1>1, <1>2, <1>3

LEMMA OwnerWorkerQuiet ==
  ASSUME ResetsAreExclusive, OwnerInv, TypeInv', NEW w \in Workers,
         WorkerStep(w) \/ WorkerFault(w), ~move_to_dlq(w)
  PROVE  OwnerQuiet
  <1>0. PICK j : j = wk[w].job
    OBVIOUS
  <1>1. /\ NobodyStarts /\ \A v \in Workers \ {w} : wk'[v] = wk[v]
        /\ UNCHANGED <<req, failed_jobs>>
    BY WorkerFrame DEF WorkerStep, WorkerFault, ExtractionSucceeds, ExtractionFails, Complete,
           CompletionFails, ScheduleRetry, PublishRetry, Cancelled, WorkerLost, TaskAborts,
           SoftTimeLimit, serviceVars
  <1>2. ASSUME UNCHANGED job PROVE OwnerQuiet
    BY <1>1, <1>2 DEF OwnerQuiet, RowKept, LettersOf
  <1>3. ASSUME Working(w), ~Working(w)', NEW row,
               job' = [job EXCEPT ![j] = WhereProcessing(job[j], row)], row.status # "absent"
        PROVE  OwnerQuiet
    <2>1. j \in Jobs
      BY <1>0, <1>3 DEF Working, OwnerInv, TypeInv, WorkerTargets
    <2>2. NobodyWorksOn(j)'
      BY <1>0, <1>1, <1>3, LastOneLeaves
    <2>3. /\ \A k \in Jobs \ {j} : job'[k] = job[k]
          /\ RowKept(j) \/ RowGivenBack(j)
      BY <1>3, <2>1, <2>2, WriteGivesBack
    <2> QED BY <1>1, <2>1, <2>3, OneRowQuiet
  <1>4. ASSUME Working(w) PROVE j \in Jobs /\ job[j] \in Row
    BY <1>0, <1>4 DEF Working, OwnerInv, TypeInv, WorkerTargets, TypeOK, ServiceTypeOK
  <1>5. CASE Complete(w)
    <2>1. Working(w) /\ ~Working(w)'
      BY <1>5, ReleasedIsIdle DEF Complete, Working, OwnerInv
    <2>2. CompletedRow(job[j], wk[w].file).status = "completed"
      BY <1>4, <2>1 DEF CompletedRow, Row
    <2> QED BY <1>0, <1>3, <1>5, <2>1, <2>2 DEF Complete
  <1>6. CASE ScheduleRetry(w)
    <2>1. Working(w) /\ ~Working(w)'
      BY <1>6 DEF ScheduleRetry, Working, OwnerInv, TypeInv, TypeOK, WorkerState
    <2>2. RetryRow(job[j], wk[w].retry_count).status = "pending"
      BY <1>4, <2>1 DEF RetryRow, Row
    <2> QED BY <1>0, <1>3, <1>6, <2>1, <2>2 DEF ScheduleRetry
  <1>7. CASE Cancelled(w)
    <2>1. Working(w) /\ ~Working(w)'
      BY <1>7, ReleasedIsIdle DEF Cancelled, OwnerInv
    <2>2. RequeuedRow(job[j]).status = "pending"
      BY <1>4, <2>1 DEF RequeuedRow, Row
    <2> QED BY <1>0, <1>3, <1>7, <2>1, <2>2 DEF Cancelled
  <1>8. ASSUME NEW cap \in CategoryCaps, CompletionFails(w, cap) PROVE OwnerQuiet
    <2>1. CASE UNCHANGED job
      BY <1>2, <2>1
    <2>2. CASE job' = [job EXCEPT ![j] = WhereProcessing(job[j], CompletedRow(job[j], wk[w].file))]
      <3>1. Working(w) /\ "abort" \in Faults
        BY <1>8 DEF CompletionFails, Working, Fault
      <3>2. /\ \A k \in Jobs \ {j} : job'[k] = job[k]
            /\ job'[j] = WhereProcessing(job[j], CompletedRow(job[j], wk[w].file))
        BY <1>4, <2>2, <3>1 DEF OwnerInv, TypeInv, TypeOK, ServiceTypeOK
      <3>3. RowKept(j) \/ RowCompletedUnseen(j)
        BY <1>4, <3>1, <3>2 DEF WhereProcessing, CompletedRow, RowKept, RowCompletedUnseen, Row
      <3> QED BY <1>1, <1>4, <3>1, <3>2, <3>3, OneRowQuiet
    <2> QED BY <1>0, <1>8, <2>1, <2>2 DEF CompletionFails
  <1>9. ASSUME ~Complete(w), ~ScheduleRetry(w), ~Cancelled(w),
               \A cap \in CategoryCaps : ~CompletionFails(w, cap)
        PROVE  OwnerQuiet
    BY <1>2, <1>9 DEF WorkerStep, WorkerFault, ExtractionSucceeds, ExtractionFails, PublishRetry,
                      WorkerLost, TaskAborts, SoftTimeLimit, serviceVars
  <1> QED BY <1>5, <1>6, <1>7, <1>8, <1>9
\* The dead letter of a job is written by the execution that lets go of it.
LEMMA OwnerMoveToDlq ==
  ASSUME ResetsAreExclusive, OwnerInv, TypeInv', NEW w \in Workers, move_to_dlq(w)
  PROVE  OwnerInv'
  <1>0. PICK j : j = wk[w].job
    OBVIOUS
  <1>1. /\ NobodyStarts /\ \A v \in Workers \ {w} : wk'[v] = wk[v]
        /\ UNCHANGED req
    BY WorkerFrame DEF WorkerStep
  <1>2. Working(w) /\ ~Working(w)'
    BY ReleasedIsIdle DEF move_to_dlq, Working, OwnerInv
  <1>3. j \in Jobs /\ job[j] \in Row
    BY <1>0, <1>2 DEF Working, OwnerInv, TypeInv, WorkerTargets, TypeOK, ServiceTypeOK
  <1>4. NobodyWorksOn(j)'
    BY <1>0, <1>1, <1>2, LastOneLeaves
  <1>5. CASE ~Exists(j)
    <2>1. UNCHANGED <<job, failed_jobs>>
      BY <1>0, <1>5 DEF move_to_dlq
    <2>2. OwnerQuiet
      BY <1>1, <2>1 DEF OwnerQuiet, RowKept, LettersOf
    <2> QED BY <2>2, OwnerQuietStep
  <1>6. CASE Exists(j)
    <2>1. job' = [job EXCEPT ![j] = WhereProcessing(job[j], FailedRowOf(job[j]))]
      BY <1>0, <1>6 DEF move_to_dlq
    <2>2. PICK f0 \in FailedIds :
             failed_jobs' = [failed_jobs EXCEPT ![f0] = [exists |-> TRUE, original_job_id |-> j]]
             /\ ~failed_jobs[f0].exists
      BY <1>0, <1>6 DEF move_to_dlq, InsertFailedJob
    <2>3. FailedRowOf(job[j]).status = "failed"
      BY <1>3 DEF FailedRowOf, Row
    <2>4. /\ \A k \in Jobs \ {j} : job'[k] = job[k]
          /\ RowKept(j) \/ RowGivenBack(j)
      BY <1>3, <1>4, <2>1, <2>3, WriteGivesBack
    <2>5. /\ LettersOf(j)' = LettersOf(j) \cup {f0}
          /\ \A k \in Jobs \ {j} : LettersOf(k)' = LettersOf(k)
      BY <1>3, <2>2 DEF LettersOf, OwnerInv, TypeInv, TypeOK, ServiceTypeOK, FailedRow
    <2>6. "replay" \in UserOps => LettersOf(j) = {}
      BY <1>0, <1>2, <1>3 DEF OwnerInv, LettersAreIdle, NobodyWorksOn
    <2>7. "replay" \in UserOps => job'[j].status \in Resettable
      <3>1. RowOfOwner(job[j], wk[w].retry_count)
        BY <1>0, <1>2 DEF OwnerInv, OwnersHold
      <3>2. job'[j] = WhereProcessing(job[j], FailedRowOf(job[j]))
        BY <1>3, <2>1 DEF OwnerInv, TypeInv, TypeOK, ServiceTypeOK
      <3> QED BY <1>6, <2>3, <3>1, <3>2 DEF RowOfOwner, WhereProcessing, Resettable,
                                              CompletedIsReplayed, Exists
    <2>8. NoDoubleProcessing'
      BY <1>1 DEF OwnerInv, NoDoubleProcessing, NobodyStarts
    <2>9. OwnersHold'
      <3> SUFFICES ASSUME NEW v \in Workers, Working(v)'
                   PROVE  RowOfOwner(job'[wk'[v].job], wk'[v].retry_count)
        BY <1>1 DEF OwnersHold, NobodyStarts
      <3>1. /\ Working(v) /\ wk'[v].job = wk[v].job /\ wk'[v].retry_count = wk[v].retry_count
            /\ wk[v].job \in Jobs /\ wk[v].job # j
        BY <1>1, <1>4 DEF NobodyStarts, OwnerInv, TypeInv, WorkerTargets, Working, NobodyWorksOn
      <3> QED BY <2>4, <3>1 DEF OwnerInv, OwnersHold
    <2>10. LettersAreIdle'
      <3> SUFFICES ASSUME "replay" \in UserOps, NEW k \in Jobs, NEW f \in LettersOf(k)'
                   PROVE  /\ job'[k].status \in Resettable /\ NobodyWorksOn(k)'
                          /\ \A g \in LettersOf(k)' : g = f
        BY DEF LettersAreIdle, Resettable, CompletedIsReplayed
      <3>1. CASE k = j
        BY <1>4, <2>5, <2>6, <2>7, <3>1
      <3>2. CASE k # j
        BY <1>1, <2>4, <2>5, <3>2, IdleStays DEF OwnerInv, LettersAreIdle
      <3> QED BY <3>1, <3>2
    <2>11. ResetsAreCurrent'
      <3> SUFFICES ASSUME NEW r \in Requests, req[r].op \in ResetOps, req[r].job \in Jobs
                   PROVE  ResetIsCurrent(r, req[r].job)'
        BY <1>1 DEF OwnerInv, ResetsAreCurrent
      <3>1. PICK k \in Jobs : k = req[r].job
        OBVIOUS
      <3>2. ResetIsCurrent(r, k)
        BY <3>1 DEF OwnerInv, ResetsAreCurrent
      <3>3. k # j
        BY <1>0, <1>2, <3>2 DEF ResetIsCurrent, NobodyWorksOn
      <3>4. NobodyWorksOn(k)' /\ job'[k] = job[k] /\ LettersOf(k)' = LettersOf(k)
        BY <1>1, <2>4, <2>5, <3>2, <3>3, IdleStays DEF ResetIsCurrent
      <3>5. ResetIsCurrent(r, k)'
        BY <1>1, <3>2, <3>4 DEF ResetIsCurrent, Exists, Resettable
      <3> QED BY <1>1, <3>1, <3>5
    <2>12. AbsentIsBlank'
      BY <2>4 DEF OwnerInv, AbsentIsBlank, RowKept, RowGivenBack
    <2> QED BY <2>8, <2>9, <2>10, <2>11, <2>12 DEF OwnerInv
  <1> QED BY <1>5, <1>6

----------------------------------------------------------------------------
(* Deliveries, the clock and Celery Beat                                   *)

\* The claim takes a pending job, which nobody works on.
LEMMA OwnerClaim ==
  ASSUME OwnerInv, TypeInv', NEW w \in Workers, NEW j \in Jobs, Claim(w, j)
  PROVE  OwnerInv'
  <1>1. /\ UNCHANGED <<req, failed_jobs>> /\ job[j].status = "pending" /\ wk[w].phase = "idle"
        /\ \A v \in Workers \ {w} : wk'[v] = wk[v]
        /\ \A k \in Jobs \ {j} : job'[k] = job[k]
    BY DEF Claim, OwnerInv, TypeInv, TypeOK, ServiceTypeOK
  <1>2. /\ wk'[w].phase = "executing" /\ wk'[w].job = j /\ ~wk'[w].abandoned
        /\ wk'[w].retry_count = job[j].retry_count
    BY DEF Claim, IdleWorker, OwnerInv, TypeInv, TypeOK
  <1>3. /\ job'[j].status = "processing" /\ ~job'[j].old
        /\ job'[j].retry_count = job[j].retry_count
    BY DEF Claim, ClaimedRow, Row, OwnerInv, TypeInv, TypeOK, ServiceTypeOK
  <1>4. NobodyWorksOn(j)
    BY <1>1 DEF OwnerInv, OwnersHold, RowOfOwner, NobodyWorksOn
  <1>5. \A k \in Jobs \ {j} : NobodyWorksOn(k) => NobodyWorksOn(k)'
    BY <1>1, <1>2 DEF NobodyWorksOn, Working
  <1>6. NoDoubleProcessing'
    BY <1>1, <1>2, <1>4 DEF OwnerInv, NoDoubleProcessing, NobodyWorksOn, Working
  <1>7. OwnersHold'
    <2> SUFFICES ASSUME NEW v \in Workers
                 PROVE  /\ ~wk'[v].abandoned
                        /\ Working(v)' => RowOfOwner(job'[wk'[v].job], wk'[v].retry_count)
      BY DEF OwnersHold
    <2>1. CASE v = w
      BY <1>2, <1>3, <2>1 DEF RowOfOwner
    <2>2. CASE v # w
      <3>1. wk'[v] = wk[v] /\ ~wk[v].abandoned
        BY <1>1, <2>2 DEF OwnerInv, OwnersHold
      <3>2. Working(v) => wk[v].job \in Jobs \ {j} /\ RowOfOwner(job[wk[v].job], wk[v].retry_count)
        BY <1>4 DEF OwnerInv, OwnersHold, NobodyWorksOn, TypeInv, WorkerTargets, Working
      <3> QED BY <1>1, <3>1, <3>2 DEF Working
    <2> QED BY <2>1, <2>2
  <1>8. \A k \in Jobs : LettersOf(k)' = LettersOf(k)
    BY <1>1 DEF LettersOf
  <1>9. LettersAreIdle'
    <2> SUFFICES ASSUME "replay" \in UserOps, NEW k \in Jobs, NEW f \in LettersOf(k)
                 PROVE  /\ job'[k].status \in Resettable /\ NobodyWorksOn(k)'
                        /\ \A g \in LettersOf(k) : g = f
      BY <1>8 DEF LettersAreIdle, Resettable, CompletedIsReplayed
    <2>1. job[k].status \in Resettable /\ NobodyWorksOn(k) /\ \A g \in LettersOf(k) : g = f
      BY DEF OwnerInv, LettersAreIdle
    <2>2. k # j
      BY <1>1, <2>1 DEF Resettable
    <2> QED BY <1>1, <1>5, <2>1, <2>2
  <1>10. ResetsAreCurrent'
    <2> SUFFICES ASSUME NEW r \in Requests, req[r].op \in ResetOps, req[r].job \in Jobs
                 PROVE  ResetIsCurrent(r, req[r].job)'
      BY <1>1 DEF OwnerInv, ResetsAreCurrent
    <2>1. PICK k \in Jobs : k = req[r].job
      OBVIOUS
    <2>2. ResetIsCurrent(r, k)
      BY <2>1 DEF OwnerInv, ResetsAreCurrent
    <2>3. k # j
      BY <1>1, <2>2 DEF ResetIsCurrent, Resettable
    <2>4. NobodyWorksOn(k)' /\ job'[k] = job[k] /\ LettersOf(k)' = LettersOf(k)
      BY <1>1, <1>5, <1>8, <2>2, <2>3 DEF ResetIsCurrent
    <2>5. ResetIsCurrent(r, k)'
      BY <1>1, <2>2, <2>4 DEF ResetIsCurrent, Exists, Resettable
    <2> QED BY <1>1, <2>1, <2>5
  <1>11. AbsentIsBlank'
    BY <1>1, <1>3 DEF OwnerInv, AbsentIsBlank
  <1> QED BY <1>6, <1>7, <1>9, <1>10, <1>11 DEF OwnerInv

\* Executions, requests and dead letters are left alone.
LEMMA FrameQuiet ==
  ASSUME OwnerInv, UNCHANGED wk, \A r \in Requests : \/ req'[r] = req[r]
                                                    \/ req'[r].op \notin ResetOps \cup {"replay_new"},
         \A k \in Jobs : LettersOf(k)' \subseteq LettersOf(k),
         \A k \in Jobs : RowKept(k) \/ RowGivenBack(k) \/ RowDeleted(k)
  PROVE  OwnerQuiet
  <1>1. NobodyStarts
    BY DEF NobodyStarts, Working, OwnerInv, OwnersHold
  <1> QED BY <1>1 DEF OwnerQuiet

LEMMA DeletedQuiet ==
  ASSUME TypeInv, NEW j \in Jobs, DeleteRow(j)
  PROVE  /\ \A k \in Jobs : RowKept(k) \/ RowDeleted(k)
         /\ \A k \in Jobs : LettersOf(k)' \subseteq LettersOf(k)
  <1>1. \A f \in FailedIds :
          failed_jobs'[f] = IF failed_jobs[f].original_job_id = j
                            THEN [failed_jobs[f] EXCEPT !.original_job_id = None]
                            ELSE failed_jobs[f]
    BY DEF DeleteRow
  <1>2. \A f \in FailedIds :
          /\ failed_jobs'[f].exists = failed_jobs[f].exists
          /\ failed_jobs'[f].original_job_id =
               IF failed_jobs[f].original_job_id = j THEN None
               ELSE failed_jobs[f].original_job_id
    BY <1>1 DEF TypeInv, TypeOK, ServiceTypeOK, FailedRow
  <1>3. None \notin Jobs
    BY DownloadServiceAssumption
  <1>4. LettersOf(j)' = {}
    BY <1>2, <1>3 DEF LettersOf
  <1>5. \A k \in Jobs : LettersOf(k)' \subseteq LettersOf(k)
    BY <1>2, <1>3 DEF LettersOf
  <1>6. /\ \A k \in Jobs \ {j} : job'[k] = job[k]
        /\ job'[j].status = "deleted" /\ ~job'[j].old
    BY DEF DeleteRow, NoRow, TypeInv, TypeOK, ServiceTypeOK
  <1>7. \A k \in Jobs \ {j} : RowKept(k)
    BY <1>6 DEF RowKept
  <1>8. RowDeleted(j)
    BY <1>4, <1>6 DEF RowDeleted
  <1> QED BY <1>5, <1>7, <1>8

LEMMA OwnerBrokerQuiet ==
  ASSUME OwnerInv, TypeInv',
         \/ \E j \in Jobs : Clock(j) \/ CleanupUnlink(j) \/ \E w \in Workers : Skip(w, j)
         \/ \E f \in FailedIds : cleanup_dlq(f)
         \/ BeatStep
         \/ BeatTaskLost
  PROVE  OwnerQuiet
  <1>1. UNCHANGED <<wk, req>>
    BY DEF Skip, Clock, RowAges, RetryFallsDue, EtaElapses, CleanupUnlink, BeatStep,
           requeue_stuck_jobs, enqueue_pending, SweepPublish, EnqueuePublish, BeatTaskLost,
           serviceVars, pipelineVars, cleanup_dlq, CleanupCommit
  <1>2. ASSUME UNCHANGED failed_jobs PROVE \A k \in Jobs : LettersOf(k)' \subseteq LettersOf(k)
    BY <1>2 DEF LettersOf
  <1>3. ASSUME UNCHANGED <<job, failed_jobs>> PROVE OwnerQuiet
    BY <1>1, <1>2, <1>3, FrameQuiet DEF RowKept
  <1>4. ASSUME NEW j \in Jobs, RowAges(j) PROVE OwnerQuiet
    <2>1. NobodyWorksOn(j)
      BY <1>4 DEF RowAges, task_time_limit, stuck_timeout, Holds, OwnerInv, OwnersHold,
                  NobodyWorksOn, Working
    <2>2. \A k \in Jobs : /\ job'[k].status = job[k].status
                          /\ job'[k].retry_count = job[k].retry_count
                          /\ k # j => job'[k] = job[k]
      BY <1>4 DEF RowAges, Row, OwnerInv, TypeInv, TypeOK, ServiceTypeOK
    <2>3. \A k \in Jobs : RowKept(k)
      BY <2>1, <2>2 DEF RowKept
    <2> QED BY <1>1, <1>2, <1>4, <2>3, FrameQuiet DEF RowAges
  <1>5. ASSUME NEW j \in Jobs, RetryFallsDue(j) PROVE OwnerQuiet
    <2>1. \A k \in Jobs : RowKept(k)
      BY <1>5 DEF RetryFallsDue, Row, OwnerInv, TypeInv, TypeOK, ServiceTypeOK, RowKept
    <2> QED BY <1>1, <1>2, <1>5, <2>1, FrameQuiet DEF RetryFallsDue
  <1>6. CASE requeue_stuck_jobs
    <2>1. \A k \in Jobs : job[k].status = "processing" /\ job[k].old => NobodyWorksOn(k)'
      BY <1>1 DEF OwnerInv, OwnersHold, RowOfOwner, NobodyWorksOn, Working
    <2>2. \A k \in Jobs : RequeuedRow(job[k]).status = "pending"
      BY WrittenStatus DEF OwnerInv, TypeInv, TypeOK, ServiceTypeOK
    <2>3. \A k \in Jobs : RowKept(k) \/ RowGivenBack(k)
      BY <1>6, <2>1, <2>2 DEF requeue_stuck_jobs, RowKept, RowGivenBack
    <2> QED BY <1>1, <1>2, <1>6, <2>3, FrameQuiet DEF requeue_stuck_jobs
  <1>7. CASE CleanupCommit
    <2>1. CASE Exists(cleaner)
      <3>1. cleaner \in Jobs /\ DeleteRow(cleaner)
        BY <1>7, <2>1 DEF CleanupCommit, OwnerInv, TypeInv, TypeOK
      <3> QED BY <1>1, <3>1, DeletedQuiet, FrameQuiet DEF OwnerInv
    <2>2. CASE ~Exists(cleaner)
      BY <1>3, <1>7, <2>2 DEF CleanupCommit
    <2> QED BY <2>1, <2>2
  <1>8. ASSUME NEW f \in FailedIds, cleanup_dlq(f) PROVE OwnerQuiet
    <2>1. \A k \in Jobs : LettersOf(k)' \subseteq LettersOf(k)
      BY <1>8 DEF cleanup_dlq, LettersOf, NoFailedRow, OwnerInv, TypeInv, TypeOK, ServiceTypeOK
    <2> QED BY <1>1, <1>8, <2>1, FrameQuiet DEF cleanup_dlq, RowKept
  <1> QED BY <1>3, <1>4, <1>5, <1>6, <1>7, <1>8
          DEF Skip, Clock, EtaElapses, CleanupUnlink, BeatStep, enqueue_pending, SweepPublish,
              EnqueuePublish, BeatTaskLost, serviceVars
----------------------------------------------------------------------------
(* Requests                                                                *)

\* The first steps of a reset: the request has found the job as it is.
LEMMA ResetBegins ==
  ASSUME OwnerInv, TypeInv', UNCHANGED <<job, failed_jobs, wk>>, NEW r \in Requests,
         \A s \in Requests \ {r} : req'[s] = req[s],
         req'[r].op = "retry" => "retry" \in UserOps,
         req'[r].op \in {"replay_load", "replay_write", "replay_new"} => "replay" \in UserOps,
         \A k \in Jobs : req'[r].op \in ResetOps /\ req'[r].job = k =>
           /\ job[k].status \in Resettable \cup {"deleted"}
           /\ NobodyWorksOn(k)
           /\ req'[r].op # "retry" => LettersOf(k) \subseteq {req'[r].failed}
           /\ req'[r].op # "replay_load" => req'[r].snap = job[k]
  PROVE  OwnerInv'
  <1>1. NoDoubleProcessing' /\ OwnersHold' /\ AbsentIsBlank'
    BY DEF OwnerInv, NoDoubleProcessing, OwnersHold, AbsentIsBlank, Working
  <1>2. \A k \in Jobs : LettersOf(k)' = LettersOf(k) /\ (NobodyWorksOn(k) => NobodyWorksOn(k)')
    BY DEF LettersOf, NobodyWorksOn, Working
  <1>3. LettersAreIdle'
    BY <1>2 DEF OwnerInv, LettersAreIdle, Resettable
  <1>4. ResetsAreCurrent'
    <2> SUFFICES ASSUME NEW s \in Requests
                 PROVE  /\ req'[s].op = "retry" => "retry" \in UserOps
                        /\ req'[s].op \in {"replay_load", "replay_write", "replay_new"}
                             => "replay" \in UserOps
                        /\ req'[s].op \in ResetOps /\ req'[s].job \in Jobs
                             => ResetIsCurrent(s, req[s].job)'
      BY DEF ResetsAreCurrent, ResetOps
    <2>1. CASE s = r
      <3>1. ASSUME NEW k \in Jobs, req'[r].op \in ResetOps, req'[r].job = k
            PROVE  ResetIsCurrent(r, k)'
        BY <1>2, <3>1 DEF ResetIsCurrent, Resettable, Exists
      <3> QED BY <2>1, <3>1
    <2>2. CASE s # r
      <3>1. ASSUME NEW k \in Jobs, req[s].op \in ResetOps, req[s].job = k
            PROVE  ResetIsCurrent(s, k)'
        <4>1. ResetIsCurrent(s, k)
          BY <3>1 DEF OwnerInv, ResetsAreCurrent
        <4>2. req'[s] = req[s]
          BY <2>2
        <4> QED BY <1>2, <4>1, <4>2 DEF ResetIsCurrent, Resettable, Exists
      <3> QED BY <2>2, <3>1 DEF OwnerInv, ResetsAreCurrent
    <2> QED BY <2>1, <2>2
  <1> QED BY <1>1, <1>3, <1>4 DEF OwnerInv

LEMMA OwnerRetryRead ==
  ASSUME OwnerInv, TypeInv', UNCHANGED pipelineVars, NEW r \in Requests, NEW j \in Jobs,
         RetryRead(r, j)
  PROVE  OwnerInv'
  <1>1. /\ UNCHANGED <<job, failed_jobs, wk>> /\ \A s \in Requests \ {r} : req'[s] = req[s]
        /\ req'[r].op = "retry" /\ req'[r].job = j /\ req'[r].snap = job[j]
        /\ "retry" \in UserOps /\ job[j].status \in {"failed", "deferred"}
    BY DEF RetryRead, IdleRequest, pipelineVars, OwnerInv, TypeInv, TypeOK, ServiceTypeOK
  <1>2. NobodyWorksOn(j)
    BY <1>1 DEF OwnerInv, OwnersHold, RowOfOwner, NobodyWorksOn
  <1> QED BY <1>1, <1>2, ResetBegins DEF Resettable

LEMMA OwnerReplayFind ==
  ASSUME OwnerInv, TypeInv', UNCHANGED pipelineVars, NEW r \in Requests, NEW f \in FailedIds,
         ReplayFind(r, f)
  PROVE  OwnerInv'
  <1>1. /\ UNCHANGED <<job, failed_jobs, wk>> /\ \A s \in Requests \ {r} : req'[s] = req[s]
        /\ req'[r].op = "replay_load" /\ req'[r].job = failed_jobs[f].original_job_id
        /\ req'[r].failed = f
        /\ "replay" \in UserOps /\ failed_jobs[f].exists
    BY DEF ReplayFind, IdleRequest, pipelineVars, OwnerInv, TypeInv, TypeOK, ServiceTypeOK
  <1>2. ASSUME NEW k \in Jobs, req'[r].job = k
        PROVE  job[k].status \in Resettable /\ NobodyWorksOn(k) /\ LettersOf(k) \subseteq {f}
    <2>1. f \in LettersOf(k)
      BY <1>1, <1>2 DEF LettersOf
    <2> QED BY <1>1, <2>1 DEF OwnerInv, LettersAreIdle
  <1> QED BY <1>1, <1>2, ResetBegins

LEMMA OwnerReplayLoad ==
  ASSUME OwnerInv, TypeInv', UNCHANGED pipelineVars, NEW r \in Requests, ReplayLoad(r)
  PROVE  OwnerInv'
  <1>1. /\ UNCHANGED <<job, failed_jobs, wk>> /\ \A s \in Requests \ {r} : req'[s] = req[s]
        /\ req[r].op = "replay_load" /\ "replay" \in UserOps /\ req[r] \in RequestState
    BY DEF ReplayLoad, pipelineVars, OwnerInv, TypeInv, TypeOK, ServiceTypeOK, ResetsAreCurrent
  <1>2. CASE req[r].job # None /\ Exists(req[r].job)
    <2>1. req' = [req EXCEPT ![r].op = "replay_write", ![r].snap = job[req[r].job]]
      BY <1>2 DEF ReplayLoad
    <2>2. /\ req'[r].op = "replay_write" /\ req'[r].snap = job[req[r].job]
          /\ req'[r].job = req[r].job /\ req'[r].failed = req[r].failed
      BY <1>1, <2>1 DEF RequestState, OwnerInv, TypeInv, TypeOK, ServiceTypeOK
    <2>3. ASSUME NEW k \in Jobs, req[r].job = k PROVE ResetIsCurrent(r, k)
      BY <1>1, <2>3 DEF OwnerInv, ResetsAreCurrent, ResetOps
    <2>4. ASSUME NEW k \in Jobs, req'[r].job = k
          PROVE  /\ job[k].status \in Resettable \cup {"deleted"} /\ NobodyWorksOn(k)
                 /\ LettersOf(k) \subseteq {req'[r].failed} /\ req'[r].snap = job[k]
      BY <1>1, <2>2, <2>3, <2>4 DEF ResetIsCurrent
    <2> QED BY <1>1, <2>2, <2>4, ResetBegins
  <1>3. CASE ~(req[r].job # None /\ Exists(req[r].job))
    <2>1. req' = [req EXCEPT ![r].op = "replay_new", ![r].job = None]
      BY <1>3 DEF ReplayLoad
    <2>2. req'[r].op = "replay_new"
      BY <1>1, <2>1 DEF RequestState, OwnerInv, TypeInv, TypeOK, ServiceTypeOK
    <2> QED BY <1>1, <2>2, ResetBegins DEF ResetOps
  <1> QED BY <1>2, <1>3

\* What a request that ends does to the others.
LEMMA FinishFrame ==
  ASSUME TypeInv, NEW r \in Requests, Finish(r)
  PROVE  req'[r].op = "idle" /\ \A s \in Requests \ {r} : req'[s] = req[s]
  BY DEF Finish, IdleRequest, TypeInv, TypeOK, ServiceTypeOK

\* With one request at a time and retries kept apart from replays, the job that
\* is reset has no execution and, afterwards, no dead letter that counts.
LEMMA OwnerReset ==
  ASSUME ResetsAreExclusive, OwnerInv, TypeInv', UNCHANGED pipelineVars, NEW r \in Requests,
         RetryWrite(r) \/ ReplayWrite(r)
  PROVE  OwnerInv'
  <1>0. PICK j \in Jobs : j = req[r].job
    BY DEF RetryWrite, ReplayWrite, OwnerInv, TypeInv, RequestTargets
  <1>1. /\ UNCHANGED wk /\ req[r].op \in {"retry", "replay_write"}
        /\ req'[r].op = "idle" /\ \A s \in Requests \ {r} : req'[s] = req[s]
    BY FinishFrame DEF RetryWrite, ReplayWrite, pipelineVars, OwnerInv
  <1>2. ResetIsCurrent(r, j)
    BY <1>0, <1>1 DEF OwnerInv, ResetsAreCurrent, ResetOps
  <1>3. NobodyWorksOn(j)
    BY <1>2 DEF ResetIsCurrent
  <1>4. CASE ~Exists(j)
    <2>1. UNCHANGED <<job, failed_jobs>>
      BY <1>0, <1>4 DEF RetryWrite, ReplayWrite, ResetAndCommit
    <2>2. OwnerQuiet
      BY <1>1, <2>1, FrameQuiet DEF RowKept, LettersOf, ResetOps
    <2> QED BY <2>2, OwnerQuietStep
  <1>5. CASE Exists(j)
    <2>1. /\ \A k \in Jobs \ {j} : job'[k] = job[k]
          /\ job'[j].status # "absent"
      <3>1. job' = [job EXCEPT ![j] = Flush(@, req[r].snap, reset_job_for_replay(req[r].snap))]
        BY <1>0, <1>5 DEF RetryWrite, ReplayWrite, ResetAndCommit
      <3>2. job[j] \in Row /\ req[r].snap \in Row
        BY DEF OwnerInv, TypeInv, TypeOK, ServiceTypeOK, RequestState
      <3> QED BY <1>5, <3>1, <3>2, FlushedStatus
              DEF Exists, OwnerInv, TypeInv, TypeOK, ServiceTypeOK
    <2>2. /\ \A k \in Jobs : LettersOf(k)' \subseteq LettersOf(k)
          /\ req[r].op = "replay_write" => LettersOf(j)' = {}
      <3>1. CASE RetryWrite(r)
        BY <3>1, <1>0, <1>5 DEF RetryWrite, ResetAndCommit, LettersOf
      <3>2. CASE ReplayWrite(r)
        <4>1. failed_jobs' = [f \in FailedIds |->
                                IF f \in {req[r].failed} THEN NoFailedRow ELSE failed_jobs[f]]
          BY <1>0, <1>5, <3>2 DEF ReplayWrite, ResetAndCommit
        <4>2. LettersOf(j) \subseteq {req[r].failed}
          BY <1>2, <3>2 DEF ResetIsCurrent, ReplayWrite
        <4> QED BY <4>1, <4>2 DEF LettersOf, NoFailedRow
      <3> QED BY <3>1, <3>2
    <2>3. /\ \A s \in Requests : s = r
          /\ req[r].op = "retry" => "replay" \notin UserOps
      BY <1>1 DEF ResetsAreExclusive, OwnerInv, ResetsAreCurrent
    <2>4. NoDoubleProcessing'
      BY <1>1 DEF OwnerInv, NoDoubleProcessing, Working
    <2>5. OwnersHold'
      <3> SUFFICES ASSUME NEW w \in Workers, Working(w)
                   PROVE  RowOfOwner(job'[wk[w].job], wk[w].retry_count)
        BY <1>1 DEF OwnerInv, OwnersHold, Working
      <3>1. wk[w].job \in Jobs \ {j}
        BY <1>3 DEF NobodyWorksOn, OwnerInv, TypeInv, WorkerTargets, Working
      <3> QED BY <2>1, <3>1 DEF OwnerInv, OwnersHold
    <2>6. LettersAreIdle'
      <3> SUFFICES ASSUME "replay" \in UserOps, NEW k \in Jobs, NEW f \in LettersOf(k)'
                   PROVE  /\ job'[k].status \in Resettable /\ NobodyWorksOn(k)'
                          /\ \A g \in LettersOf(k)' : g = f
        BY DEF LettersAreIdle, Resettable, CompletedIsReplayed
      <3>1. k # j
        BY <1>1, <2>2, <2>3
      <3>2. NobodyWorksOn(k) => NobodyWorksOn(k)'
        BY <1>1 DEF NobodyWorksOn, Working
      <3> QED BY <2>1, <2>2, <3>1, <3>2 DEF OwnerInv, LettersAreIdle
    <2>7. ResetsAreCurrent'
      BY <1>1, <2>3 DEF ResetsAreCurrent, ResetOps
    <2>8. AbsentIsBlank'
      BY <2>1 DEF OwnerInv, AbsentIsBlank
    <2> QED BY <2>4, <2>5, <2>6, <2>7, <2>8 DEF OwnerInv
  <1> QED BY <1>4, <1>5

LEMMA InsertedQuiet ==
  ASSUME OwnerInv, UNCHANGED wk, NEW j \in Jobs, InsertJob(j)
  PROVE  \A k \in Jobs : RowKept(k) \/ RowGivenBack(k)
  <1>1. NobodyWorksOn(j)'
    BY DEF InsertJob, OwnerInv, OwnersHold, RowOfOwner, NobodyWorksOn, Working
  <1>2. /\ \A k \in Jobs \ {j} : job'[k] = job[k]
        /\ job'[j].status = "pending"
    BY DEF InsertJob, NoRow, OwnerInv, TypeInv, TypeOK, ServiceTypeOK
  <1>3. RowGivenBack(j)
    BY <1>1, <1>2 DEF InsertJob, RowGivenBack
  <1> QED BY <1>2, <1>3 DEF RowKept

LEMMA OwnerServiceQuiet ==
  ASSUME OwnerInv, TypeInv', UNCHANGED pipelineVars, NEW r \in Requests,
         \/ \E j \in Jobs : create(r, j) \/ ReplayNew(r, j)
              \/ DeleteRead(r, j, "delete") \/ DeleteRead(r, j, "web_delete")
         \/ SelectOutboxId(r) \/ enqueue_job(r) \/ CloseOutboxRow(r)
         \/ DeleteUnlink(r) \/ DeleteCommit(r)
         \/ EnqueueFails(r) \/ DeleteUnlinkFails(r) \/ RequestLost(r)
  PROVE  OwnerQuiet
  <1>1. UNCHANGED wk
    BY DEF pipelineVars
  <1>2. \A s \in Requests : \/ req'[s] = req[s]
                            \/ req'[s].op \notin ResetOps \cup {"replay_new"}
    <2>1. ASSUME Finish(r) PROVE \A s \in Requests : req'[s] = req[s] \/ req'[s].op = "idle"
      BY <2>1, FinishFrame DEF OwnerInv
    <2>2. ASSUME NEW op, op \notin ResetOps \cup {"replay_new"}, NEW state,
                 req' = [req EXCEPT ![r] = state], state.op = op
          PROVE  \A s \in Requests : \/ req'[s] = req[s]
                                     \/ req'[s].op \notin ResetOps \cup {"replay_new"}
      BY <2>2 DEF OwnerInv, TypeInv, TypeOK, ServiceTypeOK
    <2>3. req[r] \in RequestState /\ IdleRequest.op = "idle"
      BY DEF OwnerInv, TypeInv, TypeOK, ServiceTypeOK, IdleRequest
    <2>4. ASSUME NEW j \in Jobs, create(r, j) \/ DeleteRead(r, j, "delete")
                                  \/ DeleteRead(r, j, "web_delete")
          PROVE  \A s \in Requests : \/ req'[s] = req[s]
                                     \/ req'[s].op \notin ResetOps \cup {"replay_new"}
      BY <2>4 DEF create, DeleteRead, IdleRequest, ResetOps, OwnerInv, TypeInv, TypeOK,
                  ServiceTypeOK
    <2>5. CASE SelectOutboxId(r) \/ enqueue_job(r) \/ DeleteUnlink(r)
      BY <2>3, <2>5 DEF SelectOutboxId, enqueue_job, DeleteUnlink, RequestState, ResetOps,
                        OwnerInv, TypeInv, TypeOK, ServiceTypeOK
    <2>6. CASE DeleteUnlinkFails(r)
      <3>1. CASE req[r].op = "delete"
        BY <2>1, <2>6, <3>1 DEF DeleteUnlinkFails, ResetOps
      <3>2. CASE req[r].op # "delete"
        <4>1. req' = [req EXCEPT ![r].op = "delete_row"]
          BY <2>6, <3>2 DEF DeleteUnlinkFails
        <4> QED BY <2>3, <4>1 DEF RequestState, ResetOps, OwnerInv, TypeInv, TypeOK, ServiceTypeOK
      <3> QED BY <3>1, <3>2
    <2>7. CASE Finish(r)
      BY <2>1, <2>7 DEF ResetOps
    <2> QED BY <2>4, <2>5, <2>6, <2>7
            DEF ReplayNew, CloseOutboxRow, DeleteCommit, EnqueueFails, RequestLost
  <1>3. ASSUME UNCHANGED failed_jobs PROVE \A k \in Jobs : LettersOf(k)' \subseteq LettersOf(k)
    BY <1>3 DEF LettersOf
  <1>4. ASSUME UNCHANGED <<job, failed_jobs>> PROVE OwnerQuiet
    BY <1>1, <1>2, <1>3, <1>4, FrameQuiet DEF RowKept
  <1>5. ASSUME NEW j \in Jobs, create(r, j) PROVE OwnerQuiet
    BY <1>1, <1>2, <1>3, <1>5, InsertedQuiet, FrameQuiet DEF create
  <1>6. ASSUME NEW j \in Jobs, ReplayNew(r, j) PROVE OwnerQuiet
    <2>1. \A k \in Jobs : LettersOf(k)' \subseteq LettersOf(k)
      BY <1>6 DEF ReplayNew, LettersOf, NoFailedRow, OwnerInv, TypeInv, TypeOK, ServiceTypeOK
    <2> QED BY <1>1, <1>2, <1>6, <2>1, InsertedQuiet, FrameQuiet DEF ReplayNew
  <1>7. CASE DeleteCommit(r)
    <2>1. CASE Exists(req[r].job)
      <3>1. PICK j \in Jobs : DeleteRow(j)
        BY <1>7, <2>1 DEF DeleteCommit, OwnerInv, TypeInv, RequestTargets
      <3> QED BY <1>1, <1>2, <3>1, DeletedQuiet, FrameQuiet DEF OwnerInv
    <2>2. CASE ~Exists(req[r].job)
      BY <1>4, <1>7, <2>2 DEF DeleteCommit
    <2> QED BY <2>1, <2>2
  <1> QED BY <1>4, <1>5, <1>6, <1>7
          DEF DeleteRead, SelectOutboxId, enqueue_job, CloseOutboxRow, DeleteUnlink, EnqueueFails,
              DeleteUnlinkFails, RequestLost

----------------------------------------------------------------------------
(* Two executions never work on the same job                               *)

LEMMA OwnerInit == Init => OwnerInv
  <1> SUFFICES ASSUME Init PROVE OwnerInv
    OBVIOUS
  <1>1. TypeInv
    BY TypeInit
  <1>2. NoDoubleProcessing /\ OwnersHold
    BY DEF Init, NoDoubleProcessing, OwnersHold, Working, IdleWorker
  <1>3. LettersAreIdle
    BY DEF Init, ServiceInit, LettersAreIdle, LettersOf, NoFailedRow
  <1>4. ResetsAreCurrent
    BY DEF Init, ServiceInit, ResetsAreCurrent, ResetOps, IdleRequest
  <1>5. AbsentIsBlank
    BY DEF Init, ServiceInit, AbsentIsBlank, NoRow
  <1> QED BY <1>1, <1>2, <1>3, <1>4, <1>5 DEF OwnerInv

LEMMA OwnerStep ==
  ASSUME ResetsAreExclusive
  PROVE  OwnerInv /\ [Next]_vars => OwnerInv'
  <1> SUFFICES ASSUME OwnerInv, [Next]_vars PROVE OwnerInv'
    OBVIOUS
  <1>1. TypeInv'
    BY TypeStep DEF OwnerInv
  <1>2. ASSUME OwnerQuiet PROVE OwnerInv'
    BY <1>1, <1>2, OwnerQuietStep
  <1>3. ASSUME UNCHANGED pipelineVars, NEW r \in Requests,
               \/ \E j \in Jobs : create(r, j) \/ RetryRead(r, j)
                    \/ DeleteRead(r, j, "delete") \/ DeleteRead(r, j, "web_delete")
               \/ \E f \in FailedIds : ReplayFind(r, f)
               \/ RequestStep(r)
               \/ EnqueueFails(r) \/ DeleteUnlinkFails(r) \/ RequestLost(r)
        PROVE  OwnerInv'
    <2>1. CASE \E j \in Jobs : RetryRead(r, j)
      BY <1>1, <1>3, <2>1, OwnerRetryRead
    <2>2. CASE \E f \in FailedIds : ReplayFind(r, f)
      BY <1>1, <1>3, <2>2, OwnerReplayFind
    <2>3. CASE ReplayLoad(r)
      BY <1>1, <1>3, <2>3, OwnerReplayLoad
    <2>4. CASE RetryWrite(r) \/ ReplayWrite(r)
      BY <1>1, <1>3, <2>4, OwnerReset
    <2> QED BY <1>1, <1>2, <1>3, <2>1, <2>2, <2>3, <2>4, OwnerServiceQuiet DEF RequestStep
  <1>4. ASSUME NEW w \in Workers, WorkerStep(w) \/ WorkerFault(w) PROVE OwnerInv'
    <2>1. CASE move_to_dlq(w)
      BY <1>1, <2>1, OwnerMoveToDlq
    <2>2. CASE ~move_to_dlq(w)
      BY <1>1, <1>2, <1>4, <2>2, OwnerWorkerQuiet
    <2> QED BY <2>1, <2>2
  <1>5. ASSUME NEW j \in Jobs, Deliver(j) PROVE OwnerInv'
    <2>1. CASE \E w \in Workers : Claim(w, j)
      BY <1>1, <2>1, OwnerClaim
    <2>2. CASE \E w \in Workers : Skip(w, j)
      BY <1>1, <1>2, <2>2, OwnerBrokerQuiet
    <2> QED BY <1>5, <2>1, <2>2 DEF Deliver
  <1>6. CASE \/ \E j \in Jobs : Clock(j) \/ CleanupUnlink(j)
             \/ \E f \in FailedIds : cleanup_dlq(f)
             \/ BeatStep
             \/ BeatTaskLost
    BY <1>1, <1>2, <1>6, OwnerBrokerQuiet
  <1>7. CASE UNCHANGED vars
    <2>1. OwnerQuiet
      BY <1>7, FrameQuiet DEF vars, serviceVars, pipelineVars, RowKept, LettersOf
    <2> QED BY <1>2, <2>1
  <1> QED BY <1>3, <1>4, <1>5, <1>6, <1>7 DEF Next, ServiceNext

\* Two executions never work on the same job, for any number of workers, jobs
\* and messages, whatever is redelivered, swept, lost or deleted: the claim is an
\* atomic UPDATE, the sweep's cutoff outlives the time limit, and a job whose
\* execution still runs is neither retried nor replayed.
THEOREM ExecutionsExclude ==
  ASSUME ResetsAreExclusive
  PROVE  Spec => []NoDoubleProcessing
  <1>1. OwnerInv => NoDoubleProcessing
    BY DEF OwnerInv
  <1>2. OwnerInv /\ [Next]_vars => OwnerInv'
    BY OwnerStep
  <1> QED BY <1>1, <1>2, OwnerInit, PTL DEF Spec
----------------------------------------------------------------------------
(* Attempts are never handed back                                          *)

\* What an execution writes counts on from what the row holds.
LEMMA WriteCountsOn ==
  ASSUME OwnerInv, NEW w \in Workers, Working(w), NEW j, j = wk[w].job
  PROVE  /\ WhereProcessing(job[j], CompletedRow(job[j], wk[w].file)).retry_count = job[j].retry_count
         /\ WhereProcessing(job[j], FailedRowOf(job[j])).retry_count = job[j].retry_count
         /\ WhereProcessing(job[j], RequeuedRow(job[j])).retry_count = job[j].retry_count
         /\ WhereProcessing(job[j], RetryRow(job[j], wk[w].retry_count)).retry_count
              = IF job[j].status = "processing" THEN job[j].retry_count + 1 ELSE job[j].retry_count
  <1>1. job[j] \in Row /\ RowOfOwner(job[j], wk[w].retry_count)
    BY DEF OwnerInv, TypeInv, TypeOK, ServiceTypeOK, WorkerTargets, Working, OwnersHold
  <1> QED BY <1>1 DEF Row, RowOfOwner, WhereProcessing, CompletedRow, FailedRowOf, RequeuedRow, RetryRow

\* A job's retry budget is never handed back by a worker: every execution writes
\* retry_count from the value its claim returned, and while it runs nobody else
\* has moved that count.
THEOREM AttemptsAreKept ==
  ASSUME ResetsAreExclusive
  PROVE  Spec => AttemptsNeverRefunded
  <1> DEFINE A == \A j \in Jobs : job'[j].retry_count < job[j].retry_count
                    => req' # req \/ job'[j].status = "deleted"
  <1>1. OwnerInv /\ [Next]_vars => [A]_vars
    <2> SUFFICES ASSUME OwnerInv, Next, NEW k \in Jobs, job'[k].retry_count < job[k].retry_count,
                        req' = req, job'[k].status # "deleted"
                 PROVE  FALSE
      OBVIOUS
    <2>1. job[k] \in Row /\ job[k].retry_count \in Nat /\ ~(job[k].retry_count < job[k].retry_count)
      BY DEF OwnerInv, TypeInv, TypeOK, ServiceTypeOK, Row
    <2>2. job'[k].retry_count # job[k].retry_count
      BY <2>1
    <2>3. CASE ServiceNext
      <3>1. PICK r \in Requests :
               \/ \E j \in Jobs : create(r, j) \/ RetryRead(r, j)
                    \/ DeleteRead(r, j, "delete") \/ DeleteRead(r, j, "web_delete")
               \/ \E f \in FailedIds : ReplayFind(r, f)
               \/ RequestStep(r)
               \/ EnqueueFails(r) \/ DeleteUnlinkFails(r) \/ RequestLost(r)
        BY <2>3 DEF ServiceNext
      <3>2. \A j \in Jobs : ~create(r, j)
        BY DEF create, IdleRequest, OwnerInv, TypeInv, TypeOK, ServiceTypeOK
      <3>3. req[r].op # "idle" => ~Finish(r)
        BY DEF Finish, IdleRequest, OwnerInv, TypeInv, TypeOK, ServiceTypeOK
      <3> QED BY <2>2, <3>1, <3>2, <3>3
              DEF RetryRead, DeleteRead, ReplayFind, RequestStep, SelectOutboxId, enqueue_job,
                  CloseOutboxRow, RetryWrite, ReplayLoad, ReplayWrite, ReplayNew, DeleteUnlink,
                  DeleteCommit, EnqueueFails, DeleteUnlinkFails, RequestLost
    <2>4. ASSUME NEW w \in Workers, WorkerStep(w) \/ WorkerFault(w) PROVE FALSE
      <3>1. PICK j : j = wk[w].job
        OBVIOUS
      <3>2. ASSUME Working(w), NEW row, job' = [job EXCEPT ![j] = row],
                   row.retry_count \in {job[j].retry_count, job[j].retry_count + 1}
            PROVE  FALSE
        <4>1. j \in Jobs /\ job[j].retry_count \in Nat
          BY <3>1, <3>2 DEF OwnerInv, TypeInv, TypeOK, ServiceTypeOK, WorkerTargets, Working, Row
        <4>2. job'[j].retry_count \in {job[j].retry_count, job[j].retry_count + 1}
          BY <3>2, <4>1 DEF OwnerInv, TypeInv, TypeOK, ServiceTypeOK
        <4>3. k # j => job'[k] = job[k]
          BY <3>2, <4>1 DEF OwnerInv, TypeInv, TypeOK, ServiceTypeOK
        <4> QED BY <2>1, <4>1, <4>2, <4>3
      <3>3. job' # job
        BY <2>2
      <3>4. ~Complete(w) /\ ~move_to_dlq(w) /\ ~Cancelled(w)
            /\ \A cap \in CategoryCaps : ~CompletionFails(w, cap)
        BY <3>1, <3>2, <3>3, WriteCountsOn
        DEF Complete, move_to_dlq, Cancelled, CompletionFails, Working
      <3>5. ~ScheduleRetry(w)
        BY <3>1, <3>2, WriteCountsOn DEF ScheduleRetry, Working
      <3> QED BY <2>4, <3>3, <3>4, <3>5
              DEF WorkerStep, WorkerFault, ExtractionSucceeds, ExtractionFails, PublishRetry,
                  WorkerLost, TaskAborts, SoftTimeLimit, serviceVars
    <2>5. ASSUME NEW w \in Workers, NEW j \in Jobs, Claim(w, j) PROVE FALSE
      BY <2>2, <2>5 DEF Claim, ClaimedRow, Row, OwnerInv, TypeInv, TypeOK, ServiceTypeOK
    <2>6. ASSUME NEW j \in Jobs, RowAges(j) \/ RetryFallsDue(j) PROVE FALSE
      <3>1. CASE RowAges(j)
        BY <2>2, <3>1 DEF RowAges, Row, OwnerInv, TypeInv, TypeOK, ServiceTypeOK
      <3>2. CASE RetryFallsDue(j)
        BY <2>2, <3>2 DEF RetryFallsDue, Row, OwnerInv, TypeInv, TypeOK, ServiceTypeOK
      <3> QED BY <2>6, <3>1, <3>2
    <2>7. CASE requeue_stuck_jobs
      BY <2>2, <2>7 DEF requeue_stuck_jobs, RequeuedRow, Row, OwnerInv, TypeInv, TypeOK, ServiceTypeOK
    <2>8. CASE CleanupCommit
      BY <2>2, <2>8 DEF CleanupCommit, DeleteRow, NoRow, OwnerInv, TypeInv, TypeOK, ServiceTypeOK
    <2> QED BY <2>2, <2>3, <2>4, <2>5, <2>6, <2>7, <2>8
            DEF Next, Deliver, Skip, Clock, EtaElapses, CleanupUnlink, cleanup_dlq, BeatStep,
                enqueue_pending, SweepPublish, EnqueuePublish, BeatTaskLost, serviceVars
  <1>2. OwnerInv /\ [Next]_vars => OwnerInv'
    BY OwnerStep
  <1> QED BY <1>1, <1>2, OwnerInit, PTL DEF Spec, AttemptsNeverRefunded

\* A dead letter leaves the table by a replay only together with a job becoming
\* pending: the replay finds its original as it loaded it, out of pending, or
\* inserts a new job for it (replay_failed).
THEOREM ReplayedWithItsLetter ==
  ASSUME ResetsAreExclusive, "cleanup_dlq" \notin BeatTasks
  PROVE  Spec => DeadLetterReplayed
  <1> DEFINE A == \A f \in FailedIds : failed_jobs[f].exists /\ ~failed_jobs'[f].exists
                    => \E j \in Jobs : job[j].status # "pending" /\ job'[j].status = "pending"
  <1>1. OwnerInv /\ [Next]_vars => [A]_vars
    <2> SUFFICES ASSUME OwnerInv, Next, NEW f \in FailedIds,
                        failed_jobs[f].exists, ~failed_jobs'[f].exists
                 PROVE  \E j \in Jobs : job[j].status # "pending" /\ job'[j].status = "pending"
      OBVIOUS
    <2>1. failed_jobs' # failed_jobs
      OBVIOUS
    <2>2. \A j \in Jobs : ~DeleteRow(j)
      BY DEF DeleteRow, OwnerInv, TypeInv, TypeOK, ServiceTypeOK, FailedRow
    <2>3. ASSUME NEW w \in Workers, move_to_dlq(w) PROVE FALSE
      <3>1. InsertFailedJob(wk[w].job)
        BY <2>1, <2>3 DEF move_to_dlq
      <3>2. PICK g \in FailedIds : failed_jobs' = [failed_jobs EXCEPT ![g] =
                                     [exists |-> TRUE, original_job_id |-> wk[w].job]]
        BY <3>1 DEF InsertFailedJob
      <3> QED BY <3>2 DEF OwnerInv, TypeInv, TypeOK, ServiceTypeOK
    <2>4. ASSUME NEW r \in Requests, RetryWrite(r) PROVE FALSE
      BY <2>4 DEF RetryWrite, ResetAndCommit
    <2>5. ASSUME NEW r \in Requests, ReplayWrite(r)
          PROVE  \E j \in Jobs : job[j].status # "pending" /\ job'[j].status = "pending"
      <3>1. PICK j \in Jobs : j = req[r].job
        BY <2>5 DEF ReplayWrite, OwnerInv, TypeInv, RequestTargets
      <3>2. Exists(j)
        BY <2>1, <2>5, <3>1 DEF ReplayWrite, ResetAndCommit
      <3>3. ResetIsCurrent(r, j)
        BY <2>5, <3>1 DEF OwnerInv, ResetsAreCurrent, ResetOps, ReplayWrite
      <3>4. job[j].status # "pending" /\ req[r].snap.status # "pending"
        BY <2>5, <3>2, <3>3 DEF ResetIsCurrent, Resettable, Exists, ReplayWrite
      <3>5. job[j] \in Row /\ req[r].snap \in Row
        BY DEF OwnerInv, TypeInv, TypeOK, ServiceTypeOK, RequestState
      <3>6. job' = [job EXCEPT ![j] = Flush(@, req[r].snap, reset_job_for_replay(req[r].snap))]
        BY <2>5, <3>1, <3>2 DEF ReplayWrite, ResetAndCommit
      <3>7. job'[j].status = "pending"
        BY <3>4, <3>5, <3>6, FlushedStatus DEF OwnerInv, TypeInv, TypeOK, ServiceTypeOK
      <3> QED BY <3>4, <3>7
    <2>6. ASSUME NEW r \in Requests, NEW j \in Jobs, ReplayNew(r, j)
          PROVE  job[j].status # "pending" /\ job'[j].status = "pending"
      BY <2>6 DEF ReplayNew, InsertJob, NoRow, OwnerInv, TypeInv, TypeOK, ServiceTypeOK
    <2>7. ~CleanupCommit /\ \A r \in Requests : ~DeleteCommit(r)
      <3>1. \A r \in Requests : req[r].op = "delete_row" => req[r].job \in Jobs
        BY DEF OwnerInv, TypeInv, RequestTargets
      <3> QED BY <2>1, <2>2, <3>1
              DEF CleanupCommit, DeleteCommit, OwnerInv, TypeInv, TypeOK
    <2>8. \A g \in FailedIds : ~cleanup_dlq(g)
      BY DEF cleanup_dlq
    <2>9. CASE ServiceNext
      BY <2>1, <2>4, <2>5, <2>6, <2>7, <2>9
      DEF ServiceNext, create, RetryRead, DeleteRead, ReplayFind, RequestStep, SelectOutboxId,
          enqueue_job, CloseOutboxRow, ReplayLoad, DeleteUnlink, EnqueueFails, DeleteUnlinkFails,
          RequestLost
    <2>10. \A w \in Workers : ~WorkerStep(w) /\ ~WorkerFault(w)
      BY <2>1, <2>3 DEF WorkerStep, WorkerFault, ExtractionSucceeds, ExtractionFails, Complete,
           CompletionFails, ScheduleRetry, PublishRetry, Cancelled, WorkerLost, TaskAborts,
           SoftTimeLimit, serviceVars
    <2> QED BY <2>1, <2>7, <2>8, <2>9, <2>10
            DEF Next, Deliver, Claim, Skip, Clock, RowAges, RetryFallsDue, EtaElapses, CleanupUnlink,
                BeatStep, requeue_stuck_jobs, enqueue_pending, SweepPublish, EnqueuePublish,
                BeatTaskLost, serviceVars
  <1>2. OwnerInv /\ [Next]_vars => OwnerInv'
    BY OwnerStep
  <1> QED BY <1>1, <1>2, OwnerInit, PTL DEF Spec, DeadLetterReplayed
----------------------------------------------------------------------------
(* The pipeline implements JobLifecycle                                    *)

\* An attempt that is not final has budget left.
BudgetLeft ==
  \A w \in Workers : wk[w].phase = "failing" /\ ~wk[w].final => wk[w].retry_count < MaxRetries

LifecycleInv == OwnerInv /\ BudgetLeft

LEMMA EvaluatedBudget ==
  ASSUME NEW n \in Nat, NEW cap \in CategoryCaps, ~is_final(n, cap)
  PROVE  n < MaxRetries
  BY CeleryPipelineAssumption DEF is_final, effective_max

LEMMA BudgetStep ==
  ASSUME TypeInv, BudgetLeft, [Next]_vars
  PROVE  BudgetLeft'
  <1> USE DEF TypeInv, TypeOK
  <1>1. ASSUME UNCHANGED wk PROVE BudgetLeft'
    BY <1>1 DEF BudgetLeft
  <1>2. ASSUME NEW w \in Workers, NEW v, wk' = [wk EXCEPT ![w] = v],
               v.phase = "failing" /\ ~v.final => v.retry_count < MaxRetries
        PROVE  BudgetLeft'
    BY <1>2 DEF BudgetLeft
  <1>3. IdleWorker.phase = "idle"
    BY DEF IdleWorker
  <1>4. ASSUME NEW w \in Workers, Release(w) PROVE BudgetLeft'
    BY <1>2, <1>3, <1>4 DEF Release
  <1>5. ASSUME NEW w \in Workers, WorkerStep(w) \/ WorkerFault(w) PROVE BudgetLeft'
    <2>1. wk[w] \in WorkerState /\ wk[w].retry_count \in Nat
      BY DEF WorkerState
    <2>2. CASE ExtractionSucceeds(w)
      <3>1. PICK f : wk' = [wk EXCEPT ![w].phase = "extracted", ![w].file = f]
        BY <2>2 DEF ExtractionSucceeds
      <3> QED BY <2>1, <3>1 DEF BudgetLeft, WorkerState
    <2>3. ASSUME NEW cap \in CategoryCaps, ExtractionFails(w, cap) PROVE BudgetLeft'
      <3>1. wk' = [wk EXCEPT ![w].phase = "failing", ![w].final = is_final(wk[w].retry_count, cap)]
        BY <2>3 DEF ExtractionFails
      <3> QED BY <2>1, <3>1, EvaluatedBudget DEF BudgetLeft, WorkerState
    <2>4. ASSUME NEW cap \in CategoryCaps, CompletionFails(w, cap) PROVE BudgetLeft'
      <3>1. wk' = [wk EXCEPT ![w].phase = "failing", ![w].file = None,
                             ![w].final = is_final(wk[w].retry_count, cap)]
        BY <2>4 DEF CompletionFails
      <3> QED BY <2>1, <3>1, EvaluatedBudget DEF BudgetLeft, WorkerState
    <2>5. CASE ScheduleRetry(w)
      BY <2>1, <2>5 DEF ScheduleRetry, BudgetLeft, WorkerState
    <2>6. CASE SoftTimeLimit(w)
      BY <2>1, <2>6 DEF SoftTimeLimit, BudgetLeft, WorkerState
    <2> QED BY <1>4, <1>5, <2>2, <2>3, <2>4, <2>5, <2>6
            DEF WorkerStep, WorkerFault, Complete, PublishRetry, move_to_dlq, Cancelled, WorkerLost,
                TaskAborts
  <1>6. ASSUME NEW w \in Workers, NEW j \in Jobs, Claim(w, j) PROVE BudgetLeft'
    <2> DEFINE v == [IdleWorker EXCEPT !.phase = "executing", !.job = j,
                                       !.retry_count = job[j].retry_count]
    <2>1. wk' = [wk EXCEPT ![w] = v] /\ v.phase = "executing"
      BY <1>6 DEF Claim, IdleWorker
    <2> HIDE DEF v
    <2> QED BY <1>2, <2>1
  <1> QED BY <1>1, <1>5, <1>6
          DEF Next, Deliver, Skip, Clock, RowAges, RetryFallsDue, EtaElapses, CleanupUnlink,
              cleanup_dlq, BeatStep, requeue_stuck_jobs, enqueue_pending, SweepPublish,
              EnqueuePublish, CleanupCommit, BeatTaskLost, pipelineVars, vars

\* The owner of a job in process is the execution that works on it.
LEMMA OwnerIs ==
  \A j \in Jobs : \A w \in Workers :
    NoDoubleProcessing /\ Working(w) /\ wk[w].job = j /\ job[j].status = "processing"
    => OwnerOf(j) = w
  <1> SUFFICES ASSUME NEW j \in Jobs, NEW w \in Workers, NoDoubleProcessing, Working(w),
                      wk[w].job = j, job[j].status = "processing"
               PROVE  OwnerOf(j) = w
    OBVIOUS
  <1>1. \A v \in Workers : Working(v) /\ wk[v].job = j => v = w
    BY DEF NoDoubleProcessing
  <1>2. (CHOOSE v \in Workers : Working(v) /\ wk[v].job = j) = w
    BY <1>1
  <1> QED BY <1>2 DEF OwnerOf

LEMMA OwnerIsNext ==
  ASSUME NEW j \in Jobs, NEW w \in Workers, NoDoubleProcessing', Working(w)', wk'[w].job = j,
         job'[j].status = "processing"
  PROVE  OwnerOf(j)' = w
  <1>1. \A v \in Workers : Working(v)' /\ wk'[v].job = j => v = w
    BY DEF NoDoubleProcessing
  <1>2. (CHOOSE v \in Workers : Working(v)' /\ wk'[v].job = j) = w
    BY <1>1
  <1> QED BY <1>2 DEF OwnerOf

LEMMA NoOwner ==
  ASSUME NEW j \in Jobs, job[j].status # "processing" \/ NobodyWorksOn(j)
  PROVE  OwnerOf(j) = None
  BY DEF OwnerOf, NobodyWorksOn

LEMMA NoOwnerNext ==
  ASSUME NEW j \in Jobs, job'[j].status # "processing" \/ NobodyWorksOn(j)'
  PROVE  OwnerOf(j)' = None
  BY DEF OwnerOf, NobodyWorksOn

\* A job whose status and executions stay the same keeps its owner.
LEMMA SameOwner ==
  ASSUME NoDoubleProcessing, NoDoubleProcessing', NEW j \in Jobs, job'[j].status = job[j].status,
         \A w \in Workers : (Working(w) /\ wk[w].job = j) <=> (Working(w)' /\ wk'[w].job = j)
  PROVE  OwnerOf(j)' = OwnerOf(j)
  <1>1. CASE job[j].status # "processing" \/ NobodyWorksOn(j)
    <2>1. job'[j].status # "processing" \/ NobodyWorksOn(j)'
      BY <1>1 DEF NobodyWorksOn
    <2> QED BY <1>1, <2>1, NoOwner, NoOwnerNext
  <1>2. CASE job[j].status = "processing" /\ ~NobodyWorksOn(j)
    <2>1. PICK w \in Workers : Working(w) /\ wk[w].job = j
      BY <1>2 DEF NobodyWorksOn
    <2>2. OwnerOf(j) = w
      BY <1>2, <2>1, OwnerIs
    <2>3. OwnerOf(j)' = w
      BY <1>2, <2>1, OwnerIsNext
    <2> QED BY <2>2, <2>3
  <1> QED BY <1>1, <1>2

\* What the abstract specification sees of a job stays the same.
JobStutters(j) ==
  /\ job'[j].status = job[j].status
  /\ job'[j].retry_count = job[j].retry_count
  /\ OwnerOf(j)' = OwnerOf(j)

LEMMA AllStutter ==
  ASSUME \A j \in Jobs : JobStutters(j)
  PROVE  UNCHANGED Lifecycle!lifecycleVars
  BY DEF JobStutters, Lifecycle!lifecycleVars

\* A step in which the executions, and status and retry_count of j, do not move.
LEMMA RowStutters ==
  ASSUME UNCHANGED wk, NEW j \in Jobs,
         job'[j].status = job[j].status, job'[j].retry_count = job[j].retry_count
  PROVE  JobStutters(j)
  BY DEF JobStutters, OwnerOf, Working

\* A step of execution w does not touch the jobs it does not work on.
LEMMA OthersStutter ==
  ASSUME ResetsAreExclusive, OwnerInv, OwnerInv', NEW w \in Workers,
         WorkerStep(w) \/ WorkerFault(w), NEW j \in Jobs,
         wk[w].job # j \/ ~Working(w), job'[j] = job[j]
  PROVE  JobStutters(j)
  <1>1. NobodyStarts /\ \A v \in Workers \ {w} : wk'[v] = wk[v]
    BY WorkerFrame
  <1>2. \A v \in Workers : (Working(v) /\ wk[v].job = j) <=> (Working(v)' /\ wk'[v].job = j)
    BY <1>1 DEF NobodyStarts, Working
  <1>3. OwnerOf(j)' = OwnerOf(j)
    BY <1>2, SameOwner DEF OwnerInv
  <1> QED BY <1>3 DEF JobStutters
\* The owner of a job writes its verdict.
LEMMA SettleMaps ==
  ASSUME OwnerInv, NEW w \in Workers, Working(w), NEW j \in Jobs, wk[w].job = j,
         job[j].status = "processing", NEW verdict, verdict # "processing",
         job'[j].status = verdict, \A k \in Jobs \ {j} : JobStutters(k)
  PROVE  Lifecycle!Settle(j, verdict)
  <1>1. OwnerOf(j) = w /\ w # None
    BY OwnerIs, CeleryPipelineAssumption DEF OwnerInv
  <1>2. OwnerOf(j)' = None
    BY NoOwnerNext
  <1>3. \A k \in Jobs : job'[k].status = IF k = j THEN verdict ELSE job[k].status
    BY DEF JobStutters
  <1>4. \A k \in Jobs : OwnerOf(k)' = IF k = j THEN None ELSE OwnerOf(k)
    BY <1>2 DEF JobStutters
  <1> QED BY <1>1, <1>3, <1>4 DEF Lifecycle!Settle

LEMMA SameTries ==
  ASSUME NEW j \in Jobs, job'[j].retry_count = job[j].retry_count,
         \A k \in Jobs \ {j} : JobStutters(k)
  PROVE  UNCHANGED [k \in Jobs |-> job[k].retry_count]
  BY DEF JobStutters

LEMMA WorkerMaps ==
  ASSUME ResetsAreExclusive, LifecycleInv, LifecycleInv', NEW w \in Workers,
         WorkerStep(w) \/ WorkerFault(w)
  PROVE  Lifecycle!Next \/ UNCHANGED Lifecycle!lifecycleVars
  <1>1. OwnerInv /\ OwnerInv' /\ NobodyStarts
    BY WorkerFrame DEF LifecycleInv
  <1>2. \A v \in Workers \ {w} : wk'[v] = wk[v]
    BY <1>1, WorkerFrame
  <1>3. ASSUME UNCHANGED job, ~Working(w)
        PROVE  UNCHANGED Lifecycle!lifecycleVars
    BY <1>1, <1>3, OthersStutter, AllStutter
  <1>4. CASE ~Working(w)
    BY <1>3, <1>4 DEF WorkerStep, WorkerFault, ExtractionSucceeds, ExtractionFails, Complete,
           CompletionFails, ScheduleRetry, PublishRetry, move_to_dlq, Cancelled, WorkerLost,
           TaskAborts, SoftTimeLimit, serviceVars, Working
  <1>5. CASE Working(w)
    <2>1. PICK j \in Jobs : j = wk[w].job
      BY <1>1, <1>5 DEF OwnerInv, TypeInv, WorkerTargets, Working
    <2>2. job[j] \in Row /\ job \in [Jobs -> Row] /\ wk \in [Workers -> WorkerState]
          /\ wk[w] \in WorkerState
      BY <1>1 DEF OwnerInv, TypeInv, TypeOK, ServiceTypeOK
    <2>3. ASSUME \A k \in Jobs \ {j} : job'[k] = job[k]
          PROVE  \A k \in Jobs \ {j} : JobStutters(k)
      BY <1>1, <2>1, <2>3, OthersStutter
    <2>4. ASSUME UNCHANGED job, Working(w)', wk'[w].job = j
          PROVE  UNCHANGED Lifecycle!lifecycleVars
      <3>1. \A v \in Workers : (Working(v) /\ wk[v].job = j) <=> (Working(v)' /\ wk'[v].job = j)
        BY <1>2, <1>5, <2>1, <2>4 DEF Working
      <3>2. OwnerOf(j)' = OwnerOf(j)
        BY <1>1, <2>4, <3>1, SameOwner DEF OwnerInv
      <3>3. JobStutters(j)
        BY <2>4, <3>2 DEF JobStutters
      <3>4. \A k \in Jobs : JobStutters(k)
        BY <2>3, <2>4, <3>3
      <3> QED BY <3>4, AllStutter
    <2>5. ASSUME UNCHANGED job, job[j].status # "processing"
          PROVE  UNCHANGED Lifecycle!lifecycleVars
      <3>1. JobStutters(j)
        BY <2>5, NoOwner, NoOwnerNext DEF JobStutters
      <3> QED BY <2>3, <2>5, <3>1, AllStutter
    <2>6. CASE ExtractionSucceeds(w)
      <3>1. PICK f : wk' = [wk EXCEPT ![w].phase = "extracted", ![w].file = f]
        BY <2>6 DEF ExtractionSucceeds
      <3>2. Working(w)' /\ wk'[w].job = j
        BY <2>1, <2>2, <3>1 DEF Working, WorkerState
      <3> QED BY <2>4, <2>6, <3>2 DEF ExtractionSucceeds
    <2>7. ASSUME NEW cap \in CategoryCaps, ExtractionFails(w, cap)
          PROVE  UNCHANGED Lifecycle!lifecycleVars
      <3>1. Working(w)' /\ wk'[w].job = j
        BY <2>1, <2>2, <2>7 DEF ExtractionFails, Working, WorkerState
      <3> QED BY <2>4, <2>7, <3>1 DEF ExtractionFails, serviceVars
    <2>8. ASSUME NEW row, job' = [job EXCEPT ![j] = WhereProcessing(job[j], row)],
                 job[j].status = "processing" => row.status # "processing"
          PROVE  /\ \A k \in Jobs \ {j} : JobStutters(k)
                 /\ job'[j] = WhereProcessing(job[j], row)
                 /\ job[j].status # "processing" => UNCHANGED job
                 /\ job[j].status = "processing" => Lifecycle!Settle(j, row.status)
      <3>1. /\ \A k \in Jobs \ {j} : job'[k] = job[k]
            /\ job'[j] = WhereProcessing(job[j], row)
        BY <2>2, <2>8
      <3>2. \A k \in Jobs \ {j} : JobStutters(k)
        BY <2>3, <3>1
      <3>3. job[j].status # "processing" => UNCHANGED job
        BY <2>2, <2>8 DEF WhereProcessing
      <3>4. ASSUME job[j].status = "processing" PROVE Lifecycle!Settle(j, row.status)
        <4>1. job'[j].status = row.status
          BY <3>1, <3>4 DEF WhereProcessing
        <4> QED BY <1>1, <1>5, <2>1, <2>8, <3>2, <3>4, <4>1, SettleMaps
      <3> QED BY <3>1, <3>2, <3>3, <3>4
    <2>9. \A k \in Jobs : Lifecycle!Succeed(k) \/ Lifecycle!GiveUp(k) \/ Lifecycle!Yield(k)
                          \/ Lifecycle!Reschedule(k) \/ Lifecycle!Vanish(k) => Lifecycle!Next
      BY DEF Lifecycle!Next
    <2>10. CASE job' = [job EXCEPT ![j] =
                          WhereProcessing(job[j], CompletedRow(job[j], wk[w].file))]
      <3> DEFINE row == CompletedRow(job[j], wk[w].file)
      <3>1. row.status = "completed"
        BY <2>2 DEF CompletedRow, Row
      <3> HIDE DEF row
      <3>2. CASE job[j].status = "processing"
        <4>1. /\ Lifecycle!Settle(j, "completed") /\ job'[j] = WhereProcessing(job[j], row)
              /\ \A k \in Jobs \ {j} : JobStutters(k)
          BY <2>8, <2>10, <3>1, <3>2 DEF row
        <4>2. job'[j].retry_count = job[j].retry_count
          BY <1>1, <1>5, <2>1, <4>1, WriteCountsOn DEF row
        <4> QED BY <2>9, <4>1, <4>2, SameTries DEF Lifecycle!Succeed
      <3>3. CASE job[j].status # "processing"
        BY <2>5, <2>8, <2>10, <3>1, <3>3 DEF row
      <3> QED BY <3>2, <3>3
    <2>11. CASE Complete(w)
      BY <2>1, <2>10, <2>11 DEF Complete
    <2>12. ASSUME NEW cap \in CategoryCaps, CompletionFails(w, cap)
           PROVE  Lifecycle!Next \/ UNCHANGED Lifecycle!lifecycleVars
      <3>1. Working(w)' /\ wk'[w].job = j
        BY <2>1, <2>2, <2>12 DEF CompletionFails, Working, WorkerState
      <3> QED BY <2>1, <2>4, <2>10, <2>12, <3>1 DEF CompletionFails
    <2>13. CASE ScheduleRetry(w)
      <3> DEFINE row == RetryRow(job[j], wk[w].retry_count)
      <3>1. row.status = "pending"
        BY <2>2 DEF RetryRow, Row
      <3>2. job' = [job EXCEPT ![j] = WhereProcessing(job[j], row)]
        BY <2>1, <2>13 DEF ScheduleRetry
      <3> HIDE DEF row
      <3>3. CASE job[j].status = "processing"
        <4>1. /\ Lifecycle!Settle(j, "pending") /\ job'[j] = WhereProcessing(job[j], row)
              /\ \A k \in Jobs \ {j} : JobStutters(k)
          BY <2>8, <3>1, <3>2, <3>3
        <4>2. job'[j].retry_count = job[j].retry_count + 1
          BY <1>1, <1>5, <2>1, <3>3, <4>1, WriteCountsOn DEF row
        <4>3. job[j].retry_count < MaxRetries
          BY <1>5, <2>1, <2>13, <3>3
          DEF LifecycleInv, BudgetLeft, ScheduleRetry, OwnerInv, OwnersHold, RowOfOwner
        <4>4. [k \in Jobs |-> job[k].retry_count]' =
                [[k \in Jobs |-> job[k].retry_count] EXCEPT ![j] = @ + 1]
          BY <4>1, <4>2 DEF JobStutters
        <4> QED BY <2>9, <4>1, <4>3, <4>4 DEF Lifecycle!Reschedule
      <3>4. CASE job[j].status # "processing"
        BY <2>5, <2>8, <3>1, <3>2, <3>4
      <3> QED BY <3>3, <3>4
    <2>14. CASE move_to_dlq(w)
      <3> DEFINE row == FailedRowOf(job[j])
      <3>1. row.status = "failed"
        BY <2>2 DEF FailedRowOf, Row
      <3>2. IF Exists(j) THEN job' = [job EXCEPT ![j] = WhereProcessing(job[j], row)]
            ELSE UNCHANGED job
        BY <2>1, <2>14 DEF move_to_dlq
      <3> HIDE DEF row
      <3>3. CASE job[j].status = "processing"
        <4>1. /\ Lifecycle!Settle(j, "failed") /\ job'[j] = WhereProcessing(job[j], row)
              /\ \A k \in Jobs \ {j} : JobStutters(k)
          BY <2>8, <3>1, <3>2, <3>3 DEF Exists
        <4>2. job'[j].retry_count = job[j].retry_count
          BY <1>1, <1>5, <2>1, <4>1, WriteCountsOn DEF row
        <4> QED BY <2>9, <4>1, <4>2, SameTries DEF Lifecycle!GiveUp
      <3>4. CASE job[j].status # "processing"
        BY <2>5, <2>8, <3>1, <3>2, <3>4
      <3> QED BY <3>3, <3>4
    <2>15. CASE Cancelled(w)
      <3> DEFINE row == RequeuedRow(job[j])
      <3>1. row.status = "pending"
        BY <2>2 DEF RequeuedRow, Row
      <3>2. job' = [job EXCEPT ![j] = WhereProcessing(job[j], row)]
        BY <2>1, <2>15 DEF Cancelled
      <3> HIDE DEF row
      <3>3. CASE job[j].status = "processing"
        <4>1. /\ Lifecycle!Settle(j, "pending") /\ job'[j] = WhereProcessing(job[j], row)
              /\ \A k \in Jobs \ {j} : JobStutters(k)
          BY <2>8, <3>1, <3>2, <3>3
        <4>2. job'[j].retry_count = job[j].retry_count
          BY <1>1, <1>5, <2>1, <4>1, WriteCountsOn DEF row
        <4> QED BY <2>9, <4>1, <4>2, SameTries DEF Lifecycle!Yield
      <3>4. CASE job[j].status # "processing"
        BY <2>5, <2>8, <3>1, <3>2, <3>4
      <3> QED BY <3>3, <3>4
    <2>16. CASE WorkerLost(w) \/ TaskAborts(w)
      <3>1. UNCHANGED job /\ ~Working(w)'
        BY <1>1, <2>16, ReleasedIsIdle DEF WorkerLost, TaskAborts, OwnerInv
      <3>2. CASE job[j].status = "processing"
        <4>1. OwnerOf(j) = w /\ w # None
          BY <1>1, <1>5, <2>1, <3>2, OwnerIs, CeleryPipelineAssumption DEF OwnerInv
        <4>2. NobodyWorksOn(j)'
          BY <1>1, <1>2, <1>5, <2>1, <3>1, LastOneLeaves
        <4>3. OwnerOf(j)' = None
          BY <4>2, NoOwnerNext
        <4>4. \A k \in Jobs \ {j} : JobStutters(k)
          BY <2>3, <3>1
        <4>5. \A k \in Jobs : OwnerOf(k)' = IF k = j THEN None ELSE OwnerOf(k)
          BY <4>3, <4>4 DEF JobStutters
        <4> QED BY <2>9, <3>1, <3>2, <4>1, <4>5 DEF Lifecycle!Vanish
      <3>3. CASE job[j].status # "processing"
        BY <2>5, <3>1, <3>3
      <3> QED BY <3>2, <3>3
    <2>17. ~PublishRetry(w) /\ ~SoftTimeLimit(w)
      BY <1>5 DEF PublishRetry, Working, SoftTimeLimit, Fault, ResetsAreExclusive
    <2> QED BY <2>6, <2>7, <2>11, <2>12, <2>13, <2>14, <2>15, <2>16, <2>17
            DEF WorkerStep, WorkerFault
  <1> QED BY <1>4, <1>5
LEMMA ClaimMaps ==
  ASSUME OwnerInv, OwnerInv', NEW w \in Workers, NEW j \in Jobs, Claim(w, j)
  PROVE  Lifecycle!Acquire(j, w)
  <1>1. /\ job[j].status = "pending" /\ wk[w].phase = "idle"
        /\ \A v \in Workers \ {w} : wk'[v] = wk[v]
        /\ \A k \in Jobs \ {j} : job'[k] = job[k]
    BY DEF Claim, OwnerInv, TypeInv, TypeOK, ServiceTypeOK
  <1>2. wk'[w].phase = "executing" /\ wk'[w].job = j
    BY DEF Claim, IdleWorker, OwnerInv, TypeInv, TypeOK
  <1>3. job'[j].status = "processing" /\ job'[j].retry_count = job[j].retry_count
    BY DEF Claim, ClaimedRow, Row, OwnerInv, TypeInv, TypeOK, ServiceTypeOK
  <1>4. \A k \in Jobs \ {j} : OwnerOf(k)' = OwnerOf(k)
    BY <1>1, <1>2, SameOwner DEF OwnerInv, Working
  <1>5. OwnerOf(j)' = w
    BY <1>2, <1>3, OwnerIsNext DEF OwnerInv, Working
  <1>6. ASSUME NEW k \in Jobs PROVE OwnerOf(k) # w
    <2>1. CASE job[k].status # "processing" \/ NobodyWorksOn(k)
      BY <2>1, NoOwner, CeleryPipelineAssumption
    <2>2. CASE job[k].status = "processing" /\ ~NobodyWorksOn(k)
      <3>1. PICK v \in Workers : Working(v) /\ wk[v].job = k
        BY <2>2 DEF NobodyWorksOn
      <3>2. OwnerOf(k) = v
        BY <2>2, <3>1, OwnerIs DEF OwnerInv
      <3> QED BY <1>1, <3>1, <3>2 DEF Working
    <2> QED BY <2>1, <2>2
  <1>7. \A k \in Jobs : /\ job'[k].status = IF k = j THEN "processing" ELSE job[k].status
                        /\ job'[k].retry_count = job[k].retry_count
                        /\ OwnerOf(k)' = IF k = j THEN w ELSE OwnerOf(k)
    BY <1>1, <1>3, <1>4, <1>5
  <1> QED BY <1>1, <1>6, <1>7 DEF Lifecycle!Acquire

LEMMA RemoveMaps ==
  ASSUME TypeInv, UNCHANGED wk, NEW j \in Jobs, Exists(j), DeleteRow(j)
  PROVE  Lifecycle!Remove(j)
  <1>1. /\ \A k \in Jobs \ {j} : job'[k] = job[k]
        /\ job'[j].status = "deleted" /\ job'[j].retry_count = 0
    BY DEF DeleteRow, NoRow, TypeInv, TypeOK, ServiceTypeOK
  <1>2. \A k \in Jobs \ {j} : JobStutters(k)
    BY <1>1, RowStutters
  <1>3. OwnerOf(j)' = None
    BY <1>1, NoOwnerNext
  <1>4. \A k \in Jobs : /\ job'[k].status = IF k = j THEN "deleted" ELSE job[k].status
                        /\ job'[k].retry_count = IF k = j THEN 0 ELSE job[k].retry_count
                        /\ OwnerOf(k)' = IF k = j THEN None ELSE OwnerOf(k)
    BY <1>1, <1>2, <1>3 DEF JobStutters
  <1> QED BY <1>4 DEF Lifecycle!Remove, Exists

LEMMA CreateMaps ==
  ASSUME OwnerInv, UNCHANGED wk, NEW j \in Jobs, InsertJob(j)
  PROVE  Lifecycle!Create(j)
  <1>1. /\ \A k \in Jobs \ {j} : job'[k] = job[k]
        /\ job'[j].status = "pending" /\ job'[j].retry_count = 0
        /\ job[j].status = "absent" /\ job[j].retry_count = 0
    BY DEF InsertJob, NoRow, OwnerInv, TypeInv, TypeOK, ServiceTypeOK, AbsentIsBlank
  <1>2. \A k \in Jobs \ {j} : JobStutters(k)
    BY <1>1, RowStutters
  <1>3. OwnerOf(j) = None /\ OwnerOf(j)' = None
    BY <1>1, NoOwner, NoOwnerNext
  <1>4. \A k \in Jobs : /\ job'[k].status = IF k = j THEN "pending" ELSE job[k].status
                        /\ job'[k].retry_count = job[k].retry_count
                        /\ OwnerOf(k)' = OwnerOf(k)
    BY <1>1, <1>2, <1>3 DEF JobStutters
  <1> QED BY <1>1, <1>4 DEF Lifecycle!Create

\* A reset finds the row as it was loaded, so the columns the ORM leaves out of
\* its UPDATE already have the value of a fresh job.
LEMMA ResetMaps ==
  ASSUME ~CompletedIsReplayed, OwnerInv, UNCHANGED wk, NEW r \in Requests,
         RetryWrite(r) \/ ReplayWrite(r), Exists(req[r].job)
  PROVE  \E j \in Jobs : Lifecycle!Reset(j)
  <1>0. PICK j \in Jobs : j = req[r].job
    BY DEF RetryWrite, ReplayWrite, OwnerInv, TypeInv, RequestTargets
  <1>1. ResetIsCurrent(r, j) /\ req[r].op \in {"retry", "replay_write"}
    BY <1>0 DEF OwnerInv, ResetsAreCurrent, ResetOps, RetryWrite, ReplayWrite
  <1>2. /\ job[j].status \in {"failed", "deferred"} /\ job[j].status = req[r].snap.status
        /\ job[j].retry_count = req[r].snap.retry_count
    BY <1>0, <1>1 DEF ResetIsCurrent, Resettable, Exists
  <1>3. job[j] \in Row /\ req[r].snap \in Row
    BY DEF OwnerInv, TypeInv, TypeOK, ServiceTypeOK, RequestState
  <1>4. job' = [job EXCEPT ![j] = Flush(@, req[r].snap, reset_job_for_replay(req[r].snap))]
    BY <1>0 DEF RetryWrite, ReplayWrite, ResetAndCommit
  <1>5. /\ \A k \in Jobs \ {j} : job'[k] = job[k]
        /\ job'[j] = Flush(job[j], req[r].snap, reset_job_for_replay(req[r].snap))
    BY <1>4 DEF OwnerInv, TypeInv, TypeOK, ServiceTypeOK
  <1>6. job'[j].status = "pending" /\ job'[j].retry_count = 0
    BY <1>2, <1>3, <1>5 DEF Flush, reset_job_for_replay, Row
  <1>7. \A k \in Jobs \ {j} : JobStutters(k)
    BY <1>5, RowStutters
  <1>8. OwnerOf(j) = None /\ OwnerOf(j)' = None
    BY <1>2, <1>6, NoOwner, NoOwnerNext
  <1>9. \A k \in Jobs : /\ job'[k].status = IF k = j THEN "pending" ELSE job[k].status
                        /\ job'[k].retry_count = IF k = j THEN 0 ELSE job[k].retry_count
                        /\ OwnerOf(k)' = OwnerOf(k)
    BY <1>6, <1>7, <1>8 DEF JobStutters
  <1> QED BY <1>2, <1>9 DEF Lifecycle!Reset

LEMMA RecoverMaps ==
  ASSUME OwnerInv, requeue_stuck_jobs
  PROVE  \E S \in SUBSET Jobs : Lifecycle!Recover(S)
  <1>0. PICK stuck : stuck = {j \in Jobs : job[j].status = "processing" /\ job[j].old}
    OBVIOUS
  <1>1. \A j \in stuck : NobodyWorksOn(j)
    BY <1>0 DEF OwnerInv, OwnersHold, RowOfOwner, NobodyWorksOn
  <1>2. \A j \in stuck : OwnerOf(j) = None
    BY <1>0, <1>1, NoOwner
  <1>3. \A j \in Jobs : /\ job'[j].status = IF j \in stuck THEN "pending" ELSE job[j].status
                        /\ job'[j].retry_count = job[j].retry_count
    BY <1>0 DEF requeue_stuck_jobs, RequeuedRow, Row, OwnerInv, TypeInv, TypeOK, ServiceTypeOK
  <1>4. ASSUME NEW j \in Jobs PROVE OwnerOf(j)' = OwnerOf(j)
    <2>1. CASE j \in stuck
      BY <1>2, <1>3, <2>1, NoOwnerNext
    <2>2. CASE j \notin stuck
      BY <1>3, <2>2, RowStutters DEF JobStutters, requeue_stuck_jobs
    <2> QED BY <2>1, <2>2
  <1>5. stuck \in SUBSET Jobs /\ \A j \in stuck : job[j].status = "processing"
    BY <1>0
  <1>6. Lifecycle!Recover(stuck)
    BY <1>2, <1>3, <1>4, <1>5 DEF Lifecycle!Recover
  <1> QED BY <1>5, <1>6

LEMMA LifecycleStep ==
  ASSUME ResetsAreExclusive, ~CompletedIsReplayed, LifecycleInv, LifecycleInv', [Next]_vars
  PROVE  [Lifecycle!Next]_(Lifecycle!lifecycleVars)
  <1>1. OwnerInv /\ OwnerInv' /\ TypeInv
    BY DEF LifecycleInv, OwnerInv
  <1>2. ASSUME UNCHANGED <<wk, job>> PROVE UNCHANGED Lifecycle!lifecycleVars
    BY <1>2, RowStutters, AllStutter
  <1>3. ASSUME NEW j \in Jobs,
               \/ Lifecycle!Create(j) \/ Lifecycle!Reset(j) \/ Lifecycle!Remove(j)
               \/ \E w \in Workers : Lifecycle!Acquire(j, w)
        PROVE  Lifecycle!Next
    BY <1>3 DEF Lifecycle!Next
  <1>4. ASSUME UNCHANGED pipelineVars, NEW r \in Requests,
               \/ \E j \in Jobs : create(r, j) \/ RetryRead(r, j)
                    \/ DeleteRead(r, j, "delete") \/ DeleteRead(r, j, "web_delete")
               \/ \E f \in FailedIds : ReplayFind(r, f)
               \/ RequestStep(r)
               \/ EnqueueFails(r) \/ DeleteUnlinkFails(r) \/ RequestLost(r)
        PROVE  [Lifecycle!Next]_(Lifecycle!lifecycleVars)
    <2>1. UNCHANGED wk
      BY <1>4 DEF pipelineVars
    <2>2. CASE \E j \in Jobs : create(r, j) \/ ReplayNew(r, j)
      BY <1>1, <1>3, <2>1, <2>2, CreateMaps DEF create, ReplayNew
    <2>3. CASE RetryWrite(r) \/ ReplayWrite(r)
      <3>1. CASE Exists(req[r].job)
        BY <1>1, <1>3, <2>1, <2>3, <3>1, ResetMaps
      <3>2. CASE ~Exists(req[r].job)
        BY <1>2, <2>1, <2>3, <3>2 DEF RetryWrite, ReplayWrite, ResetAndCommit
      <3> QED BY <3>1, <3>2
    <2>4. CASE DeleteCommit(r)
      <3>1. CASE Exists(req[r].job)
        <4>1. PICK j \in Jobs : Exists(j) /\ DeleteRow(j)
          BY <1>1, <2>4, <3>1 DEF DeleteCommit, TypeInv, RequestTargets
        <4> QED BY <1>1, <1>3, <2>1, <4>1, RemoveMaps
      <3>2. CASE ~Exists(req[r].job)
        BY <1>2, <2>1, <2>4, <3>2 DEF DeleteCommit
      <3> QED BY <3>1, <3>2
    <2>5. ASSUME UNCHANGED job PROVE UNCHANGED Lifecycle!lifecycleVars
      BY <1>2, <2>1, <2>5
    <2> QED BY <1>4, <2>2, <2>3, <2>4, <2>5
            DEF RequestStep, RetryRead, DeleteRead, ReplayFind, SelectOutboxId, enqueue_job,
                CloseOutboxRow, ReplayLoad, DeleteUnlink, EnqueueFails, DeleteUnlinkFails, RequestLost
  <1>5. ASSUME NEW w \in Workers, WorkerStep(w) \/ WorkerFault(w)
        PROVE  [Lifecycle!Next]_(Lifecycle!lifecycleVars)
    BY <1>5, WorkerMaps
  <1>6. ASSUME NEW w \in Workers, NEW j \in Jobs, Claim(w, j) PROVE Lifecycle!Next
    BY <1>1, <1>3, <1>6, ClaimMaps
  <1>7. ASSUME NEW j \in Jobs, RowAges(j) \/ RetryFallsDue(j)
        PROVE  UNCHANGED Lifecycle!lifecycleVars
    <2>1. UNCHANGED wk
      BY <1>7 DEF RowAges, RetryFallsDue, pipelineVars
    <2>2. \A k \in Jobs : job'[k].status = job[k].status /\ job'[k].retry_count = job[k].retry_count
      BY <1>1, <1>7 DEF RowAges, RetryFallsDue, Row, TypeInv, TypeOK, ServiceTypeOK
    <2> QED BY <2>1, <2>2, RowStutters, AllStutter
  <1>8. CASE requeue_stuck_jobs
    <2>1. \A S \in SUBSET Jobs : Lifecycle!Recover(S) => Lifecycle!Next
      BY DEF Lifecycle!Next
    <2> QED BY <1>1, <1>8, <2>1, RecoverMaps
  <1>9. CASE CleanupCommit
    <2>1. UNCHANGED wk
      BY <1>9 DEF CleanupCommit
    <2>2. CASE Exists(cleaner)
      <3>1. cleaner \in Jobs /\ DeleteRow(cleaner)
        BY <1>1, <1>9, <2>2 DEF CleanupCommit, TypeInv, TypeOK
      <3> QED BY <1>1, <1>3, <2>1, <2>2, <3>1, RemoveMaps
    <2>3. CASE ~Exists(cleaner)
      BY <1>2, <1>9, <2>1, <2>3 DEF CleanupCommit
    <2> QED BY <2>2, <2>3
  <1>10. CASE UNCHANGED vars
    BY <1>2, <1>10 DEF vars, serviceVars, pipelineVars
  <1> QED BY <1>2, <1>4, <1>5, <1>6, <1>7, <1>8, <1>9, <1>10
          DEF Next, ServiceNext, Deliver, Skip, Clock, EtaElapses, CleanupUnlink, cleanup_dlq,
              BeatStep, enqueue_pending, SweepPublish, EnqueuePublish, BeatTaskLost, serviceVars,
              pipelineVars

\* The pipeline implements the lifecycle of a job: one owner at a time settles
\* it, a job is taken back only after its owner is gone, attempts are spent one by
\* one within max_retries, and only failed or deferred jobs are reset.  The last
\* needs that a completed job is not replayed: an execution whose completing
\* transaction committed and then failed leaves a dead letter for it.
THEOREM PipelineImplementsLifecycle ==
  ASSUME ResetsAreExclusive, "replay" \notin UserOps \/ "abort" \notin Faults
  PROVE  Spec => ImplementsLifecycle
  <1>1. Init => LifecycleInv
    <2>1. Init => BudgetLeft
      BY DEF Init, BudgetLeft, IdleWorker
    <2> QED BY <2>1, OwnerInit DEF LifecycleInv
  <1>2. LifecycleInv /\ [Next]_vars => LifecycleInv'
    BY OwnerStep, BudgetStep DEF LifecycleInv, OwnerInv
  <1>3. Init => Lifecycle!Init
    <2> SUFFICES ASSUME Init PROVE Lifecycle!Init
      OBVIOUS
    <2>1. \A j \in Jobs : job[j].status = "absent" /\ job[j].retry_count = 0
      BY DEF Init, ServiceInit, NoRow
    <2>2. \A j \in Jobs : OwnerOf(j) = None
      BY <2>1, NoOwner
    <2> QED BY <2>1, <2>2 DEF Lifecycle!Init
  <1>4. LifecycleInv /\ LifecycleInv' /\ [Next]_vars => [Lifecycle!Next]_(Lifecycle!lifecycleVars)
    BY LifecycleStep DEF CompletedIsReplayed
  <1> QED BY <1>1, <1>2, <1>3, <1>4, PTL DEF Spec, ImplementsLifecycle, Lifecycle!Spec
============================================================================
