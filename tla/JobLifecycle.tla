---------------------------- MODULE JobLifecycle ----------------------------
(***************************************************************************)
(* What the pipelines promise about a download job, without tables,        *)
(* messages or requests: a job in process has at most one owner, only the  *)
(* owner settles it, a job is taken back only after its owner is gone, and *)
(* the retry budget is spent one attempt at a time.                        *)
(***************************************************************************)
EXTENDS Integers

CONSTANTS Jobs, Workers, None, MaxRetries

VARIABLES
  status,  \* of every job
  tries,   \* retries spent
  owner    \* the worker that is processing the job

lifecycleVars == <<status, tries, owner>>

Init ==
  /\ status = [j \in Jobs |-> "absent"]
  /\ tries = [j \in Jobs |-> 0]
  /\ owner = [j \in Jobs |-> None]

Create(j) ==
  /\ status[j] = "absent"
  /\ status' = [status EXCEPT ![j] = "pending"]
  /\ UNCHANGED <<tries, owner>>

Acquire(j, w) ==
  /\ status[j] = "pending"
  /\ \A k \in Jobs : owner[k] # w
  /\ status' = [status EXCEPT ![j] = "processing"]
  /\ owner' = [owner EXCEPT ![j] = w]
  /\ UNCHANGED tries

\* The owner lets go of the job with its verdict.
Settle(j, verdict) ==
  /\ status[j] = "processing" /\ owner[j] # None
  /\ status' = [status EXCEPT ![j] = verdict]
  /\ owner' = [owner EXCEPT ![j] = None]

Succeed(j) == Settle(j, "completed") /\ UNCHANGED tries

GiveUp(j) == Settle(j, "failed") /\ UNCHANGED tries

Yield(j) == Settle(j, "pending") /\ UNCHANGED tries

Reschedule(j) ==
  /\ tries[j] < MaxRetries
  /\ Settle(j, "pending")
  /\ tries' = [tries EXCEPT ![j] = @ + 1]

\* The owner disappears without a verdict.
Vanish(j) ==
  /\ status[j] = "processing" /\ owner[j] # None
  /\ owner' = [owner EXCEPT ![j] = None]
  /\ UNCHANGED <<status, tries>>

\* Jobs whose owner is gone are taken back, several at a time.
Recover(S) ==
  /\ \A j \in S : status[j] = "processing" /\ owner[j] = None
  /\ status' = [j \in Jobs |-> IF j \in S THEN "pending" ELSE status[j]]
  /\ UNCHANGED <<tries, owner>>

\* The user asks for a new round of attempts.
Reset(j) ==
  /\ status[j] \in {"failed", "deferred"}
  /\ status' = [status EXCEPT ![j] = "pending"]
  /\ tries' = [tries EXCEPT ![j] = 0]
  /\ UNCHANGED owner

Remove(j) ==
  /\ status[j] \notin {"absent", "deleted"}
  /\ status' = [status EXCEPT ![j] = "deleted"]
  /\ tries' = [tries EXCEPT ![j] = 0]
  /\ owner' = [owner EXCEPT ![j] = None]

Next ==
  \/ \E j \in Jobs :
       \/ Create(j) \/ Succeed(j) \/ GiveUp(j) \/ Yield(j) \/ Reschedule(j)
       \/ Vanish(j) \/ Reset(j) \/ Remove(j)
       \/ \E w \in Workers : Acquire(j, w)
  \/ \E S \in SUBSET Jobs : Recover(S)

Spec == Init /\ [][Next]_lifecycleVars
============================================================================
