--------------------------- MODULE CircuitBreaker ---------------------------
(***************************************************************************)
(* app/services/circuit_breaker.py: the breaker around media extraction    *)
(* and around the browser-downloader service.  Every worker process has an *)
(* instance; Calls are the extractions it runs, several at a time.  With   *)
(* UseRedis the instances share the failure count, the time of the last    *)
(* failure and the half-open slots through Redis keys; without it each     *)
(* instance is on its own.                                                 *)
(*                                                                         *)
(* Abstractions.  A failure time is "none", "recent" or "elapsed" (older   *)
(* than reset_timeout).  Failure counts saturate at the threshold they are *)
(* compared with.  The lock of an instance serialises its own methods; the *)
(* Redis commands of can_execute and the record_* methods that other       *)
(* instances can interleave with are steps of their own (the two GETs of a *)
(* read, and the commands after the first of a record_*, are one step).    *)
(* The chaos override and the fall-back for an unreachable Redis are left  *)
(* out.                                                                    *)
(***************************************************************************)
EXTENDS Integers, FiniteSets

CONSTANTS
  Instances,            \* worker processes
  Calls,                \* extractions in flight
  Home,                 \* the instance a call runs in
  UseRedis,             \* use_redis_distributed
  failure_threshold,
  success_threshold,
  half_open_max_calls,
  MaxCancels,           \* bound on the calls cancelled by a timeout or a shutdown
  KeysExpire,           \* whether Redis keys outlive their TTL before a call
                        \* looks at them (an idle period)
  MaxCredit,            \* bound on how far the shared slot counter goes below 0
  NoCall                \* the lock is free

ASSUME CircuitBreakerAssumption ==
  /\ IsFiniteSet(Calls)
  /\ Home \in [Calls -> Instances]
  /\ UseRedis \in BOOLEAN /\ KeysExpire \in BOOLEAN
  /\ failure_threshold \in Nat \ {0}
  /\ success_threshold \in Nat \ {0}
  /\ half_open_max_calls \in Nat \ {0}
  /\ MaxCredit \in Nat /\ MaxCancels \in Nat
  /\ NoCall \notin Calls

VARIABLES
  breaker,  \* per instance: the fields of CircuitBreaker
  shared,   \* the Redis keys cb:<name>:failures, :last_failure and :half_slots
  call,     \* per call: where it is, and whether it holds a half-open slot
  lock,     \* per instance: the call inside can_execute
  cancels,  \* calls cancelled so far
  healthy   \* the service behind the breaker has recovered for good

vars == <<breaker, shared, call, lock, cancels, healthy>>

Ages == {"none", "recent", "elapsed"}

Breaker == [state: {"closed", "open", "half_open"}, failure_count: 0..failure_threshold,
            success_count: Nat, last_failure: Ages, half_open_calls: 0..half_open_max_calls]

Shared == [failures: 0..failure_threshold, last_failure: Ages, half_slots: Int]

\* reading: can_execute has read the shared keys; undo: it has taken one slot
\* too many; running: the extraction; succeeding, failing: the first command of
\* record_success or record_failure is done; releasing: cancelled, about to give
\* back.  failures is the count read, or the one that INCR returned.
Call == [phase: {"idle", "reading", "undo", "running", "succeeding", "failing", "releasing"},
         slot: BOOLEAN,
         failures: 0..failure_threshold, last_failure: Ages]

IdleCall == [phase |-> "idle", slot |-> FALSE, failures |-> 0, last_failure |-> "none"]

Plus1(n) == IF n < failure_threshold THEN n + 1 ELSE n

CallsOf(i) == {c \in Calls : Home[c] = i}

\* The calls that take part in the same pool of half-open slots.
Pool(i) == IF UseRedis THEN Calls ELSE CallsOf(i)

Holding(S) == {c \in S : call[c].slot}

----------------------------------------------------------------------------
(* Transitions of one instance                                             *)

\* Variant: only a closed breaker is opened by the shared keys.
PropagateToClosed(b, failures, last) ==
  IF UseRedis /\ failures >= failure_threshold /\ b.state = "closed" /\ last = "recent"
  THEN [b EXCEPT !.state = "open", !.last_failure = "recent", !.failure_count = failures]
  ELSE b

\* can_execute and is_accepting: the shared keys say OPEN.
Propagate(b, failures, last) ==
  IF UseRedis /\ failures >= failure_threshold /\ b.state # "open" /\ last = "recent"
  THEN [b EXCEPT !.state = "open", !.last_failure = "recent", !.failure_count = failures]
  ELSE b

\* _check_and_transition_to_half_open, _distributed_half_open_transition
HalfOpenTransition(b, last) ==
  IF b.state = "open" /\ (IF UseRedis THEN last ELSE b.last_failure) = "elapsed"
  THEN [b EXCEPT !.state = "half_open", !.last_failure = "none"]
  ELSE b

Advance(b, failures, last) == HalfOpenTransition(Propagate(b, failures, last), last)

\* Variant: the local slots are kept when the breaker leaves HALF_OPEN.
KeepLocalSlots(i) == breaker[i].half_open_calls

\* _reset_half_open_slots: the counters after the reset.
SharedSlotsAfterReset(i) == IF UseRedis THEN 0 ELSE shared.half_slots

LocalSlotsAfterReset(i) == 0

Decremented(n) == IF n > 0 THEN n - 1 ELSE 0

\* Redis DECR goes below zero.
Decr(n) == IF n > -MaxCredit THEN n - 1 ELSE n

\* Variant: a slot is given back only by failing.
ReleaseNothing(n) == n

\* Variant: no floor at zero.
ReleaseBelowZero(n) == n - 1

\* _release_half_open_slot without Redis
ReleaseLocalSlot(n) == Decremented(n)

----------------------------------------------------------------------------
(* can_execute                                                             *)

\* GET failures, GET last_failure, under the lock.
ReadShared(c) ==
  LET i == Home[c] IN
  /\ call[c].phase = "idle"
  /\ lock[i] = NoCall
  /\ lock' = [lock EXCEPT ![i] = c]
  /\ call' = [call EXCEPT ![c].phase = "reading", ![c].failures = shared.failures,
                          ![c].last_failure = shared.last_failure]
  /\ UNCHANGED <<breaker, shared, cancels, healthy>>

\* CLOSED admits, OPEN refuses.
Decide(c) ==
  LET i == Home[c]
      b == Advance(breaker[i], call[c].failures, call[c].last_failure) IN
  /\ call[c].phase = "reading"
  /\ b.state # "half_open"
  /\ breaker' = [breaker EXCEPT ![i] = b]
  /\ call' = [call EXCEPT ![c] = [IdleCall EXCEPT
                !.phase = IF b.state = "closed" THEN "running" ELSE "idle"]]
  /\ lock' = [lock EXCEPT ![i] = NoCall]
  /\ UNCHANGED <<shared, cancels, healthy>>

\* HALF_OPEN without Redis: a slot of this instance, or a refusal.
TryLocalSlot(c) ==
  LET i == Home[c]
      b == Advance(breaker[i], call[c].failures, call[c].last_failure)
      free == b.half_open_calls < half_open_max_calls IN
  /\ ~UseRedis
  /\ call[c].phase = "reading"
  /\ b.state = "half_open"
  /\ breaker' = [breaker EXCEPT ![i] =
                   IF free THEN [b EXCEPT !.half_open_calls = @ + 1] ELSE b]
  /\ call' = [call EXCEPT ![c] = [IdleCall EXCEPT
                !.phase = IF free THEN "running" ELSE "idle", !.slot = free]]
  /\ lock' = [lock EXCEPT ![i] = NoCall]
  /\ UNCHANGED <<shared, cancels, healthy>>

\* HALF_OPEN with Redis: INCR, and DECR in a later statement if that was one too many.
TrySharedSlot(c) ==
  LET i == Home[c]
      b == Advance(breaker[i], call[c].failures, call[c].last_failure)
      free == shared.half_slots < half_open_max_calls IN
  /\ UseRedis
  /\ call[c].phase = "reading"
  /\ b.state = "half_open"
  /\ breaker' = [breaker EXCEPT ![i] = b]
  /\ shared' = [shared EXCEPT !.half_slots = @ + 1]
  /\ call' = [call EXCEPT ![c] = [IdleCall EXCEPT
                !.phase = IF free THEN "running" ELSE "undo", !.slot = free]]
  /\ lock' = IF free THEN [lock EXCEPT ![i] = NoCall] ELSE lock
  /\ UNCHANGED <<cancels, healthy>>

UndoSharedSlot(c) ==
  /\ call[c].phase = "undo"
  /\ shared' = [shared EXCEPT !.half_slots = Decr(@)]
  /\ call' = [call EXCEPT ![c] = IdleCall]
  /\ lock' = [lock EXCEPT ![Home[c]] = NoCall]
  /\ UNCHANGED <<breaker, cancels, healthy>>

\* is_accepting, from the drain loop of a worker.
IsAccepting(i) ==
  /\ lock[i] = NoCall
  /\ breaker' = [breaker EXCEPT ![i] = Advance(@, shared.failures, shared.last_failure)]
  /\ UNCHANGED <<shared, call, lock, cancels, healthy>>

----------------------------------------------------------------------------
(* execute: the call comes back                                            *)

\* The call is over; when the pool was reset no call holds a slot any more.
EndCall(c, reset) ==
  call' = [d \in Calls |->
             IF d = c THEN IdleCall
             ELSE IF reset /\ d \in Pool(Home[c]) THEN [call[d] EXCEPT !.slot = FALSE]
             ELSE call[d]]

\* record_success with Redis, first DECR: whether or not the call took a slot.
ReleaseSharedSlot(c) ==
  /\ UseRedis
  /\ call[c].phase = "running"
  /\ lock[Home[c]] = NoCall
  /\ shared' = [shared EXCEPT !.half_slots = Decr(@)]
  /\ call' = [call EXCEPT ![c] = [IdleCall EXCEPT !.phase = "succeeding"]]
  /\ lock' = [lock EXCEPT ![Home[c]] = c]
  /\ UNCHANGED <<breaker, cancels, healthy>>

\* record_failure with Redis, first INCR failures.
CountSharedFailure(c) ==
  /\ UseRedis
  /\ ~healthy
  /\ call[c].phase = "running"
  /\ lock[Home[c]] = NoCall
  /\ shared' = [shared EXCEPT !.failures = Plus1(@)]
  /\ call' = [call EXCEPT ![c].phase = "failing", ![c].failures = Plus1(shared.failures)]
  /\ lock' = [lock EXCEPT ![Home[c]] = c]
  /\ UNCHANGED <<breaker, cancels, healthy>>

\* The call is ready for the rest of record_*: under the lock it took for its
\* first Redis command, or straight from the extraction without Redis.
Recording(c, phase) ==
  IF UseRedis THEN call[c].phase = phase
  ELSE call[c].phase = "running" /\ lock[Home[c]] = NoCall

\* record_success, after the release.
record_success(c) ==
  LET i == Home[c]
      b == breaker[i]
      closing == b.state = "half_open" /\ b.success_count + 1 >= success_threshold
      local == IF UseRedis THEN b.half_open_calls ELSE ReleaseLocalSlot(b.half_open_calls) IN
  /\ Recording(c, "succeeding")
  /\ breaker' = [breaker EXCEPT ![i] =
       IF closing
       THEN [b EXCEPT !.state = "closed", !.failure_count = 0, !.success_count = 0,
                      !.half_open_calls = LocalSlotsAfterReset(i)]
       ELSE IF b.state = "half_open"
       THEN [b EXCEPT !.success_count = @ + 1, !.half_open_calls = local]
       ELSE [b EXCEPT !.failure_count = IF b.state = "closed" THEN 0 ELSE @,
                      !.half_open_calls = local]]
  /\ shared' = [shared EXCEPT
       !.half_slots = IF closing THEN SharedSlotsAfterReset(i) ELSE @,
       !.failures = IF UseRedis /\ (closing \/ b.state = "closed") THEN 0 ELSE @]
  /\ EndCall(c, closing)
  /\ lock' = [lock EXCEPT ![i] = NoCall]
  /\ UNCHANGED <<cancels, healthy>>

\* record_failure, after the count.
record_failure(c) ==
  LET i == Home[c]
      b == breaker[i]
      count == IF UseRedis THEN call[c].failures ELSE Plus1(b.failure_count)
      failed == [b EXCEPT !.failure_count = IF UseRedis THEN @ ELSE count,
                          !.last_failure = "recent"]
      reopening == b.state = "half_open" IN
  /\ ~healthy \/ UseRedis
  /\ Recording(c, "failing")
  /\ breaker' = [breaker EXCEPT ![i] =
       IF reopening
       THEN [failed EXCEPT !.state = "open", !.success_count = 0,
                           !.half_open_calls = LocalSlotsAfterReset(i)]
       ELSE IF b.state = "closed" /\ count >= failure_threshold
       THEN [failed EXCEPT !.state = "open"]
       ELSE failed]
  /\ shared' = [shared EXCEPT
       !.last_failure = IF UseRedis THEN "recent" ELSE @,
       !.half_slots = IF reopening THEN SharedSlotsAfterReset(i) ELSE @]
  /\ EndCall(c, reopening)
  /\ lock' = [lock EXCEPT ![i] = NoCall]
  /\ UNCHANGED <<cancels, healthy>>

\* CancelledError: nothing is recorded; the state is looked at outside the lock.
Cancel(c) ==
  /\ cancels < MaxCancels
  /\ cancels' = cancels + 1
  /\ call[c].phase = "running"
  /\ call' = [call EXCEPT ![c] = IF breaker[Home[c]].state = "half_open"
                                 THEN [@ EXCEPT !.phase = "releasing"] ELSE IdleCall]
  /\ UNCHANGED <<breaker, shared, lock, healthy>>

\* The local counter is decremented, also when the slot was a shared one.
CancelRelease(c) ==
  /\ call[c].phase = "releasing"
  /\ lock[Home[c]] = NoCall
  /\ breaker' = [breaker EXCEPT ![Home[c]].half_open_calls = ReleaseLocalSlot(@)]
  /\ call' = [call EXCEPT ![c] = IdleCall]
  /\ UNCHANGED <<shared, lock, cancels, healthy>>

----------------------------------------------------------------------------
(* Time and the service behind                                             *)

\* reset_timeout passes since the last failure, as an instance sees it ...
LocalCooldown(i) ==
  /\ breaker[i].last_failure = "recent"
  /\ breaker' = [breaker EXCEPT ![i].last_failure = "elapsed"]
  /\ UNCHANGED <<shared, call, lock, cancels, healthy>>

\* ... and as the shared timestamp tells.
SharedCooldown ==
  /\ shared.last_failure = "recent"
  /\ shared' = [shared EXCEPT !.last_failure = "elapsed"]
  /\ UNCHANGED <<breaker, call, lock, cancels, healthy>>

\* The TTL (120 s) of last_failure and failures runs out, later than the cooldown.
KeysGone ==
  /\ KeysExpire
  /\ shared.last_failure = "elapsed"
  /\ shared' = [shared EXCEPT !.last_failure = "none", !.failures = 0]
  /\ UNCHANGED <<breaker, call, lock, cancels, healthy>>

\* The TTL (60 s) that the last acquire gave to half_slots runs out.  A release
\* after that counts below zero: DECR makes a new key, without a TTL.
SlotsGone ==
  /\ KeysExpire
  /\ shared.half_slots > 0
  /\ shared' = [shared EXCEPT !.half_slots = 0]
  /\ UNCHANGED <<breaker, call, lock, cancels, healthy>>

Recover ==
  /\ ~healthy
  /\ healthy' = TRUE
  /\ UNCHANGED <<breaker, shared, call, lock, cancels>>

----------------------------------------------------------------------------
Init ==
  /\ breaker = [i \in Instances |-> [state |-> "closed", failure_count |-> 0,
                  success_count |-> 0, last_failure |-> "none", half_open_calls |-> 0]]
  /\ shared = [failures |-> 0, last_failure |-> "none", half_slots |-> 0]
  /\ call = [c \in Calls |-> IdleCall]
  /\ lock = [i \in Instances |-> NoCall]
  /\ cancels = 0
  /\ healthy = FALSE

CanExecute(c) ==
  ReadShared(c) \/ Decide(c) \/ TryLocalSlot(c) \/ TrySharedSlot(c) \/ UndoSharedSlot(c)

Return(c) == \/ ReleaseSharedSlot(c) \/ record_success(c)
             \/ CountSharedFailure(c) \/ record_failure(c) \/ CancelRelease(c)

Next ==
  \/ \E c \in Calls : CanExecute(c) \/ Return(c) \/ Cancel(c)
  \/ \E i \in Instances : IsAccepting(i) \/ LocalCooldown(i)
  \/ SharedCooldown \/ KeysGone \/ SlotsGone \/ Recover

Spec == Init /\ [][Next]_vars

\* Calls keep arriving and come back, time passes, the service recovers; no call
\* need ever be cancelled and no key need ever expire.
Fairness ==
  /\ \A c \in Calls : SF_vars(CanExecute(c)) /\ SF_vars(Return(c))
  /\ \A i \in Instances : WF_vars(LocalCooldown(i))
  /\ WF_vars(SharedCooldown)
  /\ WF_vars(Recover)

FairSpec == Spec /\ Fairness

----------------------------------------------------------------------------
(* Properties                                                              *)

\* Type correctness of the breakers, the Redis keys and the calls.
TypeOK ==
  /\ breaker \in [Instances -> Breaker]
  /\ shared \in Shared
  /\ call \in [Calls -> Call]
  /\ lock \in [Instances -> Calls \cup {NoCall}]
  /\ cancels \in 0..MaxCancels
  /\ healthy \in BOOLEAN

\* Slots are not leaked without Redis: the counter of an instance never exceeds
\* the slots its calls hold, so when half-open refuses a call some trial is on
\* its way to give a slot back; in the other states the counter is zero.
NoSlotLeak ==
  ~UseRedis => \A i \in Instances :
    /\ breaker[i].half_open_calls <= Cardinality(Holding(CallsOf(i)))
    /\ breaker[i].state # "half_open" => breaker[i].half_open_calls = 0

\* _try_acquire_half_open_slot: "At most half_open_max_calls slots can be held
\* across all workers."
HalfOpenBound == UseRedis => Cardinality(Holding(Calls)) <= half_open_max_calls

\* What one instance learns holds for all: a call that finds the shared failure
\* count at the threshold and the last failure within the cooldown is not let
\* through, whichever instance recorded the failures and whatever its own state.
SharedCooldownHolds ==
  [][\A c \in Calls :
       /\ UseRedis
       /\ call[c].phase = "reading"
       /\ call[c].failures >= failure_threshold /\ call[c].last_failure = "recent"
       => call'[c].phase # "running"]_vars

\* Once the service has recovered, no instance refuses for ever: an open breaker
\* is probed, trial calls are admitted, and it closes.
BreakerRecovers ==
  \A i \in Instances : breaker[i].state = "open" ~> breaker[i].state = "closed"
============================================================================
