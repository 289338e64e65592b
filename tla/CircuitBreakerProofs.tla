------------------------ MODULE CircuitBreakerProofs ------------------------
(***************************************************************************)
(* Theorems about CircuitBreaker, for any number of instances and calls,   *)
(* any thresholds, with and without Redis.                                 *)
(***************************************************************************)
EXTENDS CircuitBreaker, FiniteSetTheorems, TLAPS

\* Where a call can be.
Phases == {"idle", "reading", "undo", "running", "succeeding", "failing", "releasing"}

-----------------------------------------------------------------------------
(* The transitions keep the type of a breaker                              *)

LEMMA Bounds ==
  /\ {failure_threshold, success_threshold, half_open_max_calls, MaxCancels, MaxCredit}
       \subseteq Nat
  /\ 0 \in 0..failure_threshold /\ 0 \in 0..half_open_max_calls /\ 0 \in 0..MaxCancels
  BY CircuitBreakerAssumption

LEMMA AdvanceTypes ==
  ASSUME NEW b \in Breaker, NEW failures \in 0..failure_threshold, NEW last \in Ages
  PROVE  /\ Advance(b, failures, last) \in Breaker
         /\ Advance(b, failures, last).half_open_calls = b.half_open_calls
  <1>1. /\ Propagate(b, failures, last) \in Breaker
        /\ Propagate(b, failures, last).half_open_calls = b.half_open_calls
    BY DEF Propagate, Breaker, Ages
  <1>2. \A d \in Breaker : /\ HalfOpenTransition(d, last) \in Breaker
                           /\ HalfOpenTransition(d, last).half_open_calls = d.half_open_calls
    BY DEF HalfOpenTransition, Breaker, Ages
  <1>3. QED
    BY <1>1, <1>2 DEF Advance

\* A call with a new phase or slot is a call.
LEMMA CallTypes ==
  /\ IdleCall \in Call
  /\ \A d \in Call :
       /\ \A slot \in BOOLEAN : [d EXCEPT !.slot = slot] \in Call
       /\ \A phase \in Phases : [d EXCEPT !.phase = phase] \in Call
       /\ \A phase \in Phases, slot \in BOOLEAN :
            [d EXCEPT !.phase = phase, !.slot = slot] \in Call
  <1>1. IdleCall \in Call
    BY Bounds DEF IdleCall, Call, Ages
  <1>2. ASSUME NEW d \in Call, NEW slot \in BOOLEAN
        PROVE  [d EXCEPT !.slot = slot] \in Call
    BY DEF Call
  <1>3. ASSUME NEW d \in Call, NEW phase \in Phases
        PROVE  [d EXCEPT !.phase = phase] \in Call
    BY DEF Call, Phases
  <1>4. ASSUME NEW d \in Call, NEW phase \in Phases, NEW slot \in BOOLEAN
        PROVE  [d EXCEPT !.phase = phase, !.slot = slot] \in Call
    BY DEF Call, Phases
  <1>5. QED
    BY <1>1, <1>2, <1>3, <1>4

\* The same of breakers and of the keys, for the fields the code writes.
LEMMA BreakerFieldTypes ==
  ASSUME NEW b \in Breaker, NEW state \in {"closed", "open", "half_open"},
         NEW failures \in 0..failure_threshold, NEW successes \in Nat,
         NEW slots \in 0..half_open_max_calls
  PROVE  /\ [b EXCEPT !.state = state, !.failure_count = failures, !.success_count = successes,
                      !.half_open_calls = slots] \in Breaker
         /\ [b EXCEPT !.state = state, !.success_count = successes,
                      !.half_open_calls = slots] \in Breaker
         /\ [b EXCEPT !.state = state] \in Breaker
         /\ [b EXCEPT !.success_count = successes, !.half_open_calls = slots] \in Breaker
         /\ [b EXCEPT !.failure_count = failures, !.half_open_calls = slots] \in Breaker
         /\ [b EXCEPT !.failure_count = failures, !.last_failure = "recent"] \in Breaker
  BY DEF Breaker, Ages

LEMMA SharedFieldTypes ==
  ASSUME NEW s \in Shared, NEW failures \in 0..failure_threshold, NEW last \in Ages,
         NEW slots \in Int
  PROVE  /\ [s EXCEPT !.half_slots = slots, !.failures = failures] \in Shared
         /\ [s EXCEPT !.last_failure = last, !.half_slots = slots] \in Shared
  BY DEF Shared

LEMMA EndCallTypes ==
  ASSUME TypeOK, NEW c \in Calls, NEW reset \in BOOLEAN, EndCall(c, reset)
  PROVE  call' \in [Calls -> Call]
  <1>1. \A d \in Calls : [call[d] EXCEPT !.slot = FALSE] \in Call
    BY DEF TypeOK, Call
  <1>2. QED
    BY <1>1, CallTypes DEF EndCall, TypeOK

-----------------------------------------------------------------------------
(* Type correctness                                                        *)

\* One step of can_execute keeps the types.
LEMMA CanExecuteTypes ==
  ASSUME TypeOK, NEW c \in Calls, CanExecute(c)
  PROVE  TypeOK'
  <1> DEFINE i == Home[c]
             b == Advance(breaker[i], call[c].failures, call[c].last_failure)
  <1>1. /\ i \in Instances /\ call[c] \in Call /\ breaker[i] \in Breaker
        /\ half_open_max_calls \in Nat /\ failure_threshold \in Nat
    BY CircuitBreakerAssumption DEF TypeOK
  <1>2. /\ b \in Breaker /\ b.half_open_calls = breaker[i].half_open_calls
    BY <1>1, AdvanceTypes DEF Call
  <1> HIDE DEF b
  <1>3. CASE ReadShared(c)
    BY <1>1, <1>3 DEF ReadShared, TypeOK, Shared, Call
  <1>4. CASE Decide(c)
    <2>1. [IdleCall EXCEPT !.phase = IF b.state = "closed" THEN "running" ELSE "idle"] \in Call
      BY CallTypes DEF Phases
    <2>2. QED
      BY <1>1, <1>2, <1>4, <2>1 DEF Decide, TypeOK, b
  <1>5. CASE TryLocalSlot(c)
    <2> DEFINE free == b.half_open_calls < half_open_max_calls
               next == IF free THEN [b EXCEPT !.half_open_calls = @ + 1] ELSE b
    <2>1. next \in Breaker
      BY <1>1, <1>2 DEF Breaker
    <2>2. [IdleCall EXCEPT !.phase = IF free THEN "running" ELSE "idle", !.slot = free] \in Call
      <3>1. /\ free \in BOOLEAN
            /\ (IF free THEN "running" ELSE "idle") \in Phases
        BY DEF Phases
      <3> HIDE DEF free
      <3>2. QED
        BY <3>1, CallTypes
    <2>3. QED
      BY <1>1, <1>5, <2>1, <2>2 DEF TryLocalSlot, TypeOK, b
  <1>6. CASE TrySharedSlot(c)
    <2> DEFINE free == shared.half_slots < half_open_max_calls
    <2>1. [IdleCall EXCEPT !.phase = IF free THEN "running" ELSE "undo", !.slot = free] \in Call
      <3>1. /\ free \in BOOLEAN
            /\ (IF free THEN "running" ELSE "undo") \in Phases
        BY DEF Phases
      <3> HIDE DEF free
      <3>2. QED
        BY <3>1, CallTypes
    <2>2. shared' \in Shared
      BY <1>6 DEF TrySharedSlot, TypeOK, Shared
    <2>3. QED
      BY <1>1, <1>2, <1>6, <2>1, <2>2 DEF TrySharedSlot, TypeOK, b
  <1>7. CASE UndoSharedSlot(c)
    <2>1. shared' \in Shared
      BY <1>7, Bounds DEF UndoSharedSlot, TypeOK, Shared, Decr
    <2>2. QED
      BY <1>1, <1>7, <2>1, CallTypes DEF UndoSharedSlot, TypeOK
  <1>8. QED
    BY <1>3, <1>4, <1>5, <1>6, <1>7 DEF CanExecute

\* One step of record_success, record_failure or a cancelled call's release.
LEMMA ReturnTypes ==
  ASSUME TypeOK, NEW c \in Calls, Return(c)
  PROVE  TypeOK'
  <1> DEFINE i == Home[c]
             b == breaker[i]
  <1>1. /\ i \in Instances /\ call[c] \in Call /\ b \in Breaker
        /\ half_open_max_calls \in Nat /\ failure_threshold \in Nat \ {0}
    BY CircuitBreakerAssumption DEF TypeOK
  <1>2. \A n \in 0..half_open_max_calls : ReleaseLocalSlot(n) \in 0..half_open_max_calls
    BY <1>1 DEF ReleaseLocalSlot, Decremented
  <1>3. CASE ReleaseSharedSlot(c)
    <2>1. shared' \in Shared
      BY <1>3, Bounds DEF ReleaseSharedSlot, TypeOK, Shared, Decr
    <2>2. [IdleCall EXCEPT !.phase = "succeeding"] \in Call
      BY CallTypes DEF Phases
    <2>3. QED
      BY <1>1, <1>3, <2>1, <2>2 DEF ReleaseSharedSlot, TypeOK
  <1>4. CASE record_success(c)
    <2> DEFINE closing == b.state = "half_open" /\ b.success_count + 1 >= success_threshold
               local == IF UseRedis THEN b.half_open_calls ELSE ReleaseLocalSlot(b.half_open_calls)
    <2>1. local \in 0..half_open_max_calls
      BY <1>1, <1>2 DEF Breaker
    <2> HIDE DEF local
    <2> DEFINE next ==
          IF closing
          THEN [b EXCEPT !.state = "closed", !.failure_count = 0, !.success_count = 0,
                         !.half_open_calls = LocalSlotsAfterReset(i)]
          ELSE IF b.state = "half_open"
          THEN [b EXCEPT !.success_count = @ + 1, !.half_open_calls = local]
          ELSE [b EXCEPT !.failure_count = IF b.state = "closed" THEN 0 ELSE @,
                         !.half_open_calls = local]
    <2>2. next \in Breaker
      <3>1. /\ b.success_count + 1 \in Nat /\ b.failure_count \in 0..failure_threshold
            /\ LocalSlotsAfterReset(i) = 0 /\ 0 \in Nat
        BY <1>1 DEF Breaker, LocalSlotsAfterReset
      <3>2. QED
        BY <1>1, <2>1, <3>1, Bounds, BreakerFieldTypes
    <2> HIDE DEF next
    <2>3. breaker' \in [Instances -> Breaker]
      <3>1. breaker' = [breaker EXCEPT ![i] = next]
        BY <1>4 DEF record_success, next, local
      <3>2. QED
        BY <1>1, <2>2, <3>1 DEF TypeOK
    <2>4. shared' \in Shared
      <3>1. /\ shared.half_slots \in Int /\ shared.failures \in 0..failure_threshold
            /\ SharedSlotsAfterReset(i) \in Int /\ shared \in Shared /\ "recent" \in Ages
        BY DEF TypeOK, Shared, SharedSlotsAfterReset, Ages
      <3> DEFINE slots == IF closing THEN SharedSlotsAfterReset(i) ELSE shared.half_slots
                 failures == IF UseRedis /\ (closing \/ b.state = "closed") THEN 0
                             ELSE shared.failures
      <3>2. slots \in Int /\ failures \in 0..failure_threshold
        BY <3>1, Bounds
      <3>3. shared' = [shared EXCEPT !.half_slots = slots, !.failures = failures]
        BY <1>4 DEF record_success
      <3> HIDE DEF slots, failures
      <3>4. QED
        BY <3>1, <3>2, <3>3, Bounds, SharedFieldTypes
    <2>5. call' \in [Calls -> Call]
      BY <1>4, EndCallTypes DEF record_success
    <2>6. QED
      BY <1>1, <1>4, <2>3, <2>4, <2>5 DEF record_success, TypeOK
  <1>5. CASE CountSharedFailure(c)
    <2>1. Plus1(shared.failures) \in 0..failure_threshold
      BY <1>1 DEF TypeOK, Shared, Plus1
    <2>2. shared' \in Shared
      BY <1>5, <2>1 DEF CountSharedFailure, TypeOK, Shared
    <2>3. \A d \in Call, n \in 0..failure_threshold :
            [d EXCEPT !.phase = "failing", !.failures = n] \in Call
      BY DEF Call
    <2>4. QED
      <3>1. /\ call' \in [Calls -> Call]
            /\ lock' \in [Instances -> Calls \cup {NoCall}]
        BY <1>1, <1>5, <2>1, <2>3 DEF CountSharedFailure, TypeOK
      <3>2. QED
        BY <1>5, <2>2, <3>1 DEF CountSharedFailure, TypeOK
  <1>6. CASE record_failure(c)
    <2> DEFINE count == IF UseRedis THEN call[c].failures ELSE Plus1(b.failure_count)
    <2>1. count \in 0..failure_threshold
      BY <1>1 DEF Breaker, Call, Plus1
    <2> HIDE DEF count
    <2> DEFINE failed == [b EXCEPT !.failure_count = IF UseRedis THEN @ ELSE count,
                                   !.last_failure = "recent"]
               next ==
                 IF b.state = "half_open"
                 THEN [failed EXCEPT !.state = "open", !.success_count = 0,
                                     !.half_open_calls = LocalSlotsAfterReset(i)]
                 ELSE IF b.state = "closed" /\ count >= failure_threshold
                 THEN [failed EXCEPT !.state = "open"]
                 ELSE failed
    <2>2. next \in Breaker
      <3>1. (IF UseRedis THEN b.failure_count ELSE count) \in 0..failure_threshold
        BY <1>1, <2>1 DEF Breaker
      <3>2. failed \in Breaker
        BY <1>1, <3>1, Bounds, BreakerFieldTypes
      <3> HIDE DEF failed
      <3>3. LocalSlotsAfterReset(i) = 0 /\ 0 \in Nat
        BY DEF LocalSlotsAfterReset
      <3>4. QED
        BY <3>2, <3>3, Bounds, BreakerFieldTypes
    <2>3. breaker' \in [Instances -> Breaker]
      <3>1. breaker' = [breaker EXCEPT ![i] = next]
        BY <1>6 DEF record_failure, count
      <3> HIDE DEF next
      <3>2. QED
        BY <1>1, <2>2, <3>1 DEF TypeOK
    <2>4. shared' \in Shared
      <3>1. /\ shared.half_slots \in Int /\ shared.last_failure \in Ages /\ "recent" \in Ages
            /\ SharedSlotsAfterReset(i) \in Int /\ shared \in Shared
        BY DEF TypeOK, Shared, SharedSlotsAfterReset, Ages
      <3>2. QED
        BY <1>6, <3>1, Bounds, SharedFieldTypes DEF record_failure
    <2>5. call' \in [Calls -> Call]
      BY <1>6, EndCallTypes DEF record_failure
    <2>6. QED
      BY <1>1, <1>6, <2>3, <2>4, <2>5 DEF record_failure, TypeOK
  <1>7. CASE CancelRelease(c)
    <2>1. [b EXCEPT !.half_open_calls = ReleaseLocalSlot(@)] \in Breaker
      BY <1>1, <1>2 DEF Breaker
    <2>2. QED
      BY <1>1, <1>7, <2>1, CallTypes DEF CancelRelease, TypeOK
  <1>8. QED
    BY <1>3, <1>4, <1>5, <1>6, <1>7 DEF Return

\* Breakers, keys and calls keep their types: the fields of CircuitBreaker
\* (circuit_breaker.py 89-104) and the Redis keys behind them.
THEOREM BreakerTypes == Spec => []TypeOK
  <1>1. Init => TypeOK
    <2> SUFFICES ASSUME Init PROVE TypeOK
      OBVIOUS
    <2>1. breaker \in [Instances -> Breaker]
      BY Bounds DEF Init, Breaker, Ages
    <2>2. shared \in Shared
      BY Bounds DEF Init, Shared, Ages
    <2>3. QED
      BY <2>1, <2>2, Bounds, CallTypes DEF Init, TypeOK
  <1>2. TypeOK /\ [Next]_vars => TypeOK'
    <2> SUFFICES ASSUME TypeOK, [Next]_vars
                 PROVE  TypeOK'
      OBVIOUS
    <2>1. ASSUME NEW c \in Calls, CanExecute(c)
          PROVE  TypeOK'
      BY <2>1, CanExecuteTypes
    <2>2. ASSUME NEW c \in Calls, Return(c)
          PROVE  TypeOK'
      BY <2>2, ReturnTypes
    <2>3. ASSUME NEW c \in Calls, Cancel(c)
          PROVE  TypeOK'
      <3>1. cancels' \in 0..MaxCancels
        BY <2>3, CircuitBreakerAssumption DEF Cancel, TypeOK
      <3>2. [call[c] EXCEPT !.phase = "releasing"] \in Call
        BY DEF TypeOK, Call
      <3>3. QED
        BY <2>3, <3>1, <3>2, CallTypes DEF Cancel, TypeOK
    <2>4. ASSUME NEW i \in Instances, IsAccepting(i)
          PROVE  TypeOK'
      <3>1. Advance(breaker[i], shared.failures, shared.last_failure) \in Breaker
        BY AdvanceTypes DEF TypeOK, Shared
      <3>2. QED
        BY <2>4, <3>1 DEF IsAccepting, TypeOK
    <2>5. ASSUME NEW i \in Instances, LocalCooldown(i)
          PROVE  TypeOK'
      <3>1. [breaker[i] EXCEPT !.last_failure = "elapsed"] \in Breaker
        BY DEF TypeOK, Breaker, Ages
      <3>2. QED
        BY <2>5, <3>1 DEF LocalCooldown, TypeOK
    <2>6. CASE SharedCooldown
      BY <2>6 DEF SharedCooldown, TypeOK, Shared, Ages
    <2>7. CASE KeysGone \/ SlotsGone
      <3>1. CASE KeysGone
        BY <3>1, Bounds DEF KeysGone, TypeOK, Shared, Ages
      <3>2. CASE SlotsGone
        BY <3>2 DEF SlotsGone, TypeOK, Shared
      <3>3. QED
        BY <2>7, <3>1, <3>2
    <2>8. CASE Recover
      BY <2>8 DEF Recover, TypeOK
    <2>9. CASE UNCHANGED vars
      BY <2>9 DEF vars, TypeOK
    <2>10. QED
      BY <2>1, <2>2, <2>3, <2>4, <2>5, <2>6, <2>7, <2>8, <2>9 DEF Next
  <1>3. QED
    BY <1>1, <1>2, PTL DEF Spec

-----------------------------------------------------------------------------
(* The shared keys rule                                                    *)

\* A call that has read a full count of failures and a recent last failure is
\* not admitted, in whatever state its instance is: in can_execute (circuit_breaker.py
\* 337-381) the clause that opens a breaker that is not open yet comes before every path
\* that admits.
THEOREM SharedKeysRule == Spec => SharedCooldownHolds
  <1> DEFINE Rule == \A c \in Calls :
               /\ UseRedis
               /\ call[c].phase = "reading"
               /\ call[c].failures >= failure_threshold /\ call[c].last_failure = "recent"
               => call'[c].phase # "running"
  <1>1. TypeOK /\ [Next]_vars => [Rule]_vars
    <2> SUFFICES ASSUME TypeOK, Next, NEW c \in Calls, UseRedis,
                        call[c].phase = "reading",
                        call[c].failures >= failure_threshold, call[c].last_failure = "recent"
                 PROVE  call'[c].phase # "running"
      OBVIOUS
    <2> DEFINE b == Advance(breaker[Home[c]], call[c].failures, call[c].last_failure)
    <2>1. b.state = "open"
      <3>1. breaker[Home[c]] \in Breaker
        BY CircuitBreakerAssumption DEF TypeOK
      <3>2. Propagate(breaker[Home[c]], call[c].failures, call[c].last_failure).state = "open"
        BY <3>1 DEF Propagate, Breaker
      <3>3. QED
        BY <3>2 DEF Advance, HalfOpenTransition
    <2> HIDE DEF b
    <2>2. call \in [Calls -> Call]
      BY DEF TypeOK
    <2>3. ASSUME NEW d \in Calls, CanExecute(d)
          PROVE  call'[c].phase # "running"
      <3>1. CASE d = c
        <4>1. CASE Decide(c)
          BY <2>1, <2>2, <4>1 DEF Decide, b, Call, IdleCall
        <4>2. CASE TrySharedSlot(c)
          BY <2>1, <4>2 DEF TrySharedSlot, b
        <4>3. QED
          BY <2>3, <3>1, <4>1, <4>2
             DEF CanExecute, ReadShared, TryLocalSlot, UndoSharedSlot
      <3>2. CASE d # c
        <4>1. call'[c] = call[c]
          BY <2>2, <2>3, <3>2
             DEF CanExecute, ReadShared, Decide, TryLocalSlot, TrySharedSlot, UndoSharedSlot
        <4>2. QED
          BY <4>1
      <3>3. QED
        BY <3>1, <3>2
    <2>4. ASSUME NEW d \in Calls, NEW reset \in BOOLEAN, EndCall(d, reset), d # c
          PROVE  call'[c].phase # "running"
      BY <2>2, <2>4 DEF EndCall, Call
    <2>5. ASSUME NEW d \in Calls, Return(d)
          PROVE  call'[c].phase # "running"
      <3>1. d # c
        BY <2>5 DEF Return, ReleaseSharedSlot, record_success, CountSharedFailure,
                    record_failure, CancelRelease, Recording
      <3>2. CASE record_success(d) \/ record_failure(d)
        BY <2>4, <3>1, <3>2 DEF record_success, record_failure
      <3>3. CASE ReleaseSharedSlot(d) \/ CountSharedFailure(d) \/ CancelRelease(d)
        BY <2>2, <3>1, <3>3 DEF ReleaseSharedSlot, CountSharedFailure, CancelRelease
      <3>4. QED
        BY <2>5, <3>2, <3>3 DEF Return
    <2>6. ASSUME NEW d \in Calls, Cancel(d)
          PROVE  call'[c].phase # "running"
      BY <2>2, <2>6 DEF Cancel, Call
    <2>7. CASE \/ \E i \in Instances : IsAccepting(i) \/ LocalCooldown(i)
               \/ SharedCooldown \/ KeysGone \/ SlotsGone \/ Recover
      BY <2>7 DEF IsAccepting, LocalCooldown, SharedCooldown, KeysGone, SlotsGone, Recover
    <2>8. QED
      BY <2>3, <2>5, <2>6, <2>7 DEF Next
  <1>2. QED
    BY <1>1, BreakerTypes, PTL DEF Spec, SharedCooldownHolds

-----------------------------------------------------------------------------
(* Without Redis no slot is lost                                           *)

\* A call that has not been admitted holds no slot, and can_execute never has to
\* undo one: the part of the invariant that NoSlotLeak alone does not give.
SlotIsAdmission ==
  ~UseRedis => \A c \in Calls :
    /\ call[c].phase # "undo"
    /\ call[c].phase \in {"idle", "reading"} => ~call[c].slot

LocalInv == TypeOK /\ SlotIsAdmission /\ NoSlotLeak

\* How the number of holders moves when only c gains or gives up a slot.
LEMMA HoldersCount ==
  ASSUME NEW c \in Calls, NEW i \in Instances,
         \A d \in Calls \ {c} : call'[d].slot = call[d].slot
  PROVE  LET n == Cardinality(Holding(CallsOf(i)))
             m == Cardinality(Holding(CallsOf(i)))'
         IN  /\ n \in Nat /\ m \in Nat
             /\ (Home[c] # i \/ call'[c].slot = call[c].slot) => m = n
             /\ (Home[c] = i /\ ~call[c].slot /\ call'[c].slot) => m = n + 1
             /\ ~call'[c].slot => m >= n - 1
  <1> DEFINE H == Holding(CallsOf(i))
             G == Holding(CallsOf(i))'
  <1>1. /\ H \subseteq Calls /\ G \subseteq Calls
        /\ \A d \in Calls : /\ d \in H <=> Home[d] = i /\ call[d].slot
                            /\ d \in G <=> Home[d] = i /\ call'[d].slot
    BY DEF Holding, CallsOf
  <1> HIDE DEF H, G
  <1>2. IsFiniteSet(H) /\ IsFiniteSet(G)
    BY <1>1, CircuitBreakerAssumption, FS_Subset
  <1>3. Cardinality(H) \in Nat /\ Cardinality(G) \in Nat
    BY <1>2, FS_CardinalityType
  <1>4. (Home[c] # i \/ call'[c].slot = call[c].slot) => G = H
    BY <1>1
  <1>5. (Home[c] = i /\ ~call[c].slot /\ call'[c].slot) => Cardinality(G) = Cardinality(H) + 1
    <2> SUFFICES ASSUME Home[c] = i, ~call[c].slot, call'[c].slot
                 PROVE  Cardinality(G) = Cardinality(H) + 1
      OBVIOUS
    <2>1. G = H \cup {c} /\ c \notin H
      BY <1>1
    <2>2. QED
      BY <1>2, <2>1, FS_AddElement
  <1>6. ~call'[c].slot => Cardinality(G) >= Cardinality(H) - 1
    <2> SUFFICES ASSUME ~call'[c].slot
                 PROVE  Cardinality(G) >= Cardinality(H) - 1
      OBVIOUS
    <2>1. CASE c \in H
      <3>1. G = H \ {c}
        BY <1>1, <2>1
      <3>2. Cardinality(H \ {c}) = Cardinality(H) - 1
        BY <1>2, <2>1, FS_RemoveElement
      <3>3. QED
        BY <1>3, <3>1, <3>2
    <2>2. CASE c \notin H
      <3>1. G = H
        BY <1>1, <2>2
      <3>2. QED
        BY <1>3, <3>1
    <2>3. QED
      BY <2>1, <2>2
  <1>7. QED
    BY <1>3, <1>4, <1>5, <1>6 DEF H, G

\* A step of one call keeps NoSlotLeak when the counter of its instance follows
\* the slot, is given back with it, or is zero.
LEMMA SlotStep ==
  ASSUME NoSlotLeak, ~UseRedis, NEW c \in Calls,
         breaker \in [Instances -> Breaker], NEW b \in Breaker,
         breaker' = [breaker EXCEPT ![Home[c]] = b],
         b.state # "half_open" => b.half_open_calls = 0,
         \/ b.half_open_calls = 0 /\ \A d \in Calls \ {c} :
              Home[d] # Home[c] => call'[d].slot = call[d].slot
         \/ /\ \A d \in Calls \ {c} : call'[d].slot = call[d].slot
            /\ \/ /\ b.half_open_calls = breaker[Home[c]].half_open_calls
                  /\ call'[c].slot = call[c].slot
               \/ /\ b.half_open_calls = breaker[Home[c]].half_open_calls + 1
                  /\ ~call[c].slot /\ call'[c].slot
               \/ /\ b.half_open_calls = Decremented(breaker[Home[c]].half_open_calls)
                  /\ ~call'[c].slot
  PROVE  NoSlotLeak'
  <1> SUFFICES ASSUME NEW i \in Instances
               PROVE  /\ breaker'[i].half_open_calls <= Cardinality(Holding(CallsOf(i)))'
                      /\ breaker'[i].state # "half_open" => breaker'[i].half_open_calls = 0
    BY DEF NoSlotLeak
  <1>1. /\ Home[c] \in Instances
        /\ breaker[i].half_open_calls <= Cardinality(Holding(CallsOf(i)))
        /\ breaker[i].state # "half_open" => breaker[i].half_open_calls = 0
        /\ breaker[i].half_open_calls \in Nat /\ b.half_open_calls \in Nat
    BY CircuitBreakerAssumption DEF NoSlotLeak, Breaker
  <1> DEFINE n == Cardinality(Holding(CallsOf(i)))
             m == Cardinality(Holding(CallsOf(i)))'
  <1>2. m \in Nat /\ n \in Nat
    <2>1. IsFiniteSet(Holding(CallsOf(i))) /\ IsFiniteSet(Holding(CallsOf(i))')
      BY CircuitBreakerAssumption, FS_Subset DEF Holding, CallsOf
    <2>2. QED
      BY <2>1, FS_CardinalityType
  <1>3. CASE i # Home[c]
    <2>1. \A d \in Calls : Home[d] = i => call'[d].slot = call[d].slot
      BY <1>3
    <2>2. Holding(CallsOf(i))' = Holding(CallsOf(i))
      BY <2>1 DEF Holding, CallsOf
    <2>3. breaker'[i] = breaker[i]
      BY <1>3
    <2>4. QED
      BY <1>1, <2>2, <2>3
  <1>4. CASE i = Home[c]
    <2>1. breaker'[i] = b
      BY <1>4
    <2>2. CASE b.half_open_calls = 0
      BY <1>2, <2>1, <2>2
    <2>3. CASE \A d \in Calls \ {c} : call'[d].slot = call[d].slot
      <3>1. /\ call'[c].slot = call[c].slot => m = n
            /\ ~call[c].slot /\ call'[c].slot => m = n + 1
            /\ ~call'[c].slot => m >= n - 1
        BY <1>4, <2>3, HoldersCount
      <3> HIDE DEF m, n
      <3>2. breaker[i].half_open_calls <= n
        BY <1>1 DEF n
      <3>3. b.half_open_calls <= m
        BY <1>1, <1>2, <1>4, <3>1, <3>2 DEF Decremented
      <3>4. QED
        BY <2>1, <3>3 DEF m
    <2>4. QED
      BY <2>2, <2>3
  <1>5. QED
    BY <1>3, <1>4

\* Without Redis a look at the clock only opens the way to half-open.
LEMMA LocalAdvance ==
  ASSUME ~UseRedis, NEW b \in Breaker, b.state # "half_open" => b.half_open_calls = 0,
         NEW failures \in 0..failure_threshold, NEW last \in Ages
  PROVE  LET a == Advance(b, failures, last)
         IN  a.state # "half_open" => a.half_open_calls = 0
  <1>1. Propagate(b, failures, last) = b
    BY DEF Propagate
  <1>2. QED
    BY <1>1 DEF Advance, HalfOpenTransition, Breaker

\* can_execute without Redis: a slot is counted exactly when it is taken.
LEMMA LocalCanExecute ==
  ASSUME LocalInv, ~UseRedis, NEW c \in Calls, CanExecute(c)
  PROVE  SlotIsAdmission' /\ NoSlotLeak'
  <1> DEFINE i == Home[c]
             b == Advance(breaker[i], call[c].failures, call[c].last_failure)
  <1>1. /\ i \in Instances /\ call[c] \in Call /\ breaker[i] \in Breaker
        /\ call \in [Calls -> Call] /\ breaker \in [Instances -> Breaker]
        /\ breaker[i].state # "half_open" => breaker[i].half_open_calls = 0
        /\ half_open_max_calls \in Nat
    BY CircuitBreakerAssumption DEF LocalInv, TypeOK, NoSlotLeak
  <1>2. /\ b \in Breaker /\ b.half_open_calls = breaker[i].half_open_calls
        /\ b.state # "half_open" => b.half_open_calls = 0
    BY <1>1, AdvanceTypes, LocalAdvance DEF Call
  <1> HIDE DEF b
  <1>3. NoSlotLeak
    BY DEF LocalInv
  <1>4. CASE ReadShared(c)
    <2>1. SlotIsAdmission'
      BY <1>1, <1>4 DEF LocalInv, SlotIsAdmission, ReadShared, Call
    <2>2. /\ breaker' = [breaker EXCEPT ![Home[c]] = breaker[Home[c]]]
          /\ \A d \in Calls \ {c} : call'[d].slot = call[d].slot
          /\ call'[c].slot = call[c].slot
      BY <1>1, <1>4 DEF ReadShared, Call
    <2>3. NoSlotLeak'
      BY <1>1, <1>3, <2>2, SlotStep
    <2>4. QED
      BY <2>1, <2>3
  <1>5. CASE Decide(c)
    <2>1. SlotIsAdmission'
      BY <1>1, <1>5 DEF LocalInv, SlotIsAdmission, Decide, IdleCall
    <2>2. /\ breaker' = [breaker EXCEPT ![Home[c]] = b]
          /\ \A d \in Calls \ {c} : call'[d].slot = call[d].slot
          /\ b.half_open_calls = 0
      BY <1>1, <1>2, <1>5 DEF Decide, b
    <2>3. NoSlotLeak'
      BY <1>1, <1>2, <1>3, <2>2, SlotStep
    <2>4. QED
      BY <2>1, <2>3
  <1>6. CASE TryLocalSlot(c)
    <2>1. SlotIsAdmission'
      BY <1>1, <1>6 DEF LocalInv, SlotIsAdmission, TryLocalSlot, IdleCall
    <2>2. ~call[c].slot /\ \A d \in Calls \ {c} : call'[d].slot = call[d].slot
      BY <1>1, <1>6 DEF LocalInv, SlotIsAdmission, TryLocalSlot
    <2>3. CASE b.half_open_calls < half_open_max_calls
      <3> DEFINE next == [b EXCEPT !.half_open_calls = @ + 1]
      <3>1. /\ breaker' = [breaker EXCEPT ![Home[c]] = next] /\ call'[c].slot
            /\ b.state = "half_open"
        <4>1. breaker' = [breaker EXCEPT ![Home[c]] = next] /\ b.state = "half_open"
          BY <1>6, <2>3 DEF TryLocalSlot, b
        <4>2. call'[c] = [IdleCall EXCEPT !.phase = "running", !.slot = TRUE]
          BY <1>1, <1>6, <2>3 DEF TryLocalSlot, b
        <4>3. QED
          BY <4>1, <4>2 DEF IdleCall
      <3>2. /\ next \in Breaker /\ next.state = "half_open"
            /\ next.half_open_calls = breaker[Home[c]].half_open_calls + 1
        BY <1>1, <1>2, <2>3, <3>1 DEF Breaker
      <3> HIDE DEF next
      <3>3. NoSlotLeak'
        BY <1>1, <1>3, <2>2, <3>1, <3>2, SlotStep
      <3>4. QED
        BY <2>1, <3>3
    <2>4. CASE ~(b.half_open_calls < half_open_max_calls)
      <3>1. breaker' = [breaker EXCEPT ![Home[c]] = b] /\ call'[c].slot = call[c].slot
        <4> DEFINE free == b.half_open_calls < half_open_max_calls
        <4>1. /\ breaker' = [breaker EXCEPT ![Home[c]] =
                              IF free THEN [b EXCEPT !.half_open_calls = @ + 1] ELSE b]
              /\ call' = [call EXCEPT ![c] = [IdleCall EXCEPT
                           !.phase = IF free THEN "running" ELSE "idle", !.slot = free]]
          BY <1>6 DEF TryLocalSlot, b
        <4>2. free = FALSE
          BY <2>4
        <4> HIDE DEF free
        <4>3. /\ breaker' = [breaker EXCEPT ![Home[c]] = b]
              /\ call'[c].slot = FALSE
          BY <1>1, <4>1, <4>2 DEF IdleCall
        <4>4. QED
          BY <1>1, <2>2, <4>3 DEF Call
      <3>2. NoSlotLeak'
        BY <1>1, <1>2, <1>3, <2>2, <3>1, SlotStep
      <3>3. QED
        BY <2>1, <3>2
    <2>5. QED
      BY <2>3, <2>4
  <1>7. QED
    <2>1. ~TrySharedSlot(c) /\ ~UndoSharedSlot(c)
      BY DEF TrySharedSlot, UndoSharedSlot, LocalInv, SlotIsAdmission
    <2>2. QED
      BY <1>4, <1>5, <1>6, <2>1 DEF CanExecute

\* Every way back without Redis gives back what the call took: success, failure,
\* cancellation.
LEMMA LocalReturn ==
  ASSUME LocalInv, ~UseRedis, NEW c \in Calls, Return(c) \/ Cancel(c)
  PROVE  SlotIsAdmission' /\ NoSlotLeak'
  <1> DEFINE i == Home[c]
             b == breaker[i]
  <1>1. /\ i \in Instances /\ call[c] \in Call /\ b \in Breaker
        /\ call \in [Calls -> Call] /\ breaker \in [Instances -> Breaker]
        /\ b.state # "half_open" => b.half_open_calls = 0
        /\ b.half_open_calls \in 0..half_open_max_calls
        /\ half_open_max_calls \in Nat
    BY CircuitBreakerAssumption DEF LocalInv, TypeOK, NoSlotLeak, Breaker
  <1>2. NoSlotLeak
    BY DEF LocalInv
  <1>3. /\ Decremented(b.half_open_calls) \in 0..half_open_max_calls
        /\ b.state # "half_open" => Decremented(b.half_open_calls) = 0
    BY <1>1 DEF Decremented
  <1>4. ASSUME NEW reset \in BOOLEAN, EndCall(c, reset)
        PROVE  /\ SlotIsAdmission' /\ ~call'[c].slot
               /\ \A d \in Calls \ {c} :
                    (Home[d] # Home[c] \/ ~reset) => call'[d].slot = call[d].slot
    <2>1. call'[c] = IdleCall
      BY <1>4 DEF EndCall
    <2>2. \A d \in Calls \ {c} :
            /\ call'[d].phase = call[d].phase
            /\ call'[d].slot => call[d].slot
            /\ (Home[d] # Home[c] \/ ~reset) => call'[d].slot = call[d].slot
      BY <1>1, <1>4 DEF EndCall, Pool, CallsOf, Call
    <2>3. SlotIsAdmission'
      BY <2>1, <2>2 DEF SlotIsAdmission, LocalInv, IdleCall
    <2>4. QED
      BY <2>1, <2>2, <2>3 DEF IdleCall
  <1>5. CASE record_success(c)
    <2> DEFINE closing == b.state = "half_open" /\ b.success_count + 1 >= success_threshold
    <2>1. EndCall(c, closing)
      BY <1>5 DEF record_success
    <2>2. CASE closing
      <3> DEFINE next == [b EXCEPT !.state = "closed", !.failure_count = 0, !.success_count = 0,
                                   !.half_open_calls = 0]
      <3>1. breaker' = [breaker EXCEPT ![Home[c]] = next]
        BY <1>5, <2>2 DEF record_success, LocalSlotsAfterReset
      <3>2. next \in Breaker /\ next.half_open_calls = 0
        BY <1>1, Bounds DEF Breaker
      <3> HIDE DEF next
      <3>3. EndCall(c, TRUE)
        BY <2>1, <2>2
      <3>4. /\ SlotIsAdmission'
            /\ \A d \in Calls \ {c} : Home[d] # Home[c] => call'[d].slot = call[d].slot
        BY <3>3, <1>4
      <3>5. NoSlotLeak'
        BY <1>1, <1>2, <3>1, <3>2, <3>4, SlotStep
      <3>6. QED
        BY <3>4, <3>5
    <2>3. CASE ~closing
      <3> DEFINE next ==
            IF b.state = "half_open"
            THEN [b EXCEPT !.success_count = @ + 1,
                           !.half_open_calls = Decremented(b.half_open_calls)]
            ELSE [b EXCEPT !.failure_count = IF b.state = "closed" THEN 0 ELSE @,
                           !.half_open_calls = Decremented(b.half_open_calls)]
      <3>1. breaker' = [breaker EXCEPT ![Home[c]] = next]
        BY <1>5, <2>3 DEF record_success, ReleaseLocalSlot
      <3>2. /\ next \in Breaker /\ next.state = b.state
            /\ next.half_open_calls = Decremented(b.half_open_calls)
        <4>1. /\ b.success_count + 1 \in Nat
              /\ (IF b.state = "closed" THEN 0 ELSE b.failure_count) \in 0..failure_threshold
          BY <1>1, Bounds DEF Breaker
        <4>2. QED
          BY <1>1, <1>3, <4>1 DEF Breaker
      <3> HIDE DEF next
      <3>3. EndCall(c, FALSE)
        BY <2>1, <2>3
      <3>4. /\ SlotIsAdmission' /\ ~call'[c].slot
            /\ \A d \in Calls \ {c} : call'[d].slot = call[d].slot
        BY <3>3, <1>4
      <3>5. NoSlotLeak'
        BY <1>1, <1>2, <1>3, <3>1, <3>2, <3>4, SlotStep
      <3>6. QED
        BY <3>4, <3>5
    <2>4. QED
      BY <2>2, <2>3
  <1>6. CASE record_failure(c)
    <2> DEFINE next == breaker'[i]
    <2>1. EndCall(c, b.state = "half_open")
      BY <1>6 DEF record_failure
    <2>2. /\ next.half_open_calls = 0
          /\ breaker' = [breaker EXCEPT ![Home[c]] = next]
      <3> DEFINE count == Plus1(b.failure_count)
                 failed == [b EXCEPT !.failure_count = count, !.last_failure = "recent"]
                 new == IF b.state = "half_open"
                        THEN [failed EXCEPT !.state = "open", !.success_count = 0,
                                            !.half_open_calls = 0]
                        ELSE IF b.state = "closed" /\ count >= failure_threshold
                        THEN [failed EXCEPT !.state = "open"]
                        ELSE failed
      <3>1. breaker' = [breaker EXCEPT ![Home[c]] = new]
        BY <1>6 DEF record_failure, LocalSlotsAfterReset
      <3>2. new.half_open_calls = 0
        BY <1>1 DEF Breaker
      <3> HIDE DEF new
      <3>3. QED
        BY <1>1, <3>1, <3>2
    <2>3. next \in Breaker
      BY <1>1, <1>6, ReturnTypes DEF Return, LocalInv, TypeOK
    <2> HIDE DEF next
    <2>4. /\ SlotIsAdmission'
          /\ \A d \in Calls \ {c} : Home[d] # Home[c] => call'[d].slot = call[d].slot
      <3>1. CASE b.state = "half_open"
        BY <2>1, <3>1, <1>4
      <3>2. CASE b.state # "half_open"
        BY <2>1, <3>2, <1>4
      <3>3. QED
        BY <3>1, <3>2
    <2>5. NoSlotLeak'
      BY <1>1, <1>2, <2>2, <2>3, <2>4, SlotStep
    <2>6. QED
      BY <2>4, <2>5
  <1>7. CASE CancelRelease(c)
    <2> DEFINE next == [b EXCEPT !.half_open_calls = Decremented(b.half_open_calls)]
    <2>1. breaker' = [breaker EXCEPT ![Home[c]] = next]
      BY <1>7 DEF CancelRelease, ReleaseLocalSlot
    <2>2. /\ next \in Breaker /\ next.state = b.state
          /\ next.half_open_calls = Decremented(b.half_open_calls)
      BY <1>1, <1>3 DEF Breaker
    <2> HIDE DEF next
    <2>3. /\ call'[c] = IdleCall
          /\ \A d \in Calls \ {c} : call'[d] = call[d]
      BY <1>1, <1>7 DEF CancelRelease
    <2>4. SlotIsAdmission'
      BY <2>3 DEF SlotIsAdmission, LocalInv, IdleCall
    <2>5. ~call'[c].slot /\ \A d \in Calls \ {c} : call'[d].slot = call[d].slot
      BY <2>3 DEF IdleCall
    <2>6. NoSlotLeak'
      BY <1>1, <1>2, <1>3, <2>1, <2>2, <2>5, SlotStep
    <2>7. QED
      BY <2>4, <2>6
  <1>8. CASE Cancel(c)
    <2>1. \A d \in Calls \ {c} : call'[d] = call[d]
      BY <1>1, <1>8 DEF Cancel
    <2>2. breaker' = [breaker EXCEPT ![Home[c]] = b]
      BY <1>1, <1>8 DEF Cancel
    <2>3. CASE b.state = "half_open"
      <3>1. call'[c].phase = "releasing" /\ call'[c].slot = call[c].slot
        BY <1>1, <1>8, <2>3 DEF Cancel, Call
      <3>2. SlotIsAdmission'
        BY <2>1, <3>1 DEF SlotIsAdmission, LocalInv
      <3>3. NoSlotLeak'
        BY <1>1, <1>2, <2>1, <2>2, <3>1, SlotStep
      <3>4. QED
        BY <3>2, <3>3
    <2>4. CASE b.state # "half_open"
      <3>1. call'[c] = IdleCall
        BY <1>1, <1>8, <2>4 DEF Cancel
      <3>2. SlotIsAdmission'
        BY <2>1, <3>1 DEF SlotIsAdmission, LocalInv, IdleCall
      <3>3. NoSlotLeak'
        BY <1>1, <1>2, <2>1, <2>2, <2>4, SlotStep
      <3>4. QED
        BY <3>2, <3>3
    <2>5. QED
      BY <2>3, <2>4
  <1>9. QED
    <2>1. ~ReleaseSharedSlot(c) /\ ~CountSharedFailure(c)
      BY DEF ReleaseSharedSlot, CountSharedFailure
    <2>2. QED
      BY <1>5, <1>6, <1>7, <1>8, <2>1 DEF Return

\* Without Redis no half-open slot is lost, whatever mix of success, failure,
\* refusal and cancellation the calls of an instance see: can_execute,
\* record_success, record_failure and the cancellation in execute together.
THEOREM LocalSlotsNotLeaked == Spec => []NoSlotLeak
  <1>1. Init => SlotIsAdmission /\ NoSlotLeak
    <2> SUFFICES ASSUME Init PROVE SlotIsAdmission /\ NoSlotLeak
      OBVIOUS
    <2>1. SlotIsAdmission
      BY DEF Init, SlotIsAdmission, IdleCall
    <2>2. ASSUME NEW i \in Instances
          PROVE  /\ breaker[i].half_open_calls <= Cardinality(Holding(CallsOf(i)))
                 /\ breaker[i].half_open_calls = 0
      <3>1. IsFiniteSet(Holding(CallsOf(i)))
        BY CircuitBreakerAssumption, FS_Subset DEF Holding, CallsOf
      <3>2. Cardinality(Holding(CallsOf(i))) \in Nat
        BY <3>1, FS_CardinalityType
      <3>3. breaker[i].half_open_calls = 0
        BY DEF Init
      <3>4. QED
        BY <3>2, <3>3
    <2>3. QED
      BY <2>1, <2>2 DEF NoSlotLeak
  <1>2. LocalInv /\ [Next]_vars => (SlotIsAdmission /\ NoSlotLeak)'
    <2> SUFFICES ASSUME LocalInv, [Next]_vars
                 PROVE  SlotIsAdmission' /\ NoSlotLeak'
      OBVIOUS
    <2>1. CASE UseRedis
      BY <2>1 DEF SlotIsAdmission, NoSlotLeak
    <2>2. CASE ~UseRedis
      <3>1. ASSUME NEW c \in Calls, CanExecute(c) \/ Return(c) \/ Cancel(c)
            PROVE  SlotIsAdmission' /\ NoSlotLeak'
        BY <2>2, <3>1, LocalCanExecute, LocalReturn
      <3>2. ASSUME UNCHANGED call,
                   breaker' \in [Instances -> Breaker],
                   \A i \in Instances :
                     /\ breaker'[i].half_open_calls = breaker[i].half_open_calls
                     /\ breaker'[i].state # "half_open" => breaker'[i].half_open_calls = 0
            PROVE  SlotIsAdmission' /\ NoSlotLeak'
        <4>1. SlotIsAdmission'
          BY <3>2 DEF LocalInv, SlotIsAdmission
        <4>2. \A i \in Instances : Holding(CallsOf(i))' = Holding(CallsOf(i))
          BY <3>2 DEF Holding, CallsOf
        <4>3. NoSlotLeak'
          BY <2>2, <3>2, <4>2 DEF LocalInv, NoSlotLeak
        <4>4. QED
          BY <4>1, <4>3
      <3>3. /\ breaker \in [Instances -> Breaker]
            /\ \A i \in Instances :
                 breaker[i].state # "half_open" => breaker[i].half_open_calls = 0
        BY <2>2 DEF LocalInv, TypeOK, NoSlotLeak
      <3>4. ASSUME NEW i \in Instances, IsAccepting(i)
            PROVE  SlotIsAdmission' /\ NoSlotLeak'
        <4> DEFINE b == Advance(breaker[i], shared.failures, shared.last_failure)
        <4>1. /\ shared.failures \in 0..failure_threshold /\ shared.last_failure \in Ages
          BY DEF LocalInv, TypeOK, Shared
        <4>2. /\ b \in Breaker /\ b.half_open_calls = breaker[i].half_open_calls
              /\ b.state # "half_open" => b.half_open_calls = 0
          BY <2>2, <3>3, <4>1, AdvanceTypes, LocalAdvance
        <4> HIDE DEF b
        <4>3. breaker' = [breaker EXCEPT ![i] = b] /\ UNCHANGED call
          BY <3>3, <3>4 DEF IsAccepting, b
        <4>4. QED
          BY <3>2, <3>3, <4>2, <4>3
      <3>5. ASSUME NEW i \in Instances, LocalCooldown(i)
            PROVE  SlotIsAdmission' /\ NoSlotLeak'
        <4>1. /\ breaker' = [breaker EXCEPT ![i].last_failure = "elapsed"]
              /\ UNCHANGED call
          BY <3>5 DEF LocalCooldown
        <4>2. /\ breaker' \in [Instances -> Breaker]
              /\ \A j \in Instances :
                   /\ breaker'[j].half_open_calls = breaker[j].half_open_calls
                   /\ breaker'[j].state = breaker[j].state
          BY <3>3, <4>1 DEF Breaker, Ages
        <4>3. QED
          BY <3>2, <3>3, <4>1, <4>2
      <3>6. CASE UNCHANGED <<breaker, call>>
        BY <3>2, <3>3, <3>6
      <3>7. QED
        BY <3>1, <3>4, <3>5, <3>6
           DEF Next, SharedCooldown, KeysGone, SlotsGone, Recover, vars
    <2>3. QED
      BY <2>1, <2>2 DEF LocalInv, TypeOK
  <1>3. QED
    BY <1>1, <1>2, BreakerTypes, PTL DEF Spec, LocalInv

=============================================================================
