------------------------- MODULE MediaCaptureProofs -------------------------
(***************************************************************************)
(* What MediaCapture guarantees for every page, every number of responses  *)
(* and all caps.                                                           *)
(***************************************************************************)
EXTENDS MediaCapture, SequenceTheorems, TLAPS

----------------------------------------------------------------------------
(* The Maps                                                                *)

LEMMA BoundedSeqIs ==
  ASSUME NEW S, NEW n \in Nat, NEW s
  PROVE  s \in BoundedSeq(S, n) <=> s \in Seq(S) /\ Len(s) <= n
  <1>1. ASSUME s \in BoundedSeq(S, n) PROVE s \in Seq(S) /\ Len(s) <= n
    <2>1. PICK m \in 0..n : s \in [1..m -> S]
      BY <1>1 DEF BoundedSeq, SeqOf
    <2> QED BY <2>1
  <1>2. ASSUME s \in Seq(S), Len(s) <= n PROVE s \in BoundedSeq(S, n)
    <2>1. Len(s) \in 0..n /\ s \in [1..Len(s) -> S]
      BY <1>2
    <2> QED BY <2>1 DEF BoundedSeq, SeqOf
  <1> QED BY <1>1, <1>2

\* The keys of a Map, in insertion order.
Keys(s) == s \in Seq(Resources) /\ IsInjective(s)

\* Map.delete
LEMMA RemoveFirstKeys ==
  ASSUME NEW s, Keys(s), NEW q
  PROVE  /\ Keys(RemoveFirst(s, q))
         /\ Len(RemoveFirst(s, q)) <= Len(s)
         /\ ToSet(RemoveFirst(s, q)) = ToSet(s) \ {q}
  <1>1. CASE ~\E i \in 1..Len(s) : s[i] = q
    BY <1>1 DEF RemoveFirst, Keys, ToSet
  <1>2. CASE \E i \in 1..Len(s) : s[i] = q
    <2>1. PICK i \in 1..Len(s) : s[i] = q
      BY <1>2
    <2>2. \A k \in 1..Len(s) : s[k] = q => k = i
      BY <2>1 DEF Keys, IsInjective
    <2>3. SelectInSeq(s, LAMBDA v : v = q) = i
      <3>1. {k \in 1..Len(s) : s[k] = q} = {i}
        BY <2>1, <2>2
      <3>2. Min({i}) = i
        BY DEF Min
      <3> QED BY <3>1, <3>2 DEF SelectInSeq
    <2>4. RemoveFirst(s, q) = SubSeq(s, 1, i - 1) \o SubSeq(s, i + 1, Len(s))
      BY <1>2, <2>3 DEF RemoveFirst, RemoveAt
    <2> DEFINE t == RemoveFirst(s, q)
    <2>5. /\ t \in Seq(Resources) /\ Len(t) = Len(s) - 1
          /\ \A k \in 1..Len(t) : t[k] = IF k < i THEN s[k] ELSE s[k + 1]
      <3> DEFINE a == SubSeq(s, 1, i - 1)
                 b == SubSeq(s, i + 1, Len(s))
      <3>1. s \in Seq(Resources) /\ Len(s) \in Nat /\ i \in Nat
        BY <2>1 DEF Keys
      <3>2. /\ a \in Seq(Resources) /\ Len(a) = i - 1
            /\ \A k \in 1..i - 1 : a[k] = s[k]
        BY <2>1, <3>1
      <3>3. /\ b \in Seq(Resources) /\ Len(b) = Len(s) - i
            /\ \A k \in 1..Len(s) - i : b[k] = s[k + i]
        BY <2>1, <3>1
      <3>4. t = a \o b
        BY <2>4
      <3> HIDE DEF a, b, t
      <3>5. t \in Seq(Resources) /\ Len(t) = Len(s) - 1
        <4>1. a \o b \in Seq(Resources) /\ Len(a \o b) = Len(a) + Len(b)
          BY <3>2, <3>3, ConcatProperties
        <4> QED BY <3>1, <3>2, <3>3, <3>4, <4>1
      <3>6. ASSUME NEW k \in 1..Len(t) PROVE t[k] = IF k < i THEN s[k] ELSE s[k + 1]
        <4>1. CASE k < i
          BY <3>1, <3>2, <3>3, <3>4, <3>5, <4>1
        <4>2. CASE k >= i
          <5>1. t[k] = b[k - (i - 1)]
            BY <3>1, <3>2, <3>3, <3>4, <3>5, <4>2
          <5> QED BY <2>1, <3>1, <3>3, <3>5, <4>2, <5>1
        <4> QED BY <3>1, <4>1, <4>2
      <3> QED BY <3>5, <3>6
    <2> HIDE DEF t
    <2>6. IsInjective(t)
      <3> SUFFICES ASSUME NEW j \in 1..Len(t), NEW k \in 1..Len(t), t[j] = t[k] PROVE j = k
        BY <2>5 DEF IsInjective
      <3>1. \A m, n \in 1..Len(s) : s[m] = s[n] => m = n
        BY DEF Keys, IsInjective
      <3>2. Len(s) \in Nat /\ Len(t) = Len(s) - 1
        BY <2>5 DEF Keys
      <3> QED BY <2>1, <2>5, <3>1, <3>2
    <2>7. ToSet(t) = ToSet(s) \ {q}
      <3>1. \A k \in 1..Len(s) : k # i => s[k] \in ToSet(t)
        <4> SUFFICES ASSUME NEW k \in 1..Len(s), k # i PROVE s[k] \in ToSet(t)
          OBVIOUS
        <4>1. CASE k < i
          BY <2>1, <2>5, <4>1 DEF ToSet, Keys
        <4>2. CASE k > i
          <5>1. k - 1 \in 1..Len(t) /\ t[k - 1] = s[k]
            BY <2>1, <2>5, <4>2 DEF Keys
          <5> QED BY <2>5, <5>1 DEF ToSet
        <4> QED BY <4>1, <4>2
      <3>2. \A k \in 1..Len(t) : t[k] \in ToSet(s) \ {q}
        BY <2>1, <2>2, <2>5 DEF ToSet, Keys
      <3> QED BY <2>1, <2>5, <3>1, <3>2 DEF ToSet, Keys
    <2> QED BY <2>5, <2>6, <2>7 DEF Keys, t
  <1> QED BY <1>1, <1>2

LEMMA SetCappedKeys ==
  ASSUME NEW s, Keys(s), NEW q \in Resources, NEW cap \in Nat \ {0}, Len(s) <= cap
  PROVE  /\ Keys(SetCapped(s, q, cap))
         /\ Len(SetCapped(s, q, cap)) <= cap
  <1> DEFINE grown == IF \E i \in DOMAIN s : s[i] = q THEN s ELSE Append(s, q)
  <1>1. Keys(grown) /\ Len(grown) <= cap + 1 /\ Len(grown) \in Nat
    BY DEF Keys, IsInjective
  <1>2. Len(grown) > cap => Keys(Tail(grown)) /\ Len(Tail(grown)) = Len(grown) - 1
    BY <1>1 DEF Keys, IsInjective
  <1> HIDE DEF grown
  <1>3. SetCapped(s, q, cap) = IF Len(grown) > cap THEN Tail(grown) ELSE grown
    BY DEF SetCapped, grown
  <1> QED BY <1>1, <1>2, <1>3
----------------------------------------------------------------------------
(* The inductive invariant                                                 *)

\* The Maps of tier 1.
MapsInv ==
  /\ Keys(candidates) /\ Keys(requestHeaders)
  /\ BookkeepingBounded

\* Where each tier is, and what it has armed and decided by then.
StageInv ==
  /\ tier1 = "setup" => /\ ~settled /\ outcome = None /\ ~enteredAborted
                        /\ fallthroughTimer = "unset" /\ drmTimer = "unset"
                        /\ reading = {} /\ collecting = {}
  /\ tier1 = "armed" => settled \/ outcome = None
  /\ tier1 = "ended" => /\ session = "detached" /\ reading = {} /\ collecting = {}
                        /\ settled \/ (fallthroughTimer # "armed" /\ drmTimer # "armed")
  /\ (settled \/ tier1 = "ended") /\ ~enteredAborted =>
       fallthroughTimer # "armed" /\ drmTimer # "armed"
  /\ tier2 # "off" => tier1 = "ended" /\ settled
  /\ tier2 \notin {"off", "ended"} => outcome = Null

\* A document that engaged DRM early has set its flag, which tier 2 has seen when
\* it is past its first check.
DrmInv ==
  /\ engaged = "early" => eme
  /\ engaged = "early" /\ tier2 \notin {"off", "hook", "drm", "ended"} => aborted \/ blind
  /\ EarlyDrmIsReported

\* What is handed on: manifests that were found clean.
CleanManifest(p) == p.manifest /\ ~p.drm /\ p.size \in 1..ManifestCap

CleanInv == \A q \in collecting : CleanManifest(profile[q])

\* No candidate is counted as more than what was transferred of it.
SizesInv == \A q \in DOMAIN receivedSizes :
  q \in Resources /\ receivedSizes[q] \in Nat /\ receivedSizes[q] <= net[q]

CaptureInv == TypeOK /\ MapsInv /\ StageInv /\ DrmInv /\ CleanInv /\ SizesInv

----------------------------------------------------------------------------
(* Initially                                                               *)

LEMMA CaptureInit == Init => CaptureInv
  <1> SUFFICES ASSUME Init PROVE CaptureInv
    OBVIOUS
  <1>1. Keys(<<>>) /\ ToSet(<<>>) = {} /\ Len(<<>>) = 0 /\ DOMAIN <<>> = {} /\ IsInjective(<<>>)
    BY DEF Keys, ToSet, IsInjective
  <1>2. MapsInv
    BY <1>1, CaptureAssumption DEF Init, MapsInv, BookkeepingBounded
  <1>3. blobs \in BoundedSeq(BlobSizes, BLOB_CAP)
    <2>1. <<>> \in Seq(BlobSizes) /\ Len(<<>>) <= BLOB_CAP /\ BLOB_CAP \in Nat
      BY CaptureAssumption
    <2> QED BY <2>1, BoundedSeqIs DEF Init
  <1>4. TypeOK
    <2>1. net \in [Resources -> Int] /\ outcome.kind = "none"
      BY DEF Init, None, Found
    <2>2. ToSet(candidates) \cup ToSet(requestHeaders) \cup reading \cup collecting
            \subseteq Resources
      BY <1>1 DEF Init
    <2>3. NoBlob \in Int
      BY DEF NoBlob
    <2> QED BY <1>3, <2>1, <2>2, <2>3 DEF Init, TypeOK
  <1>5. StageInv /\ DrmInv /\ CleanInv /\ SizesInv
    BY <1>1 DEF Init, StageInv, DrmInv, CleanInv, SizesInv, EarlyDrmIsReported
  <1> QED BY <1>2, <1>4, <1>5 DEF CaptureInv
----------------------------------------------------------------------------
(* Steps                                                                   *)

\* settle: the verdict that is there is kept, and the timers are stopped.
LEMMA SettleStep ==
  ASSUME TypeOK, NEW result, settle(result)
  PROVE  /\ settled'
         /\ outcome' = (IF settled THEN outcome ELSE result)
         /\ fallthroughTimer' \in {"unset", "cleared", "fired"} \/ (settled /\ UNCHANGED timers)
         /\ drmTimer' \in {"unset", "cleared"} \/ (settled /\ UNCHANGED timers)
  BY DEF settle, Cleared, verdictVars, timers, TypeOK

\* The sizes that outlive a change of the candidates.
LEMMA ForgetKeys == \A sizes, keys : DOMAIN Forget(sizes, keys) \subseteq ToSet(keys)
  BY DEF Forget

LEMMA MapsStep ==
  ASSUME CaptureInv, [Next]_vars
  PROVE  MapsInv'
  <1> USE DEF CaptureInv
  <1>1. ASSUME UNCHANGED <<candidates, receivedSizes, requestHeaders>> PROVE MapsInv'
    BY <1>1 DEF MapsInv, BookkeepingBounded, Keys
  <1>2. ASSUME NEW q \in Resources, onRequestWillBeSent(q) PROVE MapsInv'
    <2>1. UNCHANGED <<candidates, receivedSizes>>
      BY <1>2 DEF onRequestWillBeSent
    <2>2. Keys(requestHeaders)' /\ Len(requestHeaders') <= REQUEST_HEADERS_CAP
      BY <1>2, SetCappedKeys, CaptureAssumption
         DEF onRequestWillBeSent, MapsInv, BookkeepingBounded, Keys
    <2> QED BY <2>1, <2>2 DEF MapsInv, BookkeepingBounded, Keys
  <1>3. ASSUME NEW q \in Resources, onResponseReceived(q) PROVE MapsInv'
    <2>1. UNCHANGED requestHeaders /\ receivedSizes' = Forget(receivedSizes, candidates')
      BY <1>3 DEF onResponseReceived
    <2>2. Keys(candidates)' /\ Len(candidates') <= CANDIDATES_CAP
      BY <1>3, SetCappedKeys, CaptureAssumption
         DEF onResponseReceived, MapsInv, BookkeepingBounded, Keys
    <2> QED BY <2>1, <2>2, ForgetKeys DEF MapsInv, BookkeepingBounded, Keys
  <1>4. ASSUME NEW q \in Resources, onDataReceived(q) PROVE MapsInv'
    <2>1. UNCHANGED <<candidates, requestHeaders>>
      BY <1>4 DEF onDataReceived
    <2>2. DOMAIN receivedSizes' \subseteq ToSet(candidates)
      <3>1. CASE q \in ToSet(candidates)
        BY <1>4, <3>1 DEF onDataReceived, MapsInv, BookkeepingBounded
      <3>2. CASE q \notin ToSet(candidates)
        BY <1>4, <3>2 DEF onDataReceived, MapsInv, BookkeepingBounded
      <3> QED BY <3>1, <3>2
    <2> QED BY <2>1, <2>2 DEF MapsInv, BookkeepingBounded, Keys
  <1>5. ASSUME NEW q \in Resources, onLoadingFinished(q) PROVE MapsInv'
    <2>1. /\ UNCHANGED requestHeaders /\ candidates' = RemoveFirst(candidates, q)
          /\ receivedSizes' = Forget(receivedSizes, candidates')
      BY <1>5 DEF onLoadingFinished
    <2>2. Keys(candidates') /\ Len(candidates') <= Len(candidates)
      BY <2>1, RemoveFirstKeys DEF MapsInv
    <2>3. Len(candidates') <= CANDIDATES_CAP
      BY <2>2, CaptureAssumption DEF MapsInv, BookkeepingBounded, Keys
    <2> QED BY <2>1, <2>2, <2>3, ForgetKeys DEF MapsInv, BookkeepingBounded, Keys
  <1>6. ASSUME NEW q \in Resources, CollectHeaders(q) PROVE MapsInv'
    <2>1. UNCHANGED <<candidates, receivedSizes>> /\ requestHeaders' = RemoveFirst(requestHeaders, q)
      BY <1>6 DEF CollectHeaders
    <2>2. Keys(requestHeaders') /\ Len(requestHeaders') <= Len(requestHeaders)
      BY <2>1, RemoveFirstKeys DEF MapsInv
    <2>3. Len(requestHeaders') <= REQUEST_HEADERS_CAP
      BY <2>2, CaptureAssumption DEF MapsInv, BookkeepingBounded, Keys
    <2> QED BY <2>1, <2>2, <2>3 DEF MapsInv, BookkeepingBounded, Keys
  <1>7. CASE Detach
    <2>1. Keys(<<>>) /\ Len(<<>>) = 0 /\ DOMAIN <<>> = {} /\ IsInjective(<<>>)
      BY DEF Keys, IsInjective
    <2> QED BY <1>7, <2>1, CaptureAssumption DEF Detach, MapsInv, BookkeepingBounded, Keys
  <1> QED BY <1>1, <1>2, <1>3, <1>4, <1>5, <1>6, <1>7
          DEF Next, Tier1Step, Tier2Step, PageStep, SetupFails, Arm, FallthroughFires, CheckDrm,
              MainForbidden, onDomReady, BodyRead, InstallHook, CheckPageDrm, CheckPageBlocked,
              ClickPlay, PollTop, FindBlob, CheckThrows, ReadBlob, Sleep, EngageDrm, ShowChallenge, Navigate, CreateBlob,
              DeadlinePasses, Abort, Tier2Goes, Tier2Ends, Tier2Waits, maps, vars
\* A step of tier 1 while it is armed that does nothing but settle, or not.
LEMMA StageSettle ==
  ASSUME TypeOK, StageInv, tier1 = "armed", NEW result, settle(result) \/ UNCHANGED verdictVars,
         UNCHANGED <<first, tier2>>
  PROVE  StageInv'
  <1> USE DEF first, StageInv
  <1>1. CASE settle(result)
    BY <1>1, SettleStep DEF timers
  <1>2. CASE UNCHANGED verdictVars
    BY <1>2 DEF verdictVars, timers
  <1> QED BY <1>1, <1>2

\* A step of tier 2 or of the page leaves tier 1 as it is.
LEMMA StageTier2 ==
  ASSUME TypeOK, StageInv, UNCHANGED <<first, settled, timers, reading, collecting>>,
         \/ UNCHANGED <<outcome, tier2>>
         \/ tier2 \notin {"off", "ended"} /\ UNCHANGED outcome /\ tier2' # "off"
         \/ tier2 # "off" /\ tier2' = "ended"
  PROVE  StageInv'
  BY DEF first, timers, StageInv

LEMMA StageStep ==
  ASSUME CaptureInv, [Next]_vars
  PROVE  StageInv'
  <1>0. TypeOK /\ StageInv
    BY DEF CaptureInv
  <1>1. ASSUME UNCHANGED <<first, verdictVars, reading, collecting, tier2>> PROVE StageInv'
    BY <1>0, <1>1, StageTier2 DEF verdictVars
  <1>2. CASE SetupFails
    BY <1>0, <1>2 DEF SetupFails, StageInv, timers, maps, second
  <1>3. CASE Arm
    BY <1>0, <1>3 DEF Arm, StageInv, maps, second, TypeOK
  <1>4. CASE Detach
    BY <1>0, <1>4 DEF Detach, StageInv, verdictVars, timers, TypeOK
  <1>5. CASE FallthroughFires
    <2>1. CASE settled
      BY <1>0, <1>5, <2>1 DEF FallthroughFires, StageInv, first, maps, second
    <2>2. CASE ~settled
      BY <1>0, <1>5, <2>2, SettleStep
         DEF FallthroughFires, onFound, StageInv, first, maps, second, timers, TypeOK
    <2> QED BY <2>1, <2>2
  <1>6. CASE CheckDrm
    BY <1>0, <1>6, SettleStep DEF CheckDrm, onTerminal, StageInv, first, maps, second, timers, TypeOK
  <1>7. CASE Abort
    <2>1. UNCHANGED <<first, maps, second>>
          /\ ((settle(Error("timeout")) /\ tier1 = "armed") \/ UNCHANGED verdictVars)
      BY <1>7 DEF Abort, onTerminal
    <2> QED BY <1>0, <1>1, <2>1, StageSettle DEF maps, second
  <1>8. CASE MainForbidden \/ onDomReady
    BY <1>0, <1>8, StageSettle
       DEF MainForbidden, onDomReady, Listening, onTerminal, ElseUnchanged, second
  <1>9. ASSUME NEW q \in Resources, onRequestWillBeSent(q) \/ onResponseReceived(q) PROVE StageInv'
    BY <1>0, <1>1, <1>9
       DEF onRequestWillBeSent, onResponseReceived, ElseUnchanged, second
  <1>10. ASSUME NEW q \in Resources, onDataReceived(q) \/ onLoadingFinished(q) PROVE StageInv'
    BY <1>0, <1>10, StageSettle
       DEF onDataReceived, onLoadingFinished, Listening, onTerminal, ElseUnchanged, second
  <1>11. ASSUME NEW q \in Resources, BodyRead(q) \/ CollectHeaders(q) PROVE StageInv'
    <2>1. tier1 = "armed"
      BY <1>0, <1>11 DEF BodyRead, CollectHeaders, StageInv, TypeOK
    <2> QED BY <1>0, <1>11, <2>1, StageSettle
            DEF BodyRead, CollectHeaders, onTerminal, onFound, ElseUnchanged, second
  <1>12. ASSUME Tier2Step PROVE StageInv'
    <2>1. UNCHANGED <<first, settled, timers, reading, collecting>>
      BY <1>12
         DEF Tier2Step, InstallHook, CheckPageDrm, CheckPageBlocked, ClickPlay, PollTop, FindBlob, CheckThrows, ReadBlob,
             Sleep, Tier2Goes, Tier2Ends, Tier2Waits, verdictVars, maps
    <2>2. \/ tier2 \notin {"off", "ended"} /\ UNCHANGED outcome /\ tier2' # "off"
          \/ tier2 # "off" /\ tier2' = "ended"
      BY <1>12
         DEF Tier2Step, InstallHook, CheckPageDrm, CheckPageBlocked, ClickPlay, PollTop, FindBlob, CheckThrows, ReadBlob,
             Sleep, Tier2Goes, Tier2Ends, Tier2Waits, verdictVars
    <2> QED BY <1>0, <2>1, <2>2, StageTier2
  <1>13. CASE PageStep \/ DeadlinePasses \/ UNCHANGED vars
    BY <1>1, <1>13
       DEF PageStep, EngageDrm, ShowChallenge, Navigate, CreateBlob, DeadlinePasses, maps, second, vars
  <1> QED BY <1>2, <1>3, <1>4, <1>5, <1>6, <1>7, <1>8, <1>9, <1>10, <1>11, <1>12, <1>13
          DEF Next, Tier1Step
\* Tier 2 ends with a verdict on the page as it finds it, or goes on.
LEMMA DrmStep ==
  ASSUME CaptureInv, [Next]_vars
  PROVE  DrmInv'
  <1>0. TypeOK /\ StageInv /\ DrmInv
    BY DEF CaptureInv
  <1>1. ASSUME UNCHANGED <<engaged, eme, tier2, blind>>, aborted => aborted',
               tier2 = "ended" => UNCHANGED outcome
        PROVE  DrmInv'
    BY <1>0, <1>1 DEF DrmInv, EarlyDrmIsReported
  <1>2. CASE SetupFails \/ Arm
    <2>1. tier2 = "off" /\ UNCHANGED <<engaged, eme, aborted, tier2, blind>>
      BY <1>0, <1>2 DEF SetupFails, Arm, StageInv, second, poll, env
    <2> QED BY <1>1, <2>1
  <1>3. CASE Detach
    BY <1>0, <1>3 DEF Detach, DrmInv, EarlyDrmIsReported, StageInv, poll
  <1>4. ASSUME NEW result, settle(result) \/ UNCHANGED verdictVars, UNCHANGED tier2,
               UNCHANGED <<engaged, eme, blind>>, aborted => aborted'
        PROVE  DrmInv'
    <2>1. tier2 = "ended" => UNCHANGED outcome
      BY <1>0, <1>4, SettleStep DEF StageInv, verdictVars
    <2> QED BY <1>1, <1>4, <2>1
  <1>5. CASE FallthroughFires \/ CheckDrm \/ MainForbidden \/ onDomReady
    <2>1. UNCHANGED <<engaged, eme, aborted, tier2, blind>>
      BY <1>5 DEF FallthroughFires, CheckDrm, MainForbidden, onDomReady, ElseUnchanged, second,
                  poll, env
    <2>2. UNCHANGED outcome \/ \E result : settle(result)
      BY <1>5 DEF FallthroughFires, CheckDrm, MainForbidden, onDomReady, onFound, onTerminal
    <2> QED BY <1>1, <1>4, <2>1, <2>2
  <1>6. CASE Abort
    <2>1. UNCHANGED <<engaged, eme, tier2, blind>> /\ aborted'
      BY <1>6 DEF Abort, env, second, poll
    <2>2. UNCHANGED verdictVars \/ \E result : settle(result)
      BY <1>6 DEF Abort, onTerminal
    <2> QED BY <1>4, <2>1, <2>2
  <1>7. ASSUME NEW q \in Resources,
               \/ onRequestWillBeSent(q) \/ onResponseReceived(q) \/ onDataReceived(q)
               \/ onLoadingFinished(q) \/ BodyRead(q) \/ CollectHeaders(q)
        PROVE  DrmInv'
    <2>1. UNCHANGED <<engaged, eme, aborted, tier2, blind>>
      BY <1>7 DEF onRequestWillBeSent, onResponseReceived, onDataReceived, onLoadingFinished,
                  BodyRead, CollectHeaders, ElseUnchanged, second, poll, env
    <2>2. UNCHANGED verdictVars \/ \E result : settle(result)
      BY <1>7 DEF onRequestWillBeSent, onResponseReceived, onDataReceived, onLoadingFinished,
                  BodyRead, CollectHeaders, onFound, onTerminal
    <2> QED BY <1>4, <2>1, <2>2
  <1>8. CASE InstallHook
    BY <1>0, <1>8 DEF InstallHook, Tier2Goes, env, poll, DrmInv, EarlyDrmIsReported
  <1>9. CASE CheckPageDrm
    <2>1. UNCHANGED <<engaged, eme, aborted, blind>>
      BY <1>9 DEF CheckPageDrm, Tier2Ends, Tier2Waits, Tier2Goes, env, poll
    <2>2. CASE eme
      <3>1. tier2' = "ended" /\ outcome'.kind = "drm_detected"
        BY <1>9, <2>2 DEF CheckPageDrm, Tier2Ends, Tier2Goes, Error, Found
      <3> QED BY <1>0, <2>1, <3>1 DEF DrmInv, EarlyDrmIsReported
    <2>3. CASE ~eme
      <3>1. tier2' \in {"bot", "rebot"} /\ tier2 \in {"drm", "recheck"}
        BY <1>9, <2>3 DEF CheckPageDrm, Tier2Waits, Tier2Goes
      <3> QED BY <1>0, <2>1, <2>3, <3>1 DEF DrmInv, EarlyDrmIsReported
    <2> QED BY <2>2, <2>3
  <1>10. CASE CheckPageBlocked \/ ClickPlay \/ PollTop \/ FindBlob \/ ReadBlob \/ Sleep
    <2>1. UNCHANGED <<engaged, eme, aborted, blind>>
      BY <1>10 DEF CheckPageBlocked, ClickPlay, PollTop, FindBlob, ReadBlob, Sleep, Tier2Ends,
                   Tier2Waits, Tier2Goes, env, poll
    <2>2. tier2 \notin {"off", "hook", "drm", "ended"}
      BY <1>10 DEF CheckPageBlocked, ClickPlay, PollTop, FindBlob, ReadBlob, Sleep
    <2> QED BY <1>0, <2>1, <2>2 DEF DrmInv, EarlyDrmIsReported
  <1>13. CASE CheckThrows
    <2>1. UNCHANGED <<engaged, eme, aborted>> /\ tier2' \notin {"off", "hook", "drm", "ended"}
      BY <1>13 DEF CheckThrows, Tier2Goes, env
    <2>2. blind' \/ (blind' = blind /\ tier2 \notin {"off", "hook", "drm", "ended"})
      BY <1>13 DEF CheckThrows
    <2> QED BY <1>0, <2>1, <2>2 DEF DrmInv, EarlyDrmIsReported
  <1>14. CASE Navigate
    BY <1>14 DEF Navigate, DrmInv, EarlyDrmIsReported
  <1>11. CASE EngageDrm
    BY <1>0, <1>11
       DEF EngageDrm, PageLives, DrmInv, EarlyDrmIsReported, verdictVars, second, poll
  <1>12. CASE ShowChallenge \/ (\E size \in BlobSizes : CreateBlob(size)) \/ DeadlinePasses
              \/ UNCHANGED vars
    BY <1>1, <1>12
       DEF ShowChallenge, CreateBlob, DeadlinePasses, verdictVars, second, poll, env, vars
  <1> QED BY <1>2, <1>3, <1>5, <1>6, <1>7, <1>8, <1>9, <1>10, <1>11, <1>12, <1>13, <1>14
          DEF Next, Tier1Step, Tier2Step, PageStep

\* The verdict "collect" is given to clean manifests only.
LEMMA CollectedIsClean ==
  ASSUME NEW p \in ProfileType, BodyVerdict(p) = "collect"
  PROVE  CleanManifest(p)
  BY CaptureAssumption
     DEF BodyVerdict, ManifestVerdict, BytesVerdict, CleanManifest, ProfileType

LEMMA VerdictKinds ==
  ASSUME NEW p \in ProfileType
  PROVE  /\ BodyVerdict(p) \in {"wait", "network_error", "drm_detected", "collect", "bytes"}
         /\ BodyVerdict(p) = "bytes" => p.size \in 1..BodyCap
         /\ BodyVerdict(p) = "drm_detected" => p.drm
  BY CaptureAssumption DEF BodyVerdict, ManifestVerdict, BytesVerdict, ProfileType

LEMMA CleanStep ==
  ASSUME CaptureInv, [Next]_vars
  PROVE  CleanInv'
  <1>0. TypeOK /\ StageInv /\ CleanInv /\ UNCHANGED profile
    BY DEF CaptureInv, Next, Tier1Step, Tier2Step, PageStep, SetupFails, Arm, Detach,
           FallthroughFires, CheckDrm, MainForbidden, onDomReady, onRequestWillBeSent,
           onResponseReceived, onDataReceived, onLoadingFinished, BodyRead, CollectHeaders,
           InstallHook, CheckPageDrm, CheckPageBlocked, ClickPlay, PollTop, FindBlob, CheckThrows, ReadBlob, Sleep,
           EngageDrm, ShowChallenge, Navigate, CreateBlob, DeadlinePasses, Abort, Tier2Goes, Tier2Ends,
           Tier2Waits, env, vars
  <1>1. \A q \in collecting' : CleanManifest(profile'[q])
    <2>1. ASSUME collecting' \subseteq collecting PROVE \A q \in collecting' : CleanManifest(profile'[q])
      BY <1>0, <2>1 DEF CleanInv
    <2>2. ASSUME NEW q \in Resources, BodyRead(q)
          PROVE  \A c \in collecting' : CleanManifest(profile'[c])
      <3>1. \/ collecting' \subseteq collecting
            \/ collecting' = collecting \cup {q} /\ BodyVerdict(profile[q]) = "collect"
        BY <2>2 DEF BodyRead
      <3>2. profile[q] \in ProfileType
        BY <1>0, CaptureAssumption DEF TypeOK
      <3> QED BY <1>0, <2>1, <3>1, <3>2, CollectedIsClean DEF CleanInv
    <2> QED BY <2>1, <2>2
        DEF Next, Tier1Step, Tier2Step, PageStep, SetupFails, Arm, Detach,
            FallthroughFires, CheckDrm, MainForbidden, onDomReady, onRequestWillBeSent,
            onResponseReceived, onDataReceived, onLoadingFinished, CollectHeaders,
            InstallHook, CheckPageDrm, CheckPageBlocked, ClickPlay, PollTop, FindBlob, CheckThrows, ReadBlob, Sleep,
            EngageDrm, ShowChallenge, Navigate, CreateBlob, DeadlinePasses, Abort, Tier2Goes, Tier2Ends,
            Tier2Waits, maps, vars
  <1> QED BY <1>1 DEF CleanInv

\* A size grows with the transfer and is dropped with its candidate.
LEMMA SizesStep ==
  ASSUME CaptureInv, [Next]_vars
  PROVE  SizesInv'
  <1>0. TypeOK /\ SizesInv
    BY DEF CaptureInv
  <1>1. ASSUME UNCHANGED <<net, receivedSizes>> PROVE SizesInv'
    BY <1>0, <1>1 DEF SizesInv
  <1>2. ASSUME \A c \in Resources : net'[c] \in Int /\ net[c] <= net'[c],
               \A c \in DOMAIN receivedSizes' :
                  c \in DOMAIN receivedSizes /\ receivedSizes'[c] = receivedSizes[c]
        PROVE  SizesInv'
    <2>1. \A c \in Resources : net[c] \in Int
      BY <1>0 DEF TypeOK
    <2> QED BY <1>0, <1>2, <2>1 DEF SizesInv
  <1>3. ASSUME NEW q \in Resources, onRequestWillBeSent(q) PROVE SizesInv'
    <2>1. \A c \in Resources : net'[c] \in Int /\ net[c] <= net'[c]
      BY <1>0, <1>3 DEF onRequestWillBeSent, TypeOK
    <2> QED BY <1>2, <1>3, <2>1 DEF onRequestWillBeSent
  <1>4. ASSUME NEW q \in Resources, onResponseReceived(q) PROVE SizesInv'
    <2>1. \A c \in Resources : net'[c] \in Int /\ net[c] <= net'[c]
      BY <1>0, <1>4 DEF onResponseReceived, TypeOK
    <2> QED BY <1>2, <1>4, <2>1 DEF onResponseReceived, Forget
  <1>5. ASSUME NEW q \in Resources, onLoadingFinished(q) PROVE SizesInv'
    <2>1. \A c \in Resources : net'[c] \in Int /\ net[c] <= net'[c]
      BY <1>0, <1>5 DEF onLoadingFinished, TypeOK
    <2> QED BY <1>2, <1>5, <2>1 DEF onLoadingFinished, Forget
  <1>6. ASSUME NEW q \in Resources, onDataReceived(q) PROVE SizesInv'
    <2>1. net' = [net EXCEPT ![q] = net[q] + 1] /\ net[q] \in Int /\ net[q] >= 0
      BY <1>0, <1>6 DEF onDataReceived, TypeOK
    <2>2. CASE receivedSizes' = receivedSizes
      <3>1. \A c \in Resources : net'[c] \in Int /\ net[c] <= net'[c]
        BY <1>0, <2>1 DEF TypeOK
      <3> QED BY <1>2, <2>2, <3>1
    <2>3. CASE \E dataLength \in 0..1 :
                 receivedSizes' = [c \in DOMAIN receivedSizes \cup {q} |->
                   IF c = q THEN Received(q) + dataLength ELSE receivedSizes[c]]
      <3>1. Received(q) \in Nat /\ Received(q) <= net[q]
        BY <1>0, <2>1 DEF Received, SizesInv
      <3>2. /\ DOMAIN receivedSizes' = DOMAIN receivedSizes \cup {q}
            /\ receivedSizes'[q] \in Nat /\ receivedSizes'[q] <= net[q] + 1
            /\ \A c \in DOMAIN receivedSizes : c # q => receivedSizes'[c] = receivedSizes[c]
        BY <2>1, <2>3, <3>1
      <3>3. net'[q] = net[q] + 1 /\ \A c \in Resources : c # q => net'[c] = net[c]
        BY <1>0, <2>1 DEF TypeOK
      <3> QED BY <1>0, <3>2, <3>3 DEF SizesInv
    <2> QED BY <1>6, <2>2, <2>3 DEF onDataReceived
  <1>7. CASE Detach
    BY <1>7 DEF Detach, SizesInv
  <1> QED BY <1>1, <1>3, <1>4, <1>5, <1>6, <1>7
          DEF Next, Tier1Step, Tier2Step, PageStep, SetupFails, Arm, FallthroughFires, CheckDrm,
              MainForbidden, onDomReady, BodyRead, CollectHeaders, InstallHook, CheckPageDrm,
              CheckPageBlocked, CheckThrows, ClickPlay, PollTop, FindBlob, ReadBlob, Sleep,
              EngageDrm, ShowChallenge, Navigate, CreateBlob, DeadlinePasses, Abort, ElseUnchanged,
              Tier2Goes, Tier2Ends, Tier2Waits, env, maps, vars
----------------------------------------------------------------------------
(* Types                                                                   *)

Verdicts == {"none", "null", "bytes", "manifest", "drm_detected", "anti_bot_block",
             "network_error", "timeout", "no_media_found"}

\* The part of TypeOK that settling touches.
LEMMA SettleType ==
  ASSUME TypeOK, NEW result, result.kind \in Verdicts, settle(result) \/ UNCHANGED verdictVars
  PROVE  /\ settled' \in BOOLEAN /\ outcome'.kind \in Verdicts
         /\ fallthroughTimer' \in {"unset", "armed", "cleared", "fired"}
         /\ drmTimer' \in {"unset", "armed", "cleared"}
  BY DEF TypeOK, settle, Cleared, verdictVars, timers, Verdicts

LEMMA PushedBlobs ==
  ASSUME TypeOK, NEW size \in BlobSizes
  PROVE  pushBlobUrl(blobs, size) \in BoundedSeq(BlobSizes, BLOB_CAP)
  <1>1. blobs \in Seq(BlobSizes) /\ Len(blobs) <= BLOB_CAP /\ BLOB_CAP \in Nat \ {0}
    BY BoundedSeqIs, CaptureAssumption DEF TypeOK
  <1>2. /\ pushBlobUrl(blobs, size) \in Seq(BlobSizes)
        /\ Len(pushBlobUrl(blobs, size)) <= BLOB_CAP
    <2>1. CASE Len(blobs) >= BLOB_CAP
      <3>1. Tail(blobs) \in Seq(BlobSizes) /\ Len(Tail(blobs)) = Len(blobs) - 1
        BY <1>1, <2>1
      <3> QED BY <1>1, <2>1, <3>1 DEF pushBlobUrl
    <2>2. CASE ~(Len(blobs) >= BLOB_CAP)
      BY <1>1, <2>2 DEF pushBlobUrl
    <2> QED BY <2>1, <2>2
  <1> QED BY <1>1, <1>2, BoundedSeqIs

\* What TypeOK says of the environment and of tier 2.
LEMMA EnvType ==
  ASSUME TypeOK, [Next]_vars
  PROVE  /\ profile' \in Pages /\ net' \in [Resources -> Int]
         /\ engaged' \in {"no", "early", "late"}
         /\ {eme, blockPage, aborted, enteredAborted, hooked, late, blind}' \subseteq BOOLEAN
         /\ tier1' \in {"setup", "armed", "ended"} /\ session' \in {"attached", "detached"}
         /\ reading' \cup collecting' \subseteq Resources
         /\ tier2' \in {"off", "hook", "drm", "bot", "click", "top", "find", "read", "recheck",
                        "rebot", "sleep", "ended"}
         /\ blobs' \in BoundedSeq(BlobSizes, BLOB_CAP)
         /\ blobUrl' \in Int /\ (tier2' = "read" => blobUrl' \in BlobSizes)
  <1> USE DEF env, maps, first, second, poll, vars, ElseUnchanged, TypeOK
  <1>1. CASE FallthroughFires \/ CheckDrm \/ MainForbidden \/ onDomReady \/ Abort
             \/ DeadlinePasses \/ UNCHANGED vars
    BY <1>1 DEF FallthroughFires, CheckDrm, MainForbidden, onDomReady, Abort, DeadlinePasses
  <1>2. ASSUME NEW q \in Resources,
               \/ onRequestWillBeSent(q) \/ onResponseReceived(q) \/ onDataReceived(q)
               \/ onLoadingFinished(q)
        PROVE  /\ net' \in [Resources -> Int]
               /\ UNCHANGED <<profile, engaged, eme, blockPage, collecting>> /\ ElseUnchanged
               /\ reading' \subseteq reading \cup {q}
    BY <1>2
       DEF onRequestWillBeSent, onResponseReceived, onDataReceived, onLoadingFinished
  <1>3. ASSUME NEW q \in Resources, BodyRead(q) \/ CollectHeaders(q)
        PROVE  /\ UNCHANGED env /\ ElseUnchanged
               /\ reading' \subseteq reading /\ collecting' \subseteq collecting \cup {q}
    BY <1>3 DEF BodyRead, CollectHeaders
  <1>4. CASE Tier2Step
    <2>1. CASE FindBlob
      <3>1. blobs \in Seq(BlobSizes) /\ BlobSizes \subseteq Int
        BY BoundedSeqIs, CaptureAssumption
      <3>2. blobs # <<>> => Last(blobs) \in BlobSizes
        BY <3>1 DEF Last
      <3>3. /\ tier2' \in {"read", "recheck"} /\ UNCHANGED <<env, aborted, first, maps>>
            /\ UNCHANGED <<hooked, blobs, late, blind>>
            /\ \/ tier2' = "read" /\ blobUrl' \in BlobSizes
               \/ tier2' = "recheck" /\ UNCHANGED blobUrl
        BY <2>1, <3>2 DEF FindBlob, Tier2Goes
      <3> QED BY <3>1, <3>3
    <2>2. CASE ReadBlob
      BY <2>2 DEF ReadBlob, Tier2Goes, NoBlob
    <2>3. CASE InstallHook \/ CheckPageDrm \/ CheckPageBlocked \/ CheckThrows \/ ClickPlay
               \/ PollTop \/ Sleep
      BY <2>3 DEF InstallHook, CheckPageDrm, CheckPageBlocked, ClickPlay, PollTop, CheckThrows,
                  Sleep, Tier2Goes, Tier2Ends, Tier2Waits
    <2> QED BY <1>4, <2>1, <2>2, <2>3 DEF Tier2Step
  <1>5. CASE EngageDrm \/ ShowChallenge
    BY <1>5 DEF EngageDrm, ShowChallenge
  <1>9. CASE Navigate
    <2>1. <<>> \in BoundedSeq(BlobSizes, BLOB_CAP)
      <3>1. <<>> \in Seq(BlobSizes) /\ Len(<<>>) <= BLOB_CAP /\ BLOB_CAP \in Nat
        BY CaptureAssumption
      <3> QED BY <3>1, BoundedSeqIs
    <2> QED BY <1>9, <2>1 DEF Navigate
  <1>6. ASSUME NEW size \in BlobSizes, CreateBlob(size)
        PROVE  /\ UNCHANGED <<env, aborted, first, maps, tier2, hooked, poll>>
               /\ blobs' \in BoundedSeq(BlobSizes, BLOB_CAP)
    BY <1>6, PushedBlobs DEF CreateBlob
  <1>7. CASE SetupFails \/ Arm
    BY <1>7 DEF SetupFails, Arm
  <1>8. CASE Detach
    <2>1. net' \in [Resources -> Int] /\ reading' = {} /\ collecting' = {}
          /\ tier2' \in {"hook", "off"}
      BY <1>8 DEF Detach
    <2> QED BY <1>8, <2>1 DEF Detach
  <1> QED BY <1>1, <1>2, <1>3, <1>4, <1>5, <1>6, <1>7, <1>8, <1>9 DEF Next, Tier1Step, PageStep

\* What TypeOK says of the verdict.
LEMMA VerdictType ==
  ASSUME TypeOK, [Next]_vars
  PROVE  /\ settled' \in BOOLEAN /\ outcome'.kind \in Verdicts
         /\ fallthroughTimer' \in {"unset", "armed", "cleared", "fired"}
         /\ drmTimer' \in {"unset", "armed", "cleared"}
  <1> DEFINE Goal == /\ settled' \in BOOLEAN /\ outcome'.kind \in Verdicts
                     /\ fallthroughTimer' \in {"unset", "armed", "cleared", "fired"}
                     /\ drmTimer' \in {"unset", "armed", "cleared"}
  <1>0. \A kind, size : Found(kind, size).kind = kind /\ Error(kind).kind = kind
    BY DEF Found, Error
  <1>1. ASSUME UNCHANGED verdictVars PROVE Goal
    BY <1>1 DEF verdictVars, timers, TypeOK, Verdicts
  <1>2. ASSUME NEW result, result.kind \in Verdicts, settle(result) PROVE Goal
    BY <1>2, SettleType
  <1> SUFFICES Goal
    OBVIOUS
  <1> HIDE DEF Goal
  <1>3. CASE SetupFails \/ Arm
    BY <1>0, <1>3 DEF SetupFails, Arm, Goal, TypeOK, timers, Verdicts
  <1>4. CASE Detach
    BY <1>1, <1>4 DEF Detach
  <1>5. CASE FallthroughFires
    <2>1. CASE settled
      BY <1>5, <2>1 DEF FallthroughFires, Goal, TypeOK, Verdicts
    <2>2. CASE ~settled
      BY <1>0, <1>2, <1>5, <2>2 DEF FallthroughFires, onFound, Null, Verdicts
    <2> QED BY <2>1, <2>2
  <1>6. CASE CheckDrm \/ Abort \/ MainForbidden \/ onDomReady
    BY <1>0, <1>1, <1>2, <1>6
       DEF CheckDrm, Abort, MainForbidden, onDomReady, onTerminal, Verdicts
  <1>7. ASSUME NEW q \in Resources,
               \/ onRequestWillBeSent(q) \/ onResponseReceived(q) \/ onDataReceived(q)
               \/ onLoadingFinished(q) \/ BodyRead(q) \/ CollectHeaders(q)
        PROVE  Goal
    BY <1>0, <1>1, <1>2, <1>7
       DEF onRequestWillBeSent, onResponseReceived, onDataReceived, onLoadingFinished,
           BodyRead, CollectHeaders, onFound, onTerminal, Verdicts
  <1>8. CASE Tier2Step
    <2>1. UNCHANGED verdictVars \/ (UNCHANGED <<settled, timers>> /\ outcome'.kind \in Verdicts)
      <3>1. CASE ReadBlob
        BY <1>0, <3>1 DEF ReadBlob, verdictVars, TypeOK, Verdicts
      <3>2. CASE FindBlob \/ CheckThrows \/ InstallHook
        BY <3>2 DEF FindBlob, CheckThrows, InstallHook
      <3>3. CASE CheckPageDrm \/ CheckPageBlocked
        BY <1>0, <3>3 DEF CheckPageDrm, CheckPageBlocked, Tier2Ends, Tier2Waits, Verdicts
      <3>4. CASE ClickPlay \/ PollTop \/ Sleep
        BY <1>0, <3>4 DEF ClickPlay, PollTop, Sleep, Tier2Ends, Tier2Waits, Verdicts
      <3> QED BY <1>8, <3>1, <3>2, <3>3, <3>4 DEF Tier2Step
    <2> QED BY <1>1, <2>1 DEF Goal, timers, TypeOK
  <1>9. CASE PageStep \/ DeadlinePasses \/ UNCHANGED vars
    BY <1>1, <1>9 DEF PageStep, EngageDrm, ShowChallenge, Navigate, CreateBlob, DeadlinePasses, vars
  <1> QED BY <1>3, <1>4, <1>5, <1>6, <1>7, <1>8, <1>9 DEF Next, Tier1Step

LEMMA CaptureStep == CaptureInv /\ [Next]_vars => CaptureInv'
  <1> SUFFICES ASSUME CaptureInv, [Next]_vars PROVE CaptureInv'
    OBVIOUS
  <1>1. MapsInv' /\ StageInv' /\ DrmInv' /\ CleanInv' /\ SizesInv'
    BY MapsStep, StageStep, DrmStep, CleanStep, SizesStep
  <1>2. ToSet(candidates') \cup ToSet(requestHeaders') \subseteq Resources
    BY <1>1 DEF MapsInv, Keys, ToSet
  <1>3. TypeOK'
    BY <1>2, EnvType, VerdictType DEF CaptureInv, TypeOK, Verdicts
  <1> QED BY <1>1, <1>3 DEF CaptureInv
----------------------------------------------------------------------------
(* Theorems                                                                *)

LEMMA CaptureAlways == Spec => []CaptureInv
  BY CaptureInit, CaptureStep, PTL DEF Spec

\* Every variable of the two tiers keeps its type: the Maps hold request ids of
\* the page, the page's own list of blobs never passes BLOB_CAP, and the verdict
\* is one of the service's codes.
THEOREM CaptureTypeCorrect == Spec => []TypeOK
  <1>1. CaptureInv => TypeOK
    BY DEF CaptureInv
  <1> QED BY <1>1, CaptureAlways, PTL

\* However many responses a page loads and in whatever order they are announced,
\* transferred, finished and evicted, the Maps of interceptMedia stay within
\* their caps and no received size outlives its candidate.
THEOREM MapsStayBounded == Spec => []BookkeepingBounded
  <1>1. CaptureInv => BookkeepingBounded
    BY DEF CaptureInv, MapsInv
  <1> QED BY <1>1, CaptureAlways, PTL

\* A document that used DRM before the DOM tier began and is still there is never
\* reported as anything else than drm_detected, unless the download was aborted
\* or the first look at the flag threw: the flag survives the second hook, and
\* the first thing detectBlob does is to look at it.
THEOREM EarlyDrmReported == Spec => []EarlyDrmIsReported
  <1>1. CaptureInv => EarlyDrmIsReported
    BY DEF CaptureInv, DrmInv
  <1> QED BY <1>1, CaptureAlways, PTL

\* When interceptMedia has returned its session is detached and neither timer is
\* armed, on every way out but the one of a signal that was aborted on entry.
THEOREM TimersStopped == Spec => []NothingLeftArmed
  <1>1. CaptureInv => NothingLeftArmed
    BY DEF CaptureInv, StageInv, NothingLeftArmed
  <1> QED BY <1>1, CaptureAlways, PTL

\* A response past its cap, decoded or as it was transferred.
Oversized(q) == profile[q].size > CapOf(q) \/ profile[q].encoded > CapOf(q)

\* The evidence for a verdict.
Justified ==
  outcome' # outcome =>
    /\ outcome \in {None, Null}
    /\ outcome'.kind = "manifest" => \E q \in collecting :
         CleanManifest(profile[q]) /\ outcome'.size = profile[q].size
    /\ outcome'.kind = "bytes" => outcome'.size \in 1..BodyCap
    /\ outcome'.kind = "drm_detected" => eme \/ \E q \in reading : profile[q].drm
    /\ outcome'.kind = "anti_bot_block" => tier1 = "armed" \/ blockPage
    /\ outcome'.kind = "network_error" =>
         tier1 = "setup" \/ blobUrl > BodyCap \/ \E q \in Resources : Oversized(q)
    /\ outcome'.kind = "no_media_found" => late /\ tier2 = "top"
    /\ outcome'.kind = "timeout" => aborted'

LEMMA JustifiedStep ==
  ASSUME CaptureInv, [Next]_vars
  PROVE  Justified
  <1>0. TypeOK /\ StageInv /\ CleanInv /\ SizesInv
    BY DEF CaptureInv
  <1>1. \A kind, size : /\ Found(kind, size).kind = kind /\ Found(kind, size).size = size
                        /\ Error(kind).kind = kind
    BY DEF Found, Error
  <1>2. ASSUME UNCHANGED outcome PROVE Justified
    BY <1>2 DEF Justified
  <1>3. ASSUME NEW kind \in {"network_error", "anti_bot_block"}, settle(Error(kind)), tier1 = "armed",
               kind = "network_error" => \E q \in Resources : Oversized(q)
        PROVE  Justified
    BY <1>0, <1>1, <1>3, SettleStep DEF StageInv, Justified
  <1>4. CASE SetupFails
    BY <1>0, <1>1, <1>4 DEF SetupFails, StageInv, Justified
  <1>5. CASE Arm
    BY <1>0, <1>1, <1>5 DEF Arm, StageInv, Justified
  <1>6. CASE FallthroughFires
    <2>1. ~settled => tier1 = "armed"
      BY <1>0, <1>6 DEF FallthroughFires, StageInv, TypeOK
    <2>2. Null.kind = "null"
      BY DEF Null, Found
    <2> QED BY <1>0, <1>2, <1>6, <2>1, <2>2, SettleStep
            DEF FallthroughFires, onFound, StageInv, Justified
  <1>7. CASE CheckDrm
    <2>1. ~settled => tier1 = "armed"
      BY <1>0, <1>7 DEF CheckDrm, StageInv, TypeOK
    <2> QED BY <1>0, <1>1, <1>2, <1>7, <2>1, SettleStep DEF CheckDrm, onTerminal, StageInv, Justified
  <1>8. CASE Abort
    <2>1. UNCHANGED outcome \/ (tier1 = "armed" /\ settle(Error("timeout")) /\ aborted')
      BY <1>8 DEF Abort, onTerminal, verdictVars
    <2> QED BY <1>0, <1>1, <1>2, <2>1, SettleStep DEF StageInv, Justified
  <1>9. CASE MainForbidden \/ onDomReady
    BY <1>3, <1>9 DEF MainForbidden, onDomReady, Listening, onTerminal
  <1>10. ASSUME NEW q \in Resources,
                \/ onRequestWillBeSent(q) \/ onResponseReceived(q) \/ onDataReceived(q)
                \/ onLoadingFinished(q)
         PROVE  Justified
    <2>1. CASE onRequestWillBeSent(q) \/ onResponseReceived(q)
      BY <1>2, <2>1 DEF onRequestWillBeSent, onResponseReceived, verdictVars
    <2>2. CASE onLoadingFinished(q)
      <3>1. UNCHANGED outcome \/ (Oversized(q) /\ tier1 = "armed" /\ settle(Error("network_error")))
        BY <2>2 DEF onLoadingFinished, Listening, onTerminal, verdictVars, Oversized
      <3> QED BY <1>2, <1>3, <3>1
    <2>3. CASE onDataReceived(q)
      <3>1. /\ net[q] \in Int /\ net[q] >= 0 /\ net[q] < profile[q].size
            /\ profile[q].size \in Nat /\ CapOf(q) \in Nat
        BY <1>0, <2>3, CaptureAssumption DEF onDataReceived, TypeOK, CapOf, ProfileType
      <3>2. Received(q) \in Nat /\ Received(q) <= net[q]
        BY <1>0, <3>1 DEF Received, SizesInv
      <3>3. \A d \in 0..1 : Received(q) + d > CapOf(q) => Oversized(q)
        BY <3>1, <3>2 DEF Oversized
      <3>4. UNCHANGED outcome \/ (Oversized(q) /\ tier1 = "armed" /\ settle(Error("network_error")))
        BY <2>3, <3>3 DEF onDataReceived, Listening, onTerminal, verdictVars
      <3> QED BY <1>2, <1>3, <3>4
    <2> QED BY <1>10, <2>1, <2>2, <2>3
  <1>11. ASSUME NEW q \in Resources, BodyRead(q) PROVE Justified
    <2>1. tier1 = "armed" /\ q \in reading
      BY <1>0, <1>11 DEF BodyRead, StageInv, TypeOK
    <2>2. profile[q] \in ProfileType
      BY <1>0, CaptureAssumption DEF TypeOK
    <2>3. \/ UNCHANGED outcome
          \/ BodyVerdict(profile[q]) = "bytes" /\ settle(Found("bytes", profile[q].size))
          \/ BodyVerdict(profile[q]) = "drm_detected" /\ settle(Error("drm_detected"))
          \/ BodyVerdict(profile[q]) = "network_error" /\ settle(Error("network_error"))
      BY <1>11 DEF BodyRead, onFound, onTerminal, verdictVars
    <2>4. CASE BodyVerdict(profile[q]) = "bytes" /\ settle(Found("bytes", profile[q].size))
      <3>1. profile[q].size \in 1..BodyCap
        BY <2>2, <2>4, VerdictKinds
      <3> QED BY <1>0, <1>1, <1>2, <2>1, <2>4, <3>1, SettleStep DEF StageInv, Justified
    <2>5. CASE BodyVerdict(profile[q]) = "drm_detected" /\ settle(Error("drm_detected"))
      <3>1. profile[q].drm
        BY <2>2, <2>5, VerdictKinds
      <3> QED BY <1>0, <1>1, <1>2, <2>1, <2>5, <3>1, SettleStep DEF StageInv, Justified
    <2>6. CASE BodyVerdict(profile[q]) = "network_error" /\ settle(Error("network_error"))
      <3>1. Oversized(q)
        BY <2>6 DEF BodyVerdict, ManifestVerdict, BytesVerdict, Oversized, CapOf
      <3> QED BY <1>3, <2>1, <2>6, <3>1
    <2> QED BY <1>2, <2>3, <2>4, <2>5, <2>6
  <1>12. ASSUME NEW q \in Resources, CollectHeaders(q) PROVE Justified
    <2>1. /\ tier1 = "armed" /\ q \in collecting /\ settle(Found("manifest", profile[q].size))
      BY <1>0, <1>12 DEF CollectHeaders, onFound, StageInv, TypeOK
    <2>2. CleanManifest(profile[q])
      BY <1>0, <2>1 DEF CleanInv
    <2> QED BY <1>0, <1>1, <1>2, <2>1, <2>2, SettleStep DEF StageInv, Justified
  <1>13. CASE Tier2Step
    <2>1. \/ UNCHANGED outcome
          \/ tier2 \in {"drm", "recheck"} /\ eme /\ outcome' = Error("drm_detected")
          \/ tier2 \in {"bot", "rebot"} /\ blockPage /\ outcome' = Error("anti_bot_block")
          \/ tier2 = "top" /\ late /\ outcome' = Error("no_media_found")
          \/ tier2 = "top" /\ aborted /\ outcome' = Error("timeout") /\ UNCHANGED aborted
          \/ tier2 = "read" /\ blobUrl > BodyCap /\ outcome' = Error("network_error")
          \/ tier2 = "read" /\ \E size \in 1..BodyCap : outcome' = Found("bytes", size)
      BY <1>13
         DEF Tier2Step, InstallHook, CheckPageDrm, CheckPageBlocked, ClickPlay, PollTop, FindBlob, CheckThrows, ReadBlob,
             Sleep, Tier2Ends, Tier2Goes, Tier2Waits, verdictVars
    <2>2. UNCHANGED outcome \/ outcome = Null
      BY <1>0, <2>1 DEF StageInv
    <2> QED BY <1>1, <1>2, <2>1, <2>2 DEF Justified
  <1>14. CASE Detach \/ PageStep \/ DeadlinePasses \/ UNCHANGED vars
    BY <1>2, <1>14
       DEF Detach, PageStep, EngageDrm, ShowChallenge, Navigate, CreateBlob, DeadlinePasses, verdictVars, vars
  <1> QED BY <1>4, <1>5, <1>6, <1>7, <1>8, <1>9, <1>10, <1>11, <1>12, <1>13, <1>14
          DEF Next, Tier1Step

\* A verdict is final once it is more than tier 1's null, and each one has its
\* evidence: a manifest that is handed on was read whole and found free of DRM
\* markers, media is within the cap, and an error code is what the page did.
THEOREM VerdictsJustified == Spec => VerdictIsJustified
  <1>1. CaptureInv /\ [Next]_vars => [Justified]_vars
    BY JustifiedStep
  <1>2. [Justified]_vars => [outcome' # outcome =>
      /\ outcome \in {None, Null}
      /\ outcome'.kind = "manifest" => \E q \in collecting :
           /\ profile[q].manifest /\ ~profile[q].drm /\ profile[q].size \in 1..ManifestCap
           /\ outcome'.size = profile[q].size
      /\ outcome'.kind = "bytes" => outcome'.size \in 1..BodyCap
      /\ outcome'.kind = "drm_detected" => eme \/ \E q \in reading : profile[q].drm
      /\ outcome'.kind = "anti_bot_block" => tier1 = "armed" \/ blockPage
      /\ outcome'.kind = "network_error" =>
           \/ tier1 = "setup" \/ blobUrl > BodyCap
           \/ \E q \in Resources : profile[q].size > CapOf(q) \/ profile[q].encoded > CapOf(q)
      /\ outcome'.kind = "no_media_found" => late /\ tier2 = "top"
      /\ outcome'.kind = "timeout" => aborted']_vars
    BY DEF Justified, CleanManifest, Oversized
  <1> QED BY <1>1, <1>2, CaptureAlways, PTL DEF Spec, VerdictIsJustified
============================================================================
