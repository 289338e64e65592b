---------------------------- MODULE MediaCapture ----------------------------
(***************************************************************************)
(* The two tiers that look for media in a page opened by the browser       *)
(* service: interceptMedia (tier1-cdp.js), which watches the network over  *)
(* a CDP session, and detectBlob (tier2-dom.js), which polls the page for  *)
(* blob URLs when the first tier falls through.                            *)
(*                                                                         *)
(* The page and the network are the environment: they raise events in any  *)
(* order.  An action of a tier is the code between two awaits.             *)
(***************************************************************************)
EXTENDS Integers, Sequences, FiniteSets, SequencesExt

CONSTANTS
  Resources,        \* requestIds of the media-like responses of the page
  Pages,            \* what the resources of a page are: see ProfileType
  BodyCap,          \* bodyCap, in units of one data event
  ManifestCap,      \* MANIFEST_CAP, in the same unit
  CANDIDATES_CAP, REQUEST_HEADERS_CAP, BLOB_CAP,
  BlobSizes         \* sizes of the blobs the page makes

\* A response: its URL names a manifest or not, its decoded and its encoded
\* size, DRM markers in its text.
ProfileType == [manifest : BOOLEAN, size : Nat, encoded : Nat, drm : BOOLEAN]

ASSUME CaptureAssumption ==
  /\ IsFiniteSet(Resources) /\ Pages \subseteq [Resources -> ProfileType]
  /\ BodyCap \in Nat /\ ManifestCap \in Nat /\ BlobSizes \subseteq Nat
  /\ CANDIDATES_CAP \in Nat \ {0} /\ REQUEST_HEADERS_CAP \in Nat \ {0}
  /\ BLOB_CAP \in Nat \ {0}

VARIABLES
  profile,         \* of each resource
  net,             \* how far each resource has been transferred
  engaged,         \* when the document first used DRM: before or during tier 2
  eme,             \* window.__bd_drm of the document
  blockPage,       \* the document reads as a challenge page
  aborted,         \* opts.signal.aborted; the browser is closed then
  \* tier 1
  tier1, settled, outcome, session, fallthroughTimer, drmTimer, enteredAborted,
  candidates,      \* the Map's keys, in insertion order
  receivedSizes,   \* per candidate with data
  requestHeaders,  \* the Map's keys, in insertion order
  reading,         \* handlers waiting for Network.getResponseBody
  collecting,      \* handlers waiting for the page's auth headers
  \* tier 2
  tier2, hooked, blobs, late,
  blobUrl,         \* the blob being read, by its size
  blind            \* history: the first look at the flag threw

env   == <<profile, net, engaged, eme, blockPage>>
maps  == <<candidates, receivedSizes, requestHeaders, reading, collecting>>
timers == <<fallthroughTimer, drmTimer>>
first == <<tier1, session, enteredAborted>>
verdictVars == <<settled, outcome, timers>>
poll  == <<late, blobUrl, blind>>
second == <<tier2, hooked, blobs, poll>>
vars  == <<env, aborted, first, verdictVars, maps, second>>

Found(kind, size) == [kind |-> kind, size |-> size]
None      == Found("none", 0)
Null      == Found("null", 0)
Error(code) == Found(code, 0)
NoBlob    == -1

Init ==
  /\ profile \in Pages
  /\ net = [q \in Resources |-> -2]
  /\ engaged = "no" /\ eme = FALSE /\ blockPage = FALSE /\ aborted = FALSE
  /\ tier1 = "setup" /\ settled = FALSE /\ outcome = None
  /\ session = "attached" /\ enteredAborted = FALSE
  /\ fallthroughTimer = "unset" /\ drmTimer = "unset"
  /\ candidates = <<>> /\ receivedSizes = <<>> /\ requestHeaders = <<>>
  /\ reading = {} /\ collecting = {}
  /\ tier2 = "off" /\ hooked = FALSE /\ blobs = <<>> /\ late = FALSE
  /\ blobUrl = NoBlob /\ blind = FALSE

-----------------------------------------------------------------------------
(* Tier 1: settling *)

Cleared(timer) == IF timer = "armed" THEN "cleared" ELSE timer

\* Variant: the DRM poll goes on.
SettlePolling(result) ==
  IF settled THEN UNCHANGED verdictVars
  ELSE /\ settled' = TRUE /\ outcome' = result
       /\ fallthroughTimer' = Cleared(fallthroughTimer) /\ drmTimer' = drmTimer

\* settle(): the first verdict stops the timers and is kept.
settle(result) ==
  IF settled THEN UNCHANGED verdictVars
  ELSE /\ settled' = TRUE /\ outcome' = result
       /\ fallthroughTimer' = Cleared(fallthroughTimer)
       /\ drmTimer' = Cleared(drmTimer)
onFound(result)  == settle(result)
onTerminal(code) == settle(Error(code))

\* newCDPSession, Network.enable and addInitScript, with the way out that
\* detaches the session.
SetupFails ==
  /\ tier1 = "setup"
  /\ tier1' = "ended" /\ session' = "detached" /\ outcome' = Error("network_error")
  /\ UNCHANGED <<env, aborted, enteredAborted, settled, timers, maps, second>>

\* The executor: an aborted signal settles first, then both timers are
\* created and the navigation starts.
Arm ==
  /\ tier1 = "setup"
  /\ tier1' = "armed" /\ enteredAborted' = aborted
  /\ settled' = aborted
  /\ outcome' = IF aborted THEN Error("timeout") ELSE outcome
  /\ fallthroughTimer' = "armed" /\ drmTimer' = "armed"
  /\ UNCHANGED <<env, aborted, session, maps, second>>

\* The handlers of the promise: the session is detached, the result returned.
\* The network is no longer heard and the Maps are dead: a late handler can
\* only settle again.
Detach ==
  /\ tier1 = "armed" /\ settled
  /\ tier1' = "ended" /\ session' = "detached"
  /\ tier2' = IF outcome = Null THEN "hook" ELSE "off"
  /\ net' = [q \in Resources |-> -2] /\ candidates' = <<>> /\ requestHeaders' = <<>>
  /\ receivedSizes' = <<>> /\ reading' = {} /\ collecting' = {}
  /\ UNCHANGED <<profile, engaged, eme, blockPage, aborted, enteredAborted, verdictVars,
                 hooked, blobs, poll>>

\* The fallthrough timer resolves null; it is one-shot.
FallthroughFires ==
  /\ fallthroughTimer = "armed"
  /\ IF settled THEN fallthroughTimer' = "fired" /\ UNCHANGED <<settled, outcome, drmTimer>>
     ELSE onFound(Null)
  /\ UNCHANGED <<env, aborted, first, maps, second>>

\* checkDrm, every 500 ms, finds the flag; an evaluate that throws is ignored, as
\* on a closed page.
CheckDrm ==
  /\ drmTimer = "armed" /\ eme /\ ~aborted
  /\ onTerminal("drm_detected")
  /\ UNCHANGED <<env, aborted, first, maps, second>>

\* cancel.abort(): download() closes the browser, tier 1 settles at once.
Abort ==
  /\ ~aborted /\ aborted' = TRUE
  /\ tier1 = "setup" \/ (tier1 = "armed" /\ ~settled) \/ tier2 \notin {"off", "ended"}
  /\ IF tier1 = "armed" THEN onTerminal("timeout") ELSE UNCHANGED verdictVars
  /\ UNCHANGED <<env, first, maps, second>>

-----------------------------------------------------------------------------
(* Tier 1: the network *)

Listening == tier1 = "armed" /\ session = "attached"
ElseUnchanged == UNCHANGED <<aborted, first, second>>

\* A Map that forgets its oldest key when a new one takes it past the cap.
SetCapped(keys, q, cap) ==
  LET grown == IF \E i \in DOMAIN keys : keys[i] = q THEN keys ELSE Append(keys, q)
  IN  IF Len(grown) > cap THEN Tail(grown) ELSE grown
KeepSizes(sizes, keys) == sizes  \* variant: the size stays behind
Forget(sizes, keys) == [q \in DOMAIN sizes \cap ToSet(keys) |-> sizes[q]]

\* onRequestWillBeSent, of a request that carries credentials or not.
onRequestWillBeSent(q) ==
  /\ Listening /\ net[q] = -2
  /\ net' = [net EXCEPT ![q] = -1]
  /\ \/ requestHeaders' = SetCapped(requestHeaders, q, REQUEST_HEADERS_CAP)
     \/ UNCHANGED requestHeaders
  /\ UNCHANGED <<profile, engaged, eme, blockPage, candidates, receivedSizes, reading, collecting,
                 verdictVars>>
  /\ ElseUnchanged

\* onResponseReceived: a media-like response becomes a candidate, unless it is
\* a 403.  The evicted one loses its size too.
onResponseReceived(q) ==
  /\ Listening /\ net[q] = -1
  /\ net' = [net EXCEPT ![q] = 0]
  /\ \/ candidates' = SetCapped(candidates, q, CANDIDATES_CAP)
     \/ UNCHANGED candidates
  /\ receivedSizes' = Forget(receivedSizes, candidates')
  /\ UNCHANGED <<profile, engaged, eme, blockPage, requestHeaders, reading, collecting, verdictVars>>
  /\ ElseUnchanged

CapOf(q) == IF profile[q].manifest THEN ManifestCap ELSE BodyCap
Received(q) == IF q \in DOMAIN receivedSizes THEN receivedSizes[q] ELSE 0

\* onDataReceived: one unit of the body, whose length the event may not tell;
\* the cumulative size is capped.
onDataReceived(q) ==
  /\ Listening /\ net[q] >= 0 /\ net[q] < profile[q].size
  /\ net' = [net EXCEPT ![q] = @ + 1]
  /\ IF q \in ToSet(candidates)
     THEN \E dataLength \in 0..1 :
            LET total == Received(q) + dataLength
            IN  /\ receivedSizes' = [c \in DOMAIN receivedSizes \cup {q} |->
                                       IF c = q THEN total ELSE receivedSizes[c]]
                /\ IF total > CapOf(q) THEN onTerminal("network_error")
                   ELSE UNCHANGED verdictVars
     ELSE UNCHANGED <<receivedSizes, verdictVars>>
  /\ UNCHANGED <<profile, engaged, eme, blockPage, candidates, requestHeaders, reading, collecting>>
  /\ ElseUnchanged

\* onLoadingFinished, up to its first await.
onLoadingFinished(q) ==
  /\ Listening /\ net[q] = profile[q].size
  /\ net' = [net EXCEPT ![q] = @ + 1]
  /\ candidates' = RemoveFirst(candidates, q)
  /\ receivedSizes' = Forget(receivedSizes, candidates')
  /\ IF q \notin ToSet(candidates) THEN UNCHANGED <<reading, verdictVars>>
     ELSE IF profile[q].encoded > CapOf(q)
     THEN onTerminal("network_error") /\ UNCHANGED reading
     ELSE reading' = reading \cup {q} /\ UNCHANGED verdictVars
  /\ UNCHANGED <<profile, engaged, eme, blockPage, requestHeaders, collecting>>
  /\ ElseUnchanged

\* Variant: the manifest is not scanned.
ManifestUnscanned(p) ==
  CASE p.size = 0           -> "wait"
    [] p.size > ManifestCap -> "network_error"
    [] OTHER                -> "collect"

\* The verdict on a body that has been read; "wait" keeps waiting.
ManifestVerdict(p) ==
  CASE p.size = 0           -> "wait"
    [] p.size > ManifestCap -> "network_error"
    [] p.drm                -> "drm_detected"
    [] OTHER                -> "collect"
BytesVerdict(p) ==
  CASE p.size > BodyCap -> "network_error"
    [] p.size = 0       -> "wait"
    [] OTHER            -> "bytes"
BodyVerdict(p) == IF p.manifest THEN ManifestVerdict(p) ELSE BytesVerdict(p)

\* getResponseBody answers, or throws: the body is gone, the session detached.
BodyRead(q) ==
  /\ q \in reading
  /\ reading' = reading \ {q}
  /\ \/ /\ session = "attached"
        /\ LET v == BodyVerdict(profile[q])
           IN  /\ collecting' = IF v = "collect" THEN collecting \cup {q} ELSE collecting
               /\ \/ v = "bytes" /\ onFound(Found("bytes", profile[q].size))
                  \/ v \in {"wait", "collect"} /\ UNCHANGED verdictVars
                  \/ v \in {"network_error", "drm_detected"} /\ onTerminal(v)
     \/ UNCHANGED <<collecting, verdictVars>>
  /\ UNCHANGED <<env, candidates, receivedSizes, requestHeaders>>
  /\ ElseUnchanged

\* The page's auth headers are merged with the request's, best effort.
CollectHeaders(q) ==
  /\ q \in collecting
  /\ collecting' = collecting \ {q}
  /\ requestHeaders' = RemoveFirst(requestHeaders, q)
  /\ onFound(Found("manifest", profile[q].size))
  /\ UNCHANGED <<env, candidates, receivedSizes, reading>>
  /\ ElseUnchanged

\* A 403 on the main document, from CDP or from page.on('response').
MainForbidden ==
  /\ Listening
  /\ onTerminal("anti_bot_block")
  /\ UNCHANGED <<env, maps>> /\ ElseUnchanged

\* onDomReady: the text of the page is read once.
onDomReady ==
  /\ tier1 = "armed" /\ blockPage /\ ~aborted
  /\ onTerminal("anti_bot_block")
  /\ UNCHANGED <<env, maps>> /\ ElseUnchanged

-----------------------------------------------------------------------------
(* The page *)

PageLives == ~aborted /\ (tier1 = "armed" \/ tier2 \notin {"off", "ended"})

\* The page asks for a key system, or an 'encrypted' event bubbles.
EngageDrm ==
  /\ PageLives /\ engaged = "no"
  /\ eme' = TRUE
  /\ engaged' = IF tier2 \in {"off", "hook"} THEN "early" ELSE "late"
  /\ UNCHANGED <<profile, net, blockPage, aborted, first, verdictVars, maps, second>>

\* The page goes to another document: tier 1's init script starts it with a clear
\* flag, tier 2's hook is not installed on it.
Navigate ==
  /\ PageLives
  /\ engaged' = "no" /\ eme' = FALSE /\ blockPage' = FALSE
  /\ hooked' = FALSE /\ blobs' = <<>>
  /\ UNCHANGED <<profile, net, aborted, first, verdictVars, maps, tier2, poll>>

\* The page turns into a challenge page.
ShowChallenge ==
  /\ PageLives /\ ~blockPage /\ blockPage' = TRUE
  /\ UNCHANGED <<profile, net, engaged, eme, aborted, first, verdictVars, maps, second>>

\* Variant: off by one.
pushOneMore(arr, blob) ==
  Append(IF Len(arr) > BLOB_CAP THEN Tail(arr) ELSE arr, blob)

\* record, inside the page: the hook keeps the last BLOB_CAP blobs.
pushBlobUrl(arr, blob) ==
  Append(IF Len(arr) >= BLOB_CAP THEN Tail(arr) ELSE arr, blob)
CreateBlob(size) ==
  /\ PageLives /\ hooked
  /\ blobs' = pushBlobUrl(blobs, size)
  /\ UNCHANGED <<env, aborted, first, verdictVars, maps, tier2, hooked, poll>>

-----------------------------------------------------------------------------
(* Tier 2.  Every page.evaluate may throw, on a closed page and on a live one  *)
(* that navigates or crashes; what it would have told is taken for clean.      *)

Tier2Goes(next) ==
  /\ tier2' = next
  /\ UNCHANGED <<env, aborted, first, maps>>
Tier2Ends(result) ==
  /\ Tier2Goes("ended") /\ outcome' = result
  /\ UNCHANGED <<settled, timers, hooked, blobs, poll>>
Tier2Waits(next) == Tier2Goes(next) /\ UNCHANGED <<verdictVars, hooked, blobs, poll>>

\* Variant: the hook starts with a clear flag.
InstallHookAfresh ==
  /\ tier2 = "hook" /\ tier2' = "drm" /\ hooked' = ~aborted
  /\ eme' = (aborted /\ eme)
  /\ UNCHANGED <<profile, net, engaged, blockPage, aborted, first, maps, verdictVars, blobs, poll>>

\* HOOK_SRC keeps an earlier flag.
InstallHook ==
  /\ tier2 = "hook"
  /\ Tier2Goes("drm") /\ hooked' \in {~aborted, FALSE}
  /\ UNCHANGED <<verdictVars, blobs, poll>>

\* The flag, then the text: before polling ("drm", "bot") and after each attempt
\* ("recheck", "rebot"), where a throw skips what is left of the check.
CheckPageDrm ==
  /\ tier2 \in {"drm", "recheck"} /\ ~aborted
  /\ IF eme THEN Tier2Ends(Error("drm_detected"))
     ELSE Tier2Waits(IF tier2 = "drm" THEN "bot" ELSE "rebot")
CheckPageBlocked ==
  /\ tier2 \in {"bot", "rebot"} /\ ~aborted
  /\ IF blockPage THEN Tier2Ends(Error("anti_bot_block"))
     ELSE Tier2Waits(IF tier2 = "bot" THEN "click" ELSE "sleep")
CheckThrows ==
  /\ \/ tier2 = "drm" /\ Tier2Goes("bot") /\ blind' = TRUE
     \/ tier2 = "bot" /\ Tier2Goes("click") /\ UNCHANGED blind
     \/ tier2 \in {"recheck", "rebot"} /\ Tier2Goes("sleep") /\ UNCHANGED blind
  /\ UNCHANGED <<verdictVars, hooked, blobs, late, blobUrl>>

\* tryClickPlay, then the deadline starts to run.
ClickPlay == tier2 = "click" /\ Tier2Waits("top")

DeadlinePasses ==
  /\ tier2 \notin {"off", "ended", "hook", "drm", "bot", "click"} /\ ~late
  /\ late' = TRUE
  /\ UNCHANGED <<env, aborted, first, verdictVars, maps, tier2, hooked, blobs, blobUrl, blind>>

\* Variant: the loop has no deadline.
PollForever ==
  /\ tier2 = "top"
  /\ IF aborted THEN Tier2Ends(Error("timeout")) ELSE Tier2Waits("find")

\* The head of the loop.
PollTop ==
  /\ tier2 = "top"
  /\ IF late THEN Tier2Ends(Error("no_media_found"))
     ELSE IF aborted THEN Tier2Ends(Error("timeout")) ELSE Tier2Waits("find")

\* The <video>'s own blob, which may be any of the page's, else the newest one
\* the hook has seen, else none.
FindBlob ==
  /\ tier2 = "find"
  /\ \/ /\ ~aborted
        /\ \/ \E size \in BlobSizes : blobUrl' = size
           \/ blobs # <<>> /\ blobUrl' = Last(blobs)
        /\ Tier2Goes("read")
     \/ Tier2Goes("recheck") /\ UNCHANGED blobUrl
  /\ UNCHANGED <<verdictVars, hooked, blobs, late, blind>>

\* The in-page fetch of the blob: too large, media, empty or failed.
ReadBlob ==
  /\ tier2 = "read" /\ blobUrl' = NoBlob
  /\ \/ /\ ~aborted /\ blobUrl > BodyCap
        /\ Tier2Goes("ended") /\ outcome' = Error("network_error")
     \/ /\ ~aborted /\ blobUrl \in 1..BodyCap
        /\ Tier2Goes("ended") /\ outcome' = Found("bytes", blobUrl)
     \/ Tier2Goes("recheck") /\ UNCHANGED outcome
  /\ UNCHANGED <<settled, timers, hooked, blobs, late, blind>>

Sleep == tier2 = "sleep" /\ Tier2Waits("top")

Tier1Step ==
  \/ SetupFails \/ Arm \/ Detach \/ FallthroughFires \/ CheckDrm
  \/ MainForbidden \/ onDomReady
  \/ \E q \in Resources :
       \/ onRequestWillBeSent(q) \/ onResponseReceived(q) \/ onDataReceived(q)
       \/ onLoadingFinished(q) \/ BodyRead(q) \/ CollectHeaders(q)
Tier2Step ==
  \/ InstallHook \/ CheckPageDrm \/ CheckPageBlocked \/ CheckThrows \/ ClickPlay
  \/ PollTop \/ FindBlob \/ ReadBlob \/ Sleep
PageStep == EngageDrm \/ ShowChallenge \/ Navigate \/ \E size \in BlobSizes : CreateBlob(size)

Next == Tier1Step \/ Tier2Step \/ PageStep \/ DeadlinePasses \/ Abort

\* Timers fire and the browser answers what does not need the page: the CDP
\* session's set-up and detach.  A page may leave an evaluate without an answer
\* for as long as it lives, which is until an abort closes the browser.
Fairness ==
  /\ WF_vars(SetupFails \/ Arm) /\ WF_vars(Detach) /\ WF_vars(FallthroughFires)
  /\ WF_vars(DeadlinePasses) /\ WF_vars(PollTop) /\ WF_vars(Sleep)
  /\ WF_vars(aborted /\ Tier2Step)

Spec == Init /\ [][Next]_vars
FairSpec == Spec /\ Fairness
-----------------------------------------------------------------------------
(* Properties *)

\* Every variable keeps its type: tier1-cdp.js 195-204, tier2-dom.js 144-151.
TypeOK ==
  /\ profile \in Pages /\ net \in [Resources -> Int]
  /\ engaged \in {"no", "early", "late"}
  /\ {eme, blockPage, aborted, settled, enteredAborted, hooked, late, blind} \subseteq BOOLEAN
  /\ tier1 \in {"setup", "armed", "ended"} /\ session \in {"attached", "detached"}
  /\ fallthroughTimer \in {"unset", "armed", "cleared", "fired"}
  /\ drmTimer \in {"unset", "armed", "cleared"}
  /\ tier2 \in {"off", "hook", "drm", "bot", "click", "top", "find", "read", "recheck",
                "rebot", "sleep", "ended"}
  /\ outcome.kind \in {"none", "null", "bytes", "manifest", "drm_detected",
                       "anti_bot_block", "network_error", "timeout", "no_media_found"}
  /\ ToSet(candidates) \cup ToSet(requestHeaders) \cup reading \cup collecting
       \subseteq Resources
  /\ blobs \in BoundedSeq(BlobSizes, BLOB_CAP)
  /\ blobUrl \in Int /\ (tier2 = "read" => blobUrl \in BlobSizes)

\* What tier 1 keeps stays bounded and consistent whatever the page loads: no
\* Map passes its cap, and no size outlives its candidate: tier1-cdp.js 34-40,
\* 256-264, 379-386.
BookkeepingBounded ==
  /\ Len(candidates) <= CANDIDATES_CAP /\ Len(requestHeaders) <= REQUEST_HEADERS_CAP
  /\ DOMAIN receivedSizes \subseteq ToSet(candidates)
  /\ IsInjective(candidates)

\* A verdict is final, but for tier 1's null, which gives way to the verdict of
\* tier 2: a late timer, handler or abort changes nothing.  And it says what
\* the page did, whatever the order of the events: the manifest handed on is
\* clean and within its cap, media is non-empty and within the cap, and a
\* terminal error has its own evidence (a 403 of the main document is an event
\* and leaves none): tier1-cdp.js 7-19, 220-229, tier2-dom.js 277-320.
VerdictIsJustified ==
  [][outcome' # outcome =>
      /\ outcome \in {None, Null}
      /\ outcome'.kind = "manifest" => \E q \in collecting :
           /\ profile[q].manifest /\ ~profile[q].drm /\ profile[q].size \in 1..ManifestCap
           /\ outcome'.size = profile[q].size
      /\ outcome'.kind = "bytes" => outcome'.size \in 1..BodyCap
      /\ outcome'.kind = "drm_detected" => eme \/ \E q \in reading : profile[q].drm
      /\ outcome'.kind = "anti_bot_block" => tier1 = "armed" \/ blockPage
      /\ outcome'.kind = "network_error" =>
           \/ tier1 = "setup" \/ blobUrl > BodyCap
           \/ \E q \in Resources : profile[q].size > CapOf(q) \/ profile[q].encoded > CapOf(q)
      /\ outcome'.kind = "no_media_found" => late /\ tier2 = "top"
      /\ outcome'.kind = "timeout" => aborted']_vars

\* A document that engaged DRM before tier 2 begins, and is still there at the
\* end, is reported as such, although tier 2 patches the page a second time: it
\* is never no_media_found, nor media of the page.  The exceptions are an abort
\* and a first look that threw: tier2-dom.js 54, 151-163.
EarlyDrmIsReported ==
  tier2 = "ended" /\ engaged = "early" /\ ~blind =>
    outcome.kind = "drm_detected" \/ aborted

\* A page that has engaged DRM by the end is not reported as no_media_found: the
\* comment at tier2-dom.js 293-296 ("so neither terminal condition is masked").
DrmNeverMasked ==
  tier2 = "ended" /\ eme => outcome.kind # "no_media_found" \/ aborted

\* When the tier has returned, its session is detached and its timers are
\* stopped, unless the signal was aborted before the promise was made:
\* tier1-cdp.js 25-27.
NothingLeftArmed ==
  tier1 = "ended" /\ ~enteredAborted =>
    session = "detached" /\ fallthroughTimer # "armed" /\ drmTimer # "armed"

\* The same, of every promise: the comment at tier1-cdp.js 25-27 ("the fallthrough
\* timer is cleared when media is found or a terminal condition throws").
TimersCleared ==
  tier1 = "ended" => fallthroughTimer # "armed" /\ drmTimer # "armed"

\* Tier 2 waits for an answer of the page.
AwaitsPage == ~aborted /\
  tier2 \in {"hook", "drm", "bot", "click", "find", "read", "recheck", "rebot"}

\* The capture ends, with a body that never arrives and a page that never falls
\* silent: by the fallthrough timer, then by the deadline, or by an abort.  What
\* can hold it is one evaluate that the page never answers: tier1-cdp.js 245,
\* tier2-dom.js 192-331.
CaptureEnds ==
  <>(tier1 = "ended" /\ tier2 \in {"off", "ended"}) \/ <>[]AwaitsPage
=============================================================================
