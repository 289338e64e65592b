--------------------------- MODULE BrowserService ---------------------------
(***************************************************************************)
(* The browser-downloader service: the POST /download handler of server.js *)
(* with its semaphore (concurrency.js), and the download() it races        *)
(* against the request timer (downloader.js), with the Chromium and the    *)
(* streamlink or ffmpeg process it starts (runSpawn, streamlink-backend).  *)
(* What a thrown error is called is in DownloadErrors.                     *)
(*                                                                         *)
(* An action is the code between two awaits.  The tiers and the HLS        *)
(* fallback are seen here by their verdicts only; they have their own      *)
(* modules, MediaCapture and HlsFallback.                                  *)
(***************************************************************************)
EXTENDS Naturals, Sequences, FiniteSets, DownloadErrors

CONSTANTS
  Requests,        \* POST /download requests the service receives
  Ndjson,          \* those that ask for a progress stream
  MaxConcurrency,  \* BD_MAX_CONCURRENCY
  MaxLines,        \* bound: progress lines written per stream
  Codes            \* bound: the codes the tiers and the fallback give up with

ASSUME ServiceAssumption ==
  /\ IsFiniteSet(Requests) /\ Ndjson \subseteq Requests
  /\ MaxConcurrency \in Nat \ {0} /\ MaxLines \in Nat
  /\ Codes \subseteq ErrorCodes

VARIABLES
  stage,     \* of the handler of a request
  gone,      \* the client has closed the connection (res.destroyed)
  active,    \* the semaphore's counter
  held,      \* the request's release() has not run yet
  aborted,   \* cancel.signal.aborted
  answer,    \* the HTTP response sent
  lines,     \* lines of a progress stream
  recorded,  \* outcomes given to recordDownload
  phase,     \* of the request's download() promise
  verdict,   \* what download() settles with
  browser,   \* the request's Chromium
  child,     \* the request's streamlink or ffmpeg process group
  file,      \* outPath
  stealth    \* stealthReady, shared by all requests

handler  == <<stage, gone, active, held, answer, lines, recorded>>
download == <<phase, verdict, file>>
procs    == <<browser, child>>
vars     == <<handler, aborted, download, procs, stealth>>

Stages  == {"new", "validating", "inflight", "done"}
Phases  == {"idle", "checking", "launching", "setup", "tier1", "tier2",
            "saving", "streaming", "fallback", "concat", "removing",
            "leaving", "closing", "settled"}
Outcomes   == ErrorCodes \cup {"success", "invalid_request", "concurrency_limit"}

Init ==
  /\ stage    = [r \in Requests |-> "new"]
  /\ gone     = [r \in Requests |-> FALSE]
  /\ active   = 0
  /\ held     = [r \in Requests |-> FALSE]
  /\ aborted  = [r \in Requests |-> FALSE]
  /\ answer   = [r \in Requests |-> "none"]
  /\ lines    = [r \in Requests |-> <<>>]
  /\ recorded = [r \in Requests |-> <<>>]
  /\ phase    = [r \in Requests |-> "idle"]
  /\ verdict  = [r \in Requests |-> "none"]
  /\ browser  = [r \in Requests |-> "none"]
  /\ child    = [r \in Requests |-> "none"]
  /\ file     = [r \in Requests |-> "none"]
  /\ stealth  = "unset"

-----------------------------------------------------------------------------
(* Helpers of the handler *)

\* recordDownload: one terminal outcome of request r.
Record(r, outcome) == recorded' = [recorded EXCEPT ![r] = Append(@, outcome)]

\* res.status(code).json(...): nothing reaches a client that has left.
Respond(r, code) ==
  answer' = [answer EXCEPT ![r] = IF gone[r] THEN @ ELSE code]

\* Variant: the classifier's exception is passed on.
rethrowClassify(code) == code

\* safeClassify: what classifyError throws on is answered as network_error.
safeClassify(code) == IF code = "bug" THEN "network_error" ELSE code

\* The response that carries the result of the race.
AnswerTo(r, outcome) ==
  IF r \in Ndjson THEN "stream" ELSE IF outcome = "success" THEN "200" ELSE "502"

\* writeEvent(result); res.end(): the last line of a progress stream.
EndStream(r) ==
  lines' = [lines EXCEPT ![r] = IF r \in Ndjson /\ ~gone[r]
                                THEN Append(@, "result") ELSE @]

\* acquire() and the release() it returns, which acts once.
acquire(r) ==
  /\ active' = active + 1
  /\ held'   = [held EXCEPT ![r] = TRUE]
release(r) ==
  /\ active' = IF held[r] /\ active > 0 THEN active - 1 ELSE active
  /\ held'   = [held EXCEPT ![r] = FALSE]

\* browser.close() is called; Chromium exits in BrowserExits.
CloseBrowser(r) ==
  browser' = [browser EXCEPT ![r] = IF @ = "open" THEN "closing" ELSE @]

\* cancel.abort(): its listeners run at once.  download() closes its browser,
\* unless its finally block has removed the listener; runSpawn signals the
\* process group.
CloseOnAbort(r) ==
  IF phase[r] = "leaving" THEN UNCHANGED browser ELSE CloseBrowser(r)
KillOnAbort(r) ==
  child' = [child EXCEPT ![r] = IF @ = "running" THEN "terminating" ELSE @]
abort(r) ==
  /\ aborted' = [aborted EXCEPT ![r] = TRUE]
  /\ CloseOnAbort(r) /\ KillOnAbort(r)

\* What follows the race, up to and with its finally block: record, answer,
\* abort, release.
Conclude(r, outcome) ==
  /\ stage' = [stage EXCEPT ![r] = "done"]
  /\ Record(r, outcome) /\ Respond(r, AnswerTo(r, outcome)) /\ EndStream(r)
  /\ abort(r) /\ release(r)

-----------------------------------------------------------------------------
(* The handler *)

\* The first checks of the body.
Receive(r) ==
  /\ stage[r] = "new"
  /\ \/ /\ stage' = [stage EXCEPT ![r] = "validating"]
        /\ UNCHANGED <<answer, recorded>>
     \/ /\ stage' = [stage EXCEPT ![r] = "done"]
        /\ Respond(r, "400") /\ Record(r, "invalid_request")
  /\ UNCHANGED <<gone, active, held, lines, aborted, download, procs, stealth>>

\* The body cannot be parsed or is too large: the error middleware answers, and
\* nothing is recorded.
RejectBody(r) ==
  /\ stage[r] = "new"
  /\ stage' = [stage EXCEPT ![r] = "done"]
  /\ Respond(r, "400")
  /\ UNCHANGED <<gone, active, held, lines, recorded, aborted, download, procs,
                 stealth>>

\* validateUrl or validateOutputDir throws.
RejectInput(r) ==
  /\ stage[r] = "validating"
  /\ stage' = [stage EXCEPT ![r] = "done"]
  /\ Respond(r, "400") /\ Record(r, "invalid_request")
  /\ UNCHANGED <<gone, active, held, lines, aborted, download, procs, stealth>>

\* limiter.acquire() throws: every slot is taken.
RefuseOverflow(r) ==
  /\ stage[r] = "validating" /\ active >= MaxConcurrency
  /\ stage' = [stage EXCEPT ![r] = "done"]
  /\ Respond(r, "503") /\ Record(r, "concurrency_limit")
  /\ UNCHANGED <<gone, active, held, lines, aborted, download, procs, stealth>>

\* Variant: the limit is off by one.
StartOneMore(r) ==
  /\ stage[r] = "validating" /\ active <= MaxConcurrency
  /\ acquire(r)
  /\ stage' = [stage EXCEPT ![r] = "inflight"]
  /\ phase' = [phase EXCEPT ![r] = "checking"]
  /\ UNCHANGED <<gone, answer, lines, recorded, aborted, verdict, file, procs,
                 stealth>>

\* A slot is taken, the close listener installed, the timer armed and
\* download() called.
StartDownload(r) ==
  /\ stage[r] = "validating" /\ active < MaxConcurrency
  /\ acquire(r)
  /\ stage' = [stage EXCEPT ![r] = "inflight"]
  /\ phase' = [phase EXCEPT ![r] = "checking"]
  /\ UNCHANGED <<gone, answer, lines, recorded, aborted, verdict, file, procs,
                 stealth>>

\* Variant: an abort clears the timer.
TimeoutUnlessAborted(r) ==
  /\ stage[r] = "inflight" /\ ~aborted[r]
  /\ Conclude(r, "timeout")
  /\ UNCHANGED <<gone, download, stealth>>

\* requestTimer fires before download() settles: the race rejects.
RequestTimeout(r) ==
  /\ stage[r] = "inflight"
  /\ Conclude(r, "timeout")
  /\ UNCHANGED <<gone, download, stealth>>

\* The client closes the connection.  The listener that aborts the download is
\* there only once StartDownload has run.
Disconnect(r) ==
  /\ stage[r] \in {"validating", "inflight"} /\ ~gone[r]
  /\ gone' = [gone EXCEPT ![r] = TRUE]
  /\ IF stage[r] = "inflight" THEN abort(r) ELSE UNCHANGED <<aborted, procs>>
  /\ UNCHANGED <<stage, active, held, answer, lines, recorded, download, stealth>>

\* Variant: only the connection is looked at.
CanWriteWhileConnected(r) == r \in Ndjson /\ ~gone[r]

\* canRespond and writeEvent: streamOpen falls when the handler is done.
CanWrite(r) == r \in Ndjson /\ stage[r] = "inflight" /\ ~gone[r]
EmitProgress(r) ==
  /\ phase[r] \in {"setup", "tier1", "saving", "streaming", "fallback"}
  /\ Cardinality({i \in DOMAIN lines[r] : lines[r][i] = "progress"}) < MaxLines
  /\ CanWrite(r)
  /\ lines' = [lines EXCEPT ![r] = Append(@, "progress")]
  /\ UNCHANGED <<stage, gone, active, held, answer, recorded, aborted, download,
                 procs, stealth>>

-----------------------------------------------------------------------------
(* download() *)

\* The steps of download() that leave the handler alone.
GoTo(r, next) ==
  /\ phase' = [phase EXCEPT ![r] = next]
  /\ UNCHANGED <<handler, aborted, stealth>>

\* Variant: the late result is reported too.
SettleAlways(r, result) ==
  /\ phase'   = [phase EXCEPT ![r] = "settled"]
  /\ verdict' = [verdict EXCEPT ![r] = result]
  /\ Conclude(r, safeClassify(result)) /\ UNCHANGED gone

\* download() settles.  The handler still waiting for it concludes in the same
\* turn; otherwise the timer has won the race and the result is dropped.
Settle(r, result) ==
  /\ phase'   = [phase EXCEPT ![r] = "settled"]
  /\ verdict' = [verdict EXCEPT ![r] = result]
  /\ IF stage[r] = "inflight"
     THEN Conclude(r, safeClassify(result)) /\ UNCHANGED gone
     ELSE UNCHANGED <<handler, aborted, procs>>

\* The same validations again, outside the try: what throws here rejects.
CheckInputs(r) ==
  /\ phase[r] = "checking"
  /\ \/ /\ ~aborted[r]
        /\ GoTo(r, "launching") /\ UNCHANGED <<verdict, file, procs>>
     \/ /\ aborted[r]
        /\ Settle(r, classifyError(DownloaderError("timeout")))
        /\ UNCHANGED <<file, stealth>>
     \/ /\ Settle(r, classifyError(PlainError)) /\ UNCHANGED <<file, stealth>>

\* verifyDiskSpace: too little space is left, or statfs fails.
verifyDiskSpace(r) ==
  /\ phase[r] = "checking"
  /\ Settle(r, classifyError(DownloaderError("storage_error")))
  /\ UNCHANGED <<file, stealth>>

\* launchStealthBrowser: the plugin's load is tried once for all requests, and
\* a failed load is kept.
LoadStealth(r) ==
  /\ phase[r] = "launching" /\ stealth = "unset"
  /\ stealth' \in {"ready", "failed"}
  /\ UNCHANGED <<handler, aborted, download, procs>>

\* Variant: the signal is looked at before the launch only.
LaunchUnchecked(r) ==
  /\ phase[r] = "launching" /\ stealth = "ready"
  /\ browser' = [browser EXCEPT ![r] = "open"]
  /\ GoTo(r, "setup")
  /\ UNCHANGED <<verdict, file, child>>

\* A launch that succeeds after the abort is closed at once.
LaunchBrowser(r) ==
  /\ phase[r] = "launching" /\ stealth = "ready"
  /\ browser' = [browser EXCEPT ![r] = IF aborted[r] THEN "closing" ELSE "open"]
  /\ GoTo(r, "setup")
  /\ UNCHANGED <<verdict, file, child>>

LaunchFails(r) ==
  /\ phase[r] = "launching" /\ stealth \in {"ready", "failed"}
  /\ Settle(r, classifyError(PlainError))
  /\ UNCHANGED <<file, stealth>>

\* The finally block: the abort listener goes, then context.close() is awaited.
ToFinally(r, result) ==
  /\ phase'   = [phase EXCEPT ![r] = "leaving"]
  /\ verdict' = [verdict EXCEPT ![r] = result]
  /\ UNCHANGED <<handler, aborted, procs, stealth>>

\* Variant: nothing is removed.
FailKeepingFile(r, err) == ToFinally(r, classifyError(err)) /\ UNCHANGED file

\* The catch block: outPath, when there is one, is removed first.
Catch(r, err) ==
  /\ verdict' = [verdict EXCEPT ![r] = classifyError(err)]
  /\ GoTo(r, "removing") /\ UNCHANGED procs
Fail(r, err) ==
  /\ IF phase[r] \in {"setup", "tier1", "tier2"}
     THEN ToFinally(r, classifyError(err)) ELSE Catch(r, err)
  /\ UNCHANGED file

\* rm(outPath, force), whose own failure is swallowed.
RemoveFile(r) ==
  /\ phase[r] = "removing"
  /\ file' = [file EXCEPT ![r] = IF @ = "none" THEN "none" ELSE "removed"]
     \/ file' = [file EXCEPT ![r] = IF @ = "none" THEN "none" ELSE "stuck"]
  /\ ToFinally(r, verdict[r])

\* newContext throws: there is no context to close.
NoContext(r) ==
  /\ phase[r] = "setup"
  /\ verdict' = [verdict EXCEPT ![r] = classifyError(PlainError)]
  /\ CloseBrowser(r) /\ GoTo(r, "closing")
  /\ UNCHANGED <<file, child>>

\* newContext succeeds; newPage may throw.
SetUpPage(r) ==
  /\ phase[r] = "setup"
  /\ \/ browser[r] # "closed" /\ GoTo(r, "tier1") /\ UNCHANGED <<verdict, file, procs>>
     \/ Fail(r, PlainError)

\* interceptMedia: media found just before the abort is still returned.
RunTier1(r) ==
  /\ phase[r] = "tier1"
  /\ \/ \E next \in {"tier2", "saving", "streaming"} :
          GoTo(r, next) /\ UNCHANGED <<verdict, file, procs>>
     \/ \E code \in Codes \cap {"drm_detected", "anti_bot_block", "network_error", "timeout"} :
          Fail(r, DownloaderError(code))
     \/ \E err \in {PlainError, CodeBug} : Fail(r, err)

\* detectBlob: bytes or an error, never a stream.
RunTier2(r) ==
  /\ phase[r] = "tier2"
  /\ \/ GoTo(r, "saving") /\ UNCHANGED <<verdict, file, procs>>
     \/ \E code \in Codes \ {"storage_error"} : Fail(r, DownloaderError(code))

\* writeFile: not tied to the signal; one that fails may leave a part.
SaveBytes(r) ==
  /\ phase[r] = "saving"
  /\ \/ /\ file' = [file EXCEPT ![r] = "complete"]
        /\ ToFinally(r, "success")
     \/ /\ file' \in {file, [file EXCEPT ![r] = "partial"]}
        /\ Catch(r, NoSpace)

-----------------------------------------------------------------------------
(* downloadStream and runSpawn *)

\* runSpawn: a signal aborted before the spawn is obeyed at once.
Spawn(r) ==
  child' = [child EXCEPT ![r] = IF aborted[r] THEN "terminating" ELSE "running"]

\* validateUrl and the credential file may throw, spawn may fail.
SpawnStreamlink(r) ==
  /\ phase[r] = "streaming" /\ child[r] = "none"
  /\ \/ /\ Spawn(r)
        /\ file' = [file EXCEPT ![r] = "partial"]
        /\ UNCHANGED <<handler, aborted, phase, verdict, browser, stealth>>
     \/ /\ child' = [child EXCEPT ![r] = "failed"]
        /\ UNCHANGED <<handler, aborted, download, browser, stealth>>
     \/ Fail(r, PlainError)

\* The process ends by itself, or obeys SIGTERM.  A process that was signalled
\* does not report success.
ChildExits(r) ==
  /\ \/ child[r] = "running" /\ \E code \in {"succeeded", "failed"} :
          child' = [child EXCEPT ![r] = code]
     \/ child[r] = "terminating" /\ child' = [child EXCEPT ![r] = "failed"]
  /\ UNCHANGED <<handler, aborted, download, browser, stealth>>

\* termTimer: SIGTERM to the group.
SpawnTimeout(r) ==
  /\ child[r] = "running"
  /\ child' = [child EXCEPT ![r] = "terminating"]
  /\ UNCHANGED <<handler, aborted, download, browser, stealth>>

\* Variant: the end of the request clears the timer.
KillTimerOfRequest(r) ==
  /\ child[r] = "terminating" /\ stage[r] = "inflight"
  /\ child' = [child EXCEPT ![r] = "failed"]
  /\ UNCHANGED <<handler, aborted, download, browser, stealth>>

\* killTimer: SIGKILL two seconds after the SIGTERM.
KillTimer(r) ==
  /\ child[r] = "terminating"
  /\ child' = [child EXCEPT ![r] = "failed"]
  /\ UNCHANGED <<handler, aborted, download, browser, stealth>>

StreamlinkDone(r) ==
  /\ phase[r] = "streaming"
  /\ \/ /\ child[r] = "succeeded"
        /\ file' = [file EXCEPT ![r] = "complete"]
        /\ ToFinally(r, "success")
     \/ child[r] = "failed" /\ GoTo(r, "fallback") /\ UNCHANGED <<verdict, file, procs>>
     \/ child[r] = "failed" /\ Fail(r, DownloaderError("network_error"))

\* downloadManifestFallback: segments fetched, then ffmpeg.
RunFallback(r) ==
  /\ phase[r] = "fallback"
  /\ \/ /\ Spawn(r) /\ GoTo(r, "concat")
        /\ file' = [file EXCEPT ![r] = "partial"]
        /\ UNCHANGED <<verdict, browser>>
     \/ \E code \in Codes \cap {"drm_detected", "no_media_found", "network_error"} :
          Fail(r, DownloaderError(code))
     \/ \E err \in {FetchAborted, FetchFailed("ECONNRESET"), FetchFailed("ETIMEDOUT")} :
          Fail(r, err)

ConcatDone(r) ==
  /\ phase[r] = "concat"
  /\ \/ /\ child[r] = "succeeded"
        /\ file' = [file EXCEPT ![r] = "complete"]
        /\ ToFinally(r, "success")
     \/ child[r] = "failed" /\ Fail(r, DownloaderError("network_error"))

-----------------------------------------------------------------------------
(* The end of download() *)

\* context.close() settles, and browser.close() is called.
ContextCloses(r) ==
  /\ phase[r] = "leaving"
  /\ CloseBrowser(r) /\ GoTo(r, "closing")
  /\ UNCHANGED <<verdict, file, child>>

\* Chromium exits after browser.close().
BrowserExits(r) ==
  /\ browser[r] = "closing"
  /\ browser' = [browser EXCEPT ![r] = "closed"]
  /\ UNCHANGED <<handler, aborted, download, child, stealth>>

\* browser.close() is over.
CloseDone(r) ==
  /\ phase[r] = "closing" /\ browser[r] = "closed"
  /\ Settle(r, verdict[r])
  /\ UNCHANGED <<file, stealth>>

Next == \E r \in Requests :
  \/ Receive(r) \/ RejectBody(r) \/ RejectInput(r) \/ RefuseOverflow(r) \/ StartDownload(r)
  \/ RequestTimeout(r) \/ Disconnect(r) \/ EmitProgress(r)
  \/ CheckInputs(r) \/ verifyDiskSpace(r) \/ LoadStealth(r) \/ LaunchBrowser(r) \/ LaunchFails(r)
  \/ NoContext(r) \/ SetUpPage(r) \/ RunTier1(r) \/ RunTier2(r) \/ SaveBytes(r) \/ RemoveFile(r)
  \/ SpawnStreamlink(r) \/ ChildExits(r) \/ SpawnTimeout(r) \/ KillTimer(r)
  \/ StreamlinkDone(r) \/ RunFallback(r) \/ ConcatDone(r)
  \/ ContextCloses(r) \/ BrowserExits(r) \/ CloseDone(r)

\* Timers fire, validation and launch return, Chromium exits after close(), which
\* kills it when it does not answer.  Nothing is assumed of clients, pages, media
\* servers, of a process told to stop, or of context.close(), which waits for
\* the browser without a limit.
Fairness == \A r \in Requests :
  /\ WF_vars(RejectInput(r) \/ RefuseOverflow(r) \/ StartDownload(r))
  /\ WF_vars(RequestTimeout(r)) /\ WF_vars(CheckInputs(r)) /\ WF_vars(LoadStealth(r))
  /\ WF_vars(LaunchBrowser(r) \/ LaunchFails(r))
  /\ WF_vars(SpawnTimeout(r)) /\ WF_vars(KillTimer(r)) /\ WF_vars(BrowserExits(r))

Spec == Init /\ [][Next]_vars
FairSpec == Spec /\ Fairness

-----------------------------------------------------------------------------
(* Properties *)

\* Every variable keeps its type: server.js, downloader.js.
TypeOK ==
  /\ stage \in [Requests -> Stages] /\ phase \in [Requests -> Phases]
  /\ gone \in [Requests -> BOOLEAN] /\ held \in [Requests -> BOOLEAN]
  /\ aborted \in [Requests -> BOOLEAN] /\ active \in Nat
  /\ answer \in [Requests -> {"none", "200", "400", "502", "503", "stream"}]
  /\ lines \in [Requests -> Seq({"progress", "result"})]
  /\ recorded \in [Requests -> Seq(Outcomes)]
  /\ verdict \in [Requests -> ErrorCodes \cup {"none", "success", "bug"}]
  /\ browser \in [Requests -> {"none", "open", "closing", "closed"}]
  /\ child \in [Requests -> {"none", "running", "terminating", "succeeded", "failed"}]
  /\ file \in [Requests -> {"none", "partial", "complete", "removed", "stuck"}]
  /\ stealth \in {"unset", "ready", "failed"}

Holders == {r \in Requests : held[r]}

\* The semaphore's counter is the number of downloads that have not released
\* their slot, and never above the limit, over every order of timeouts, client
\* disconnections and late results: concurrency.js acquire and release.
SlotAccounting ==
  /\ active = Cardinality(Holders)
  /\ active <= MaxConcurrency
  /\ \A r \in Requests : held[r] <=> stage[r] = "inflight"

\* What the client of a request with this outcome is answered.
Told(r, outcome) ==
  IF outcome = "invalid_request" THEN "400"
  ELSE IF outcome = "concurrency_limit" THEN "503" ELSE AnswerTo(r, outcome)

\* A request is counted once in the metrics, with the outcome its client is
\* told, whichever of the race's two sides wins: server.js 178-215.
OneOutcome == \A r \in Requests :
  /\ Len(recorded[r]) <= 1
  /\ answer[r] # "none" /\ recorded[r] # <<>> => answer[r] = Told(r, recorded[r][1])

\* Once its slot is free, everything a download started has been told to stop,
\* a browser whose launch was pending included: the comment at downloader.js
\* 77-79 ("On abort the browser is torn down immediately").
StoppedWithTheSlot == \A r \in Requests :
  stage[r] = "done" => browser[r] # "open" /\ child[r] # "running"

\* What holds of it: the one thing a request may leave running untold when its
\* slot is free is the browser of a download that was already in its finally
\* block, where only context.close() settling leads on: server.js 132-138,
\* downloader.js 115-125, 186-192.
StoppedOrLeaving == \A r \in Requests :
  stage[r] = "done" =>
    child[r] # "running" /\ (browser[r] = "open" => phase[r] = "leaving")

\* A progress stream ends with one result line; progress that the download
\* reports after the timeout is not written after it: server.js 152-157.
StreamWellFormed == \A r \in Requests : \A i \in DOMAIN lines[r] :
  lines[r][i] = "result" => i = Len(lines[r])

\* A download that fails leaves no file behind, unless the removal itself
\* fails: downloader.js 171-174.
FailureLeavesNoFile == \A r \in Requests :
  phase[r] = "settled" /\ verdict[r] # "success" =>
    file[r] \in {"none", "removed", "stuck"}

\* Every request that arrives is concluded, even when page, stream and
\* fallback hang: server.js 159-186.
EveryRequestConcludes == \A r \in Requests :
  stage[r] # "new" ~> stage[r] = "done"

\* No browser and no child process outlives its request for ever, except a
\* browser whose context.close() never settles: every other one is closed, and
\* a process that ignores SIGTERM is killed: downloader.js 115-125, 186-192,
\* streamlink-backend.js 510-532.
NothingOutlivesTheRequest == \A r \in Requests :
  /\ browser[r] = "open" ~>
       browser[r] = "closed" \/ (browser[r] = "open" /\ phase[r] = "leaving")
  /\ child[r] = "running" ~> child[r] \in {"succeeded", "failed"}

\* A download is cancelled as soon as its client has left: the comment at
\* server.js 140-142.
ClientGoneCancels == \A r \in Requests :
  gone[r] /\ stage[r] = "inflight" => aborted[r]
=============================================================================
