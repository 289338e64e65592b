------------------------ MODULE BrowserServiceProofs ------------------------
(***************************************************************************)
(* Theorems about BrowserService, for any finite set of requests, any      *)
(* concurrency limit and any bound on lines and codes.                     *)
(***************************************************************************)
EXTENDS BrowserService, FiniteSetTheorems, WellFoundedInduction, TLAPS

(* What the safety invariants need to be inductive.                        *)

\* Nothing is recorded, answered or concluded before the handler is done, and
\* the download runs from the moment the slot is taken.
Unconcluded == \A r \in Requests :
  /\ stage[r] # "done" => /\ recorded[r] = <<>> /\ answer[r] = "none"
                          /\ lines[r] \in Seq({"progress"})
  /\ stage[r] \in {"new", "validating"} => phase[r] = "idle"
  /\ stage[r] = "inflight" => phase[r] # "idle"

\* A request whose download was started is aborted when it is done, and an
\* aborted one runs nothing but the browser of a download that is leaving.
Stopped == \A r \in Requests :
  /\ stage[r] = "done" /\ phase[r] # "idle" => aborted[r]
  /\ aborted[r] => child[r] # "running" /\ (browser[r] = "open" => phase[r] = "leaving")
  /\ phase[r] = "idle" => browser[r] = "none" /\ child[r] = "none"

\* There is no file before the tiers are over, and none that is kept on the
\* way out of a failure; a download on its way out has a verdict.
OnTheWayOut == \A r \in Requests :
  /\ phase[r] \in {"idle", "checking", "launching", "setup", "tier1", "tier2"} =>
       file[r] = "none"
  /\ phase[r] \in {"removing", "leaving", "closing", "settled"} => verdict[r] # "none"
  /\ phase[r] \in {"leaving", "closing", "settled"} /\ verdict[r] # "success" =>
       file[r] \in {"none", "removed", "stuck"}

IInv == /\ TypeOK /\ SlotAccounting /\ OneOutcome /\ StreamWellFormed
        /\ Unconcluded /\ Stopped /\ OnTheWayOut

-----------------------------------------------------------------------------
(* What a thrown error is called                                           *)

\* What classifyError is given: a DownloaderError carries a public code.
IsChain(err) ==
  /\ Len(err) \in Nat \ {0}
  /\ \A i \in 1..Len(err) : err[i].ctor = "DownloaderError" => err[i].code \in ErrorCodes

\* Whatever its chain of causes, an error is given a public code or thrown on as
\* a bug: errors.js 115-153.
THEOREM ErrorsArePublic ==
  ASSUME NEW err, IsChain(err)
  PROVE  classifyError(err) \in ErrorCodes \cup {"bug"}
  <1> DEFINE D == {i \in 1..Len(err) : Decides(err, i)}
             R == OpToRel(<, Nat)
             First(i) == Decides(err, i) /\ \A j \in 1..(i - 1) : ~Decides(err, j)
             first == CHOOSE i \in 1..Len(err) : First(i)
  <1>1. Len(err) \in 1..Len(err) /\ Len(err) \in Nat
    BY DEF IsChain
  <1>2. D \subseteq Nat /\ D # {}
    BY <1>1 DEF Decides
  <1>3. IsWellFoundedOn(R, Nat)
    BY NatLessThanWellFounded
  <1>4. \A j, k \in Nat : j < k => <<j, k>> \in R
    BY DEF OpToRel
  <1> HIDE DEF R
  <1>5. PICK m \in D : \A k \in D : ~(<<k, m>> \in R)
    BY <1>2, <1>3, WFMin
  <1>6. First(m)
    <2>1. SUFFICES ASSUME NEW j \in 1..(m - 1), Decides(err, j)
                   PROVE  FALSE
      OBVIOUS
    <2>2. j \in D /\ j < m /\ m \in Nat
      BY <1>1, <2>1
    <2>3. QED
      BY <1>2, <1>4, <1>5, <2>2
  <1>7. first \in 1..Len(err)
    BY <1>6
  <1>8. err[first].ctor = "DownloaderError" => err[first].code \in ErrorCodes
    BY <1>7 DEF IsChain
  <1>9. QED
    BY <1>8 DEF classifyError, ErrorCodes

-----------------------------------------------------------------------------
(* The download: types, and what is left behind on the way out            *)

Verdicts == ErrorCodes \cup {"none", "success", "bug"}

HandlerTypes ==
  /\ stage \in [Requests -> Stages]
  /\ gone \in [Requests -> BOOLEAN] /\ held \in [Requests -> BOOLEAN]
  /\ aborted \in [Requests -> BOOLEAN] /\ active \in Nat
  /\ answer \in [Requests -> {"none", "200", "400", "502", "503", "stream"}]
  /\ lines \in [Requests -> Seq({"progress", "result"})]
  /\ recorded \in [Requests -> Seq(Outcomes)]

DownloadTypes ==
  /\ phase \in [Requests -> Phases]
  /\ verdict \in [Requests -> Verdicts]
  /\ browser \in [Requests -> {"none", "open", "closing", "closed"}]
  /\ child \in [Requests -> {"none", "running", "terminating", "succeeded", "failed"}]
  /\ file \in [Requests -> {"none", "partial", "complete", "removed", "stuck"}]
  /\ stealth \in {"unset", "ready", "failed"}

LEMMA TypesSplit == TypeOK <=> HandlerTypes /\ DownloadTypes
  BY DEF TypeOK, HandlerTypes, DownloadTypes, Verdicts

\* The errors that download() meets.
Thrown == {PlainError, NoSpace, CodeBug, FetchAborted,
           FetchFailed("ECONNRESET"), FetchFailed("ETIMEDOUT")}
            \cup {DownloaderError(code) : code \in ErrorCodes}

LEMMA ThrownIsNamed ==
  ASSUME NEW err \in Thrown
  PROVE  classifyError(err) \in ErrorCodes \cup {"bug"}
  <1>1. ASSUME NEW code \in ErrorCodes
        PROVE  IsChain(DownloaderError(code))
    BY <1>1 DEF IsChain, DownloaderError, Link
  <1>2. /\ IsChain(PlainError) /\ IsChain(NoSpace)
        /\ IsChain(FetchAborted) /\ IsChain(CodeBug)
    BY DEF IsChain, PlainError, NoSpace, FetchAborted, CodeBug, Link
  <1>3. IsChain(FetchFailed("ECONNRESET")) /\ IsChain(FetchFailed("ETIMEDOUT"))
    BY DEF IsChain, FetchFailed, Link
  <1>4. IsChain(err)
    BY <1>1, <1>2, <1>3 DEF Thrown
  <1>5. QED
    BY <1>4, ErrorsArePublic

\* The finally block, entered with a result, when no file is left or it is the
\* file of a success.
LEMMA ToFinallyStep ==
  ASSUME DownloadTypes, OnTheWayOut, NEW r \in Requests,
         NEW result \in Verdicts, result # "none", ToFinally(r, result),
         file' \in [Requests -> {"none", "partial", "complete", "removed", "stuck"}],
         \A q \in Requests \ {r} : file'[q] = file[q],
         result = "success" \/ file'[r] \in {"none", "removed", "stuck"}
  PROVE  DownloadTypes' /\ OnTheWayOut'
  <1>1. DownloadTypes'
    BY DEF DownloadTypes, ToFinally, procs, Phases
  <1>2. OnTheWayOut'
    BY DEF DownloadTypes, OnTheWayOut, ToFinally
  <1>3. QED
    BY <1>1, <1>2

\* The catch block, entered with an error.
LEMMA CatchStep ==
  ASSUME DownloadTypes, OnTheWayOut, NEW r \in Requests, NEW err \in Thrown,
         Catch(r, err), phase[r] \notin {"idle", "checking", "launching"},
         file' \in [Requests -> {"none", "partial", "complete", "removed", "stuck"}],
         \A q \in Requests \ {r} : file'[q] = file[q]
  PROVE  DownloadTypes' /\ OnTheWayOut'
  <1>1. classifyError(err) \in Verdicts /\ classifyError(err) \notin {"none", "success"}
    BY ThrownIsNamed DEF Verdicts, ErrorCodes
  <1> DEFINE code == classifyError(err)
  <1> HIDE DEF code
  <1>2. /\ phase' = [phase EXCEPT ![r] = "removing"]
        /\ verdict' = [verdict EXCEPT ![r] = code]
        /\ UNCHANGED <<browser, child, stealth>>
    BY DEF Catch, GoTo, code, procs
  <1>3. DownloadTypes'
    BY <1>1, <1>2 DEF DownloadTypes, Phases, code
  <1>4. OnTheWayOut'
    BY <1>1, <1>2 DEF DownloadTypes, OnTheWayOut, code
  <1>5. QED
    BY <1>3, <1>4

LEMMA FailStep ==
  ASSUME DownloadTypes, OnTheWayOut, NEW r \in Requests, NEW err \in Thrown,
         Fail(r, err), phase[r] \notin {"idle", "checking", "launching"}
  PROVE  DownloadTypes' /\ OnTheWayOut'
  <1>1. classifyError(err) \in Verdicts /\ classifyError(err) \notin {"none", "success"}
    BY ThrownIsNamed DEF Verdicts, ErrorCodes
  <1> DEFINE code == classifyError(err)
  <1> HIDE DEF code
  <1>2. CASE phase[r] \in {"setup", "tier1", "tier2"}
    <2>1. ToFinally(r, code) /\ UNCHANGED file
      BY <1>2 DEF Fail, code
    <2>2. QED
      BY <1>1, <1>2, <2>1, ToFinallyStep DEF DownloadTypes, OnTheWayOut, code
  <1>3. CASE phase[r] \notin {"setup", "tier1", "tier2"}
    <2>1. Catch(r, err) /\ UNCHANGED file
      BY <1>3 DEF Fail
    <2>2. QED
      BY <2>1, CatchStep DEF DownloadTypes
  <1>4. QED
    BY <1>2, <1>3

LEMMA SettleStep ==
  ASSUME DownloadTypes, OnTheWayOut, NEW r \in Requests,
         NEW result \in Verdicts, result # "none", Settle(r, result),
         UNCHANGED <<file, stealth>>,
         result = "success" \/ file[r] \in {"none", "removed", "stuck"}
  PROVE  DownloadTypes' /\ OnTheWayOut'
  <1>1. /\ phase' = [phase EXCEPT ![r] = "settled"]
        /\ verdict' = [verdict EXCEPT ![r] = result]
    BY DEF Settle
  <1>2. /\ browser' \in [Requests -> {"none", "open", "closing", "closed"}]
        /\ child' \in [Requests -> {"none", "running", "terminating", "succeeded", "failed"}]
    BY DEF Settle, Conclude, abort, CloseOnAbort, CloseBrowser, KillOnAbort, procs, DownloadTypes
  <1>3. DownloadTypes'
    BY <1>1, <1>2 DEF DownloadTypes, Phases
  <1>4. OnTheWayOut'
    BY <1>1 DEF DownloadTypes, OnTheWayOut
  <1>5. QED
    BY <1>3, <1>4

(* One step of download(); StepOf is Next for one request                 *)

StepOf(r) ==
  \/ Receive(r) \/ RejectBody(r) \/ RejectInput(r) \/ RefuseOverflow(r) \/ StartDownload(r)
  \/ RequestTimeout(r) \/ Disconnect(r) \/ EmitProgress(r)
  \/ CheckInputs(r) \/ verifyDiskSpace(r) \/ LoadStealth(r) \/ LaunchBrowser(r) \/ LaunchFails(r)
  \/ NoContext(r) \/ SetUpPage(r) \/ RunTier1(r) \/ RunTier2(r) \/ SaveBytes(r) \/ RemoveFile(r)
  \/ SpawnStreamlink(r) \/ ChildExits(r) \/ SpawnTimeout(r) \/ KillTimer(r)
  \/ StreamlinkDone(r) \/ RunFallback(r) \/ ConcatDone(r)
  \/ ContextCloses(r) \/ BrowserExits(r) \/ CloseDone(r)

LEMMA NextIsAStep == Next <=> \E r \in Requests : StepOf(r)
  BY DEF Next, StepOf

LEMMA ThrownErrors ==
  /\ {PlainError, NoSpace, CodeBug, FetchAborted,
      FetchFailed("ECONNRESET"), FetchFailed("ETIMEDOUT")} \subseteq Thrown
  /\ \A code \in ErrorCodes : DownloaderError(code) \in Thrown
  /\ {"timeout", "storage_error", "network_error", "drm_detected", "anti_bot_block",
      "no_media_found"} \subseteq ErrorCodes
  /\ Codes \subseteq ErrorCodes
  BY ServiceAssumption DEF Thrown, ErrorCodes

LEMMA SettleThrown ==
  ASSUME DownloadTypes, OnTheWayOut, NEW r \in Requests, NEW err \in Thrown,
         phase[r] \in {"checking", "launching"},
         Settle(r, classifyError(err)), UNCHANGED <<file, stealth>>
  PROVE  DownloadTypes' /\ OnTheWayOut'
  <1>1. classifyError(err) \in Verdicts /\ classifyError(err) # "none"
    BY ThrownIsNamed DEF Verdicts, ErrorCodes
  <1>2. file[r] = "none"
    BY DEF OnTheWayOut
  <1>3. QED
    BY <1>1, <1>2, SettleStep

\* Every step keeps the types of download() and what is left on its way out.
LEMMA DownloadStep ==
  ASSUME DownloadTypes, OnTheWayOut, Unconcluded, HandlerTypes, NEW r \in Requests, StepOf(r)
  PROVE  DownloadTypes' /\ OnTheWayOut'
  <1>1. CASE Receive(r)
    BY <1>1 DEF Receive, DownloadTypes, OnTheWayOut, download, procs
  <1>2. CASE RejectBody(r)
    BY <1>2 DEF RejectBody, DownloadTypes, OnTheWayOut, download, procs
  <1>3. CASE RejectInput(r)
    BY <1>3 DEF RejectInput, DownloadTypes, OnTheWayOut, download, procs
  <1>4. CASE RefuseOverflow(r)
    BY <1>4 DEF RefuseOverflow, DownloadTypes, OnTheWayOut, download, procs
  <1>5. CASE StartDownload(r)
    BY <1>5 DEF StartDownload, DownloadTypes, OnTheWayOut, Unconcluded, HandlerTypes, Stages, Phases, procs
  <1>6. CASE RequestTimeout(r)
    <2>1. UNCHANGED <<phase, verdict, file, stealth>>
      BY <1>6 DEF RequestTimeout, download
    <2>2. /\ browser' \in [Requests -> {"none", "open", "closing", "closed"}]
          /\ child' \in [Requests -> {"none", "running", "terminating", "succeeded", "failed"}]
      BY <1>6 DEF RequestTimeout, Conclude, abort, CloseOnAbort, CloseBrowser, KillOnAbort, procs, DownloadTypes
    <2>3. QED
      BY <2>1, <2>2 DEF DownloadTypes, OnTheWayOut
  <1>7. CASE Disconnect(r)
    <2>1. UNCHANGED <<phase, verdict, file, stealth>>
      BY <1>7 DEF Disconnect, download
    <2>2. /\ browser' \in [Requests -> {"none", "open", "closing", "closed"}]
          /\ child' \in [Requests -> {"none", "running", "terminating", "succeeded", "failed"}]
      BY <1>7 DEF Disconnect, abort, CloseOnAbort, CloseBrowser, KillOnAbort, procs, DownloadTypes
    <2>3. QED
      BY <2>1, <2>2 DEF DownloadTypes, OnTheWayOut
  <1>8. CASE EmitProgress(r)
    BY <1>8 DEF EmitProgress, DownloadTypes, OnTheWayOut, download, procs
  <1>9. CASE CheckInputs(r)
    <2>1. CASE GoTo(r, "launching") /\ UNCHANGED <<verdict, file, procs>>
      BY <1>9, <2>1 DEF CheckInputs, GoTo, DownloadTypes, OnTheWayOut, Phases, procs
    <2>2. CASE \E err \in Thrown : Settle(r, classifyError(err)) /\ UNCHANGED <<file, stealth>>
      BY <1>9, <2>2, SettleThrown DEF CheckInputs
    <2>3. QED
      BY <1>9, <2>1, <2>2, ThrownErrors DEF CheckInputs
  <1>10. CASE verifyDiskSpace(r)
    BY <1>10, SettleThrown, ThrownErrors DEF verifyDiskSpace
  <1>11. CASE LoadStealth(r)
    BY <1>11 DEF LoadStealth, GoTo, DownloadTypes, OnTheWayOut, Phases, download, procs
  <1>12. CASE LaunchBrowser(r)
    BY <1>12 DEF LaunchBrowser, GoTo, DownloadTypes, OnTheWayOut, Phases, download, procs
  <1>13. CASE LaunchFails(r)
    BY <1>13, SettleThrown, ThrownErrors DEF LaunchFails
  <1>14. CASE SetUpPage(r)
    <2>1. CASE \E next \in {"tier1", "tier2", "saving", "streaming"} :
                   GoTo(r, next) /\ UNCHANGED <<verdict, file, procs>>
      BY <1>14, <2>1 DEF SetUpPage, GoTo, DownloadTypes, OnTheWayOut, Phases, procs
    <2>2. CASE \E err \in Thrown : Fail(r, err)
      BY <1>14, <2>2, FailStep DEF SetUpPage
    <2>3. QED
      BY <1>14, <2>1, <2>2, ThrownErrors DEF SetUpPage
  <1>15. CASE RunTier1(r)
    <2>1. CASE \E next \in {"tier1", "tier2", "saving", "streaming"} :
                   GoTo(r, next) /\ UNCHANGED <<verdict, file, procs>>
      BY <1>15, <2>1 DEF RunTier1, GoTo, DownloadTypes, OnTheWayOut, Phases, procs
    <2>2. CASE \E err \in Thrown : Fail(r, err)
      BY <1>15, <2>2, FailStep DEF RunTier1
    <2>3. QED
      BY <1>15, <2>1, <2>2, ThrownErrors DEF RunTier1
  <1>16. CASE RunTier2(r)
    <2>1. CASE \E next \in {"tier1", "tier2", "saving", "streaming"} :
                   GoTo(r, next) /\ UNCHANGED <<verdict, file, procs>>
      BY <1>16, <2>1 DEF RunTier2, GoTo, DownloadTypes, OnTheWayOut, Phases, procs
    <2>2. CASE \E err \in Thrown : Fail(r, err)
      BY <1>16, <2>2, FailStep DEF RunTier2
    <2>3. QED
      BY <1>16, <2>1, <2>2, ThrownErrors DEF RunTier2
  <1>17. CASE SaveBytes(r)
    <2>1. CASE file' = [file EXCEPT ![r] = "complete"] /\ ToFinally(r, "success")
      BY <2>1, ToFinallyStep DEF DownloadTypes, Verdicts
    <2>2. CASE file' \in {file, [file EXCEPT ![r] = "partial"]} /\ Catch(r, NoSpace)
      BY <1>17, <2>2, CatchStep, ThrownErrors DEF SaveBytes, DownloadTypes
    <2>3. QED
      BY <1>17, <2>1, <2>2 DEF SaveBytes
  <1>18. CASE RemoveFile(r)
    <2>1. PICK left \in {"removed", "stuck"} :
            /\ file' = [file EXCEPT ![r] = IF @ = "none" THEN "none" ELSE left]
            /\ ToFinally(r, verdict[r])
      BY <1>18 DEF RemoveFile
    <2>2. verdict[r] \in Verdicts /\ verdict[r] # "none"
      BY <1>18 DEF RemoveFile, DownloadTypes, OnTheWayOut
    <2>3. QED
      BY <2>1, <2>2, ToFinallyStep DEF DownloadTypes
  <1>19. CASE SpawnStreamlink(r)
    <2>1. CASE /\ Spawn(r) /\ file' = [file EXCEPT ![r] = "partial"]
                /\ UNCHANGED <<phase, verdict, browser, stealth>>
      BY <1>19, <2>1 DEF SpawnStreamlink, Spawn, DownloadTypes, OnTheWayOut
    <2>2. CASE /\ child' = [child EXCEPT ![r] = "failed"]
                /\ UNCHANGED <<download, browser, stealth>>
      BY <1>19, <2>2 DEF DownloadTypes, OnTheWayOut, download
    <2>3. CASE \E err \in Thrown : Fail(r, err)
      BY <1>19, <2>3, FailStep DEF SpawnStreamlink
    <2>4. QED
      BY <1>19, <2>1, <2>2, <2>3, ThrownErrors DEF SpawnStreamlink
  <1>20. CASE ChildExits(r)
    BY <1>20 DEF ChildExits, GoTo, DownloadTypes, OnTheWayOut, Phases, download, procs
  <1>21. CASE SpawnTimeout(r)
    BY <1>21 DEF SpawnTimeout, GoTo, DownloadTypes, OnTheWayOut, Phases, download, procs
  <1>22. CASE KillTimer(r)
    BY <1>22 DEF KillTimer, GoTo, DownloadTypes, OnTheWayOut, Phases, download, procs
  <1>23. CASE StreamlinkDone(r)
    <2>1. CASE GoTo(r, "fallback") /\ UNCHANGED <<verdict, file, procs>>
      BY <1>23, <2>1 DEF StreamlinkDone, GoTo, DownloadTypes, OnTheWayOut, Phases, procs
    <2>2. CASE file' = [file EXCEPT ![r] = "complete"] /\ ToFinally(r, "success")
      BY <2>2, ToFinallyStep DEF DownloadTypes, Verdicts
    <2>3. CASE \E err \in Thrown : Fail(r, err)
      BY <1>23, <2>3, FailStep DEF StreamlinkDone
    <2>4. QED
      BY <1>23, <2>1, <2>2, <2>3, ThrownErrors DEF StreamlinkDone
  <1>24. CASE RunFallback(r)
    <2>1. CASE /\ Spawn(r) /\ GoTo(r, "concat")
                /\ file' = [file EXCEPT ![r] = "partial"] /\ UNCHANGED <<verdict, browser>>
      BY <1>24, <2>1 DEF RunFallback, Spawn, GoTo, DownloadTypes, OnTheWayOut, Phases
    <2>2. CASE \E err \in Thrown : Fail(r, err)
      BY <1>24, <2>2, FailStep DEF RunFallback
    <2>3. QED
      BY <1>24, <2>1, <2>2, ThrownErrors DEF RunFallback
  <1>25. CASE ConcatDone(r)
    <2>1. CASE file' = [file EXCEPT ![r] = "complete"] /\ ToFinally(r, "success")
      BY <2>1, ToFinallyStep DEF DownloadTypes, Verdicts
    <2>2. CASE \E err \in Thrown : Fail(r, err)
      BY <1>25, <2>2, FailStep DEF ConcatDone
    <2>3. QED
      BY <1>25, <2>1, <2>2, ThrownErrors DEF ConcatDone
  <1>26. CASE BrowserExits(r)
    BY <1>26 DEF BrowserExits, GoTo, DownloadTypes, OnTheWayOut, Phases, download, procs
  <1>27. CASE CloseDone(r)
    <2>1. verdict[r] \in Verdicts /\ verdict[r] # "none"
      BY <1>27 DEF CloseDone, DownloadTypes, OnTheWayOut
    <2>2. verdict[r] = "success" \/ file[r] \in {"none", "removed", "stuck"}
      BY <1>27 DEF CloseDone, DownloadTypes, OnTheWayOut
    <2>3. QED
      BY <1>27, <2>1, <2>2, SettleStep DEF CloseDone
  <1>28. CASE NoContext(r)
    <2>1. classifyError(PlainError) \in Verdicts /\ classifyError(PlainError) # "none"
      BY ThrownIsNamed, ThrownErrors DEF Verdicts, ErrorCodes
    <2> DEFINE code == classifyError(PlainError)
    <2> HIDE DEF code
    <2>2. /\ phase[r] = "setup" /\ phase' = [phase EXCEPT ![r] = "closing"]
          /\ verdict' = [verdict EXCEPT ![r] = code]
          /\ UNCHANGED <<file, child, stealth>> /\ CloseBrowser(r)
      BY <1>28 DEF NoContext, GoTo, code
    <2>3. DownloadTypes'
      BY <2>1, <2>2 DEF CloseBrowser, DownloadTypes, Phases, code
    <2>4. OnTheWayOut'
      BY <2>1, <2>2 DEF DownloadTypes, OnTheWayOut, code
    <2>5. QED
      BY <2>3, <2>4
  <1>29. CASE ContextCloses(r)
    BY <1>29 DEF ContextCloses, CloseBrowser, GoTo, DownloadTypes, OnTheWayOut, Phases
  <1>30. QED
    BY <1>28, <1>29, <1>1, <1>2, <1>3, <1>4, <1>5, <1>6, <1>7, <1>8, <1>9, <1>10, <1>11, <1>12, <1>13, <1>14, <1>15, <1>16, <1>17, <1>18, <1>19, <1>20, <1>21, <1>22, <1>23, <1>24, <1>25, <1>26, <1>27 DEF StepOf

-----------------------------------------------------------------------------
(* The handler: what one step does to the slot, the answer and the stream   *)

Reported == ErrorCodes \cup {"success"}

\* download() or the timer concludes the request, or the handler is left alone.
Concludes(r) == \E outcome \in Reported :
  stage[r] = "inflight" /\ Conclude(r, outcome) /\ UNCHANGED gone

HandlerStep(r) ==
  \/ Receive(r) \/ RejectBody(r) \/ RejectInput(r) \/ RefuseOverflow(r) \/ StartDownload(r)
  \/ Disconnect(r) \/ EmitProgress(r)
  \/ Concludes(r) \/ UNCHANGED <<handler, aborted>>

LEMMA SettleConcludes ==
  ASSUME NEW r \in Requests, NEW result \in Verdicts, result # "none", Settle(r, result)
  PROVE  HandlerStep(r)
  <1>1. safeClassify(result) \in Reported
    BY DEF safeClassify, Reported, Verdicts, ErrorCodes
  <1>2. QED
    BY <1>1 DEF Settle, HandlerStep, Concludes

LEMMA HandlerEffect ==
  ASSUME DownloadTypes, OnTheWayOut, NEW r \in Requests, StepOf(r)
  PROVE  HandlerStep(r)
  <1>0. ASSUME NEW err \in Thrown
        PROVE  classifyError(err) \in Verdicts /\ classifyError(err) # "none"
    BY ThrownIsNamed DEF Verdicts, ErrorCodes
  <1>1. CASE \/ Receive(r) \/ RejectBody(r) \/ RejectInput(r) \/ RefuseOverflow(r)
             \/ StartDownload(r) \/ Disconnect(r) \/ EmitProgress(r)
    BY <1>1 DEF HandlerStep
  <1>2. CASE RequestTimeout(r)
    BY <1>2 DEF RequestTimeout, HandlerStep, Concludes, Reported, ErrorCodes
  <1>3. CASE CheckInputs(r)
    BY <1>3, <1>0, ThrownErrors, SettleConcludes DEF CheckInputs, GoTo, HandlerStep
  <1>4. CASE verifyDiskSpace(r)
    BY <1>4, <1>0, ThrownErrors, SettleConcludes DEF verifyDiskSpace, GoTo, HandlerStep
  <1>5. CASE LaunchFails(r)
    BY <1>5, <1>0, ThrownErrors, SettleConcludes DEF LaunchFails, GoTo, HandlerStep
  <1>6. CASE CloseDone(r)
    BY <1>6, SettleConcludes DEF CloseDone, DownloadTypes, OnTheWayOut
  <1>7. CASE LoadStealth(r)
    BY <1>7 DEF LoadStealth, HandlerStep, handler
  <1>8. CASE LaunchBrowser(r)
    BY <1>8 DEF LaunchBrowser, GoTo, HandlerStep, handler
  <1>9. CASE SetUpPage(r)
    BY <1>9 DEF SetUpPage, GoTo, Fail, Catch, ToFinally, HandlerStep, handler
  <1>10. CASE RunTier1(r)
    BY <1>10 DEF RunTier1, GoTo, Fail, Catch, ToFinally, HandlerStep, handler
  <1>11. CASE RunTier2(r)
    BY <1>11 DEF RunTier2, GoTo, Fail, Catch, ToFinally, HandlerStep, handler
  <1>12. CASE SaveBytes(r)
    BY <1>12 DEF SaveBytes, Fail, Catch, GoTo, ToFinally, HandlerStep, handler
  <1>13. CASE RemoveFile(r)
    BY <1>13 DEF RemoveFile, ToFinally, HandlerStep, handler
  <1>14. CASE SpawnStreamlink(r)
    BY <1>14 DEF SpawnStreamlink, Fail, Catch, GoTo, ToFinally, HandlerStep, handler
  <1>15. CASE ChildExits(r)
    BY <1>15 DEF ChildExits, HandlerStep, handler
  <1>16. CASE SpawnTimeout(r)
    BY <1>16 DEF SpawnTimeout, HandlerStep, handler
  <1>17. CASE KillTimer(r)
    BY <1>17 DEF KillTimer, HandlerStep, handler
  <1>18. CASE StreamlinkDone(r)
    BY <1>18 DEF StreamlinkDone, GoTo, Fail, Catch, ToFinally, HandlerStep, handler
  <1>19. CASE RunFallback(r)
    BY <1>19 DEF RunFallback, GoTo, Fail, Catch, ToFinally, HandlerStep, handler
  <1>20. CASE ConcatDone(r)
    BY <1>20 DEF ConcatDone, Fail, Catch, GoTo, ToFinally, HandlerStep, handler
  <1>21. CASE BrowserExits(r)
    BY <1>21 DEF BrowserExits, HandlerStep, handler
  <1>22. CASE NoContext(r)
    BY <1>22 DEF NoContext, GoTo, HandlerStep, handler
  <1>23. CASE ContextCloses(r)
    BY <1>23 DEF ContextCloses, GoTo, HandlerStep, handler
  <1>24. QED
    BY <1>1, <1>2, <1>3, <1>4, <1>5, <1>6, <1>7, <1>8, <1>9, <1>10, <1>11, <1>12, <1>13, <1>14, <1>15, <1>16, <1>17, <1>18, <1>19, <1>20, <1>21, <1>22, <1>23 DEF StepOf

LEMMA HandlerTypesStep ==
  ASSUME HandlerTypes, Unconcluded, NEW r \in Requests, HandlerStep(r)
  PROVE  HandlerTypes'
  <1>1. ASSUME NEW outcome \in Outcomes, Record(r, outcome)
        PROVE  recorded' \in [Requests -> Seq(Outcomes)]
    BY <1>1 DEF Record, HandlerTypes
  <1>2. {"invalid_request", "concurrency_limit"} \subseteq Outcomes /\ Reported \subseteq Outcomes
    BY DEF Outcomes, Reported
  <1>3. ASSUME NEW code \in {"200", "400", "502", "503", "stream"}, Respond(r, code)
        PROVE  answer' \in [Requests -> {"none", "200", "400", "502", "503", "stream"}]
    BY <1>3 DEF Respond, HandlerTypes
  <1>4. CASE Receive(r)
    BY <1>4, <1>1, <1>2, <1>3 DEF Receive, HandlerTypes, Stages
  <1>5. CASE RejectBody(r)
    BY <1>5, <1>1, <1>2, <1>3 DEF RejectBody, HandlerTypes, Stages
  <1>6. CASE RejectInput(r)
    BY <1>6, <1>1, <1>2, <1>3 DEF RejectInput, HandlerTypes, Stages
  <1>7. CASE RefuseOverflow(r)
    BY <1>7, <1>1, <1>2, <1>3 DEF RefuseOverflow, HandlerTypes, Stages
  <1>8. CASE StartDownload(r)
    BY <1>8, <1>1, <1>2, <1>3 DEF StartDownload, acquire, HandlerTypes, Stages
  <1>9. CASE Disconnect(r)
    BY <1>9, <1>1, <1>2, <1>3 DEF Disconnect, abort, HandlerTypes, Stages
  <1>10. CASE EmitProgress(r)
    BY <1>10, <1>1, <1>2, <1>3 DEF EmitProgress, CanWrite, HandlerTypes, Stages
  <1>11. CASE Concludes(r)
    <2>1. PICK outcome \in Reported : Conclude(r, outcome) /\ UNCHANGED gone
      BY <1>11 DEF Concludes
    <2>2. recorded' \in [Requests -> Seq(Outcomes)]
      BY <2>1, <1>1, <1>2 DEF Conclude
    <2>3. answer' \in [Requests -> {"none", "200", "400", "502", "503", "stream"}]
      BY <2>1, <1>3 DEF Conclude, AnswerTo
    <2>4. lines' \in [Requests -> Seq({"progress", "result"})]
      BY <2>1 DEF Conclude, EndStream, HandlerTypes
    <2>5. active' \in Nat /\ held' \in [Requests -> BOOLEAN]
      BY <2>1 DEF Conclude, release, HandlerTypes
    <2>6. stage' \in [Requests -> Stages] /\ aborted' \in [Requests -> BOOLEAN]
      BY <2>1 DEF Conclude, abort, HandlerTypes, Stages
    <2>7. QED
      BY <2>1, <2>2, <2>3, <2>4, <2>5, <2>6 DEF HandlerTypes
  <1>12. CASE UNCHANGED <<handler, aborted>>
    BY <1>12 DEF handler, HandlerTypes
  <1>13. QED
    BY <1>4, <1>5, <1>6, <1>7, <1>8, <1>9, <1>10, <1>11, <1>12 DEF HandlerStep

-----------------------------------------------------------------------------
(* The inductive step                                                       *)

\* Only the start of a download takes a slot, only its conclusion gives it back.
LEMMA SlotStep ==
  ASSUME HandlerTypes, SlotAccounting, NEW r \in Requests, HandlerStep(r)
  PROVE  SlotAccounting'
  <1>0. /\ IsFiniteSet(Holders) /\ Cardinality(Holders) \in Nat /\ MaxConcurrency \in Nat
        /\ Holders \subseteq Requests
    BY ServiceAssumption, FS_Subset, FS_CardinalityType DEF Holders
  <1>1. CASE \/ Receive(r) \/ RejectBody(r) \/ RejectInput(r) \/ RefuseOverflow(r)
             \/ Disconnect(r) \/ EmitProgress(r)
    <2>1. UNCHANGED <<active, held>>
      BY <1>1 DEF Receive, RejectBody, RejectInput, RefuseOverflow, Disconnect, EmitProgress
    <2>2. \A q \in Requests : stage'[q] = "inflight" <=> stage[q] = "inflight"
      BY <1>1 DEF Receive, RejectBody, RejectInput, RefuseOverflow, Disconnect, EmitProgress,
                  HandlerTypes
    <2>3. QED
      BY <2>1, <2>2 DEF SlotAccounting, Holders
  <1>2. CASE StartDownload(r)
    <2>1. Holders' = Holders \cup {r} /\ r \notin Holders
      BY <1>2 DEF StartDownload, acquire, Holders, HandlerTypes, SlotAccounting
    <2>2. Cardinality(Holders') = Cardinality(Holders) + 1
      BY <1>0, <2>1, FS_AddElement
    <2>3. active' = Cardinality(Holders') /\ active' <= MaxConcurrency
      BY <1>2, <1>0, <2>2 DEF StartDownload, acquire, SlotAccounting
    <2>4. \A q \in Requests : held'[q] <=> stage'[q] = "inflight"
      BY <1>2 DEF StartDownload, acquire, HandlerTypes, SlotAccounting
    <2>5. QED
      BY <2>3, <2>4 DEF SlotAccounting
  <1>3. CASE Concludes(r)
    <2>1. /\ release(r) /\ stage[r] = "inflight" /\ stage' = [stage EXCEPT ![r] = "done"]
      BY <1>3 DEF Concludes, Conclude
    <2>2. Holders' = Holders \ {r} /\ r \in Holders
      BY <2>1 DEF release, Holders, HandlerTypes, SlotAccounting
    <2>3. Cardinality(Holders') = Cardinality(Holders) - 1
      BY <1>0, <2>2, FS_RemoveElement
    <2>4. Cardinality(Holders) # 0
      BY <1>0, <2>2, FS_EmptySet
    <2>5. active' = Cardinality(Holders') /\ active' <= MaxConcurrency
      BY <1>0, <2>1, <2>2, <2>3, <2>4 DEF release, Holders, SlotAccounting
    <2>6. \A q \in Requests : held'[q] <=> stage'[q] = "inflight"
      BY <2>1 DEF release, HandlerTypes, SlotAccounting
    <2>7. QED
      BY <2>5, <2>6 DEF SlotAccounting
  <1>4. CASE UNCHANGED <<handler, aborted>>
    BY <1>4 DEF handler, SlotAccounting, Holders
  <1>5. QED
    BY <1>1, <1>2, <1>3, <1>4 DEF HandlerStep

\* An outcome is recorded, and an answer given, only by the step that makes the
\* handler done.
LEMMA OutcomeStep ==
  ASSUME HandlerTypes, OneOutcome, Unconcluded, NEW r \in Requests, HandlerStep(r)
  PROVE  OneOutcome'
  <1>1. CASE Receive(r)
    BY <1>1 DEF Receive, Respond, Record, OneOutcome, Unconcluded, HandlerTypes, Told, AnswerTo
  <1>2. CASE RejectBody(r)
    BY <1>2 DEF RejectBody, Respond, OneOutcome, Unconcluded, HandlerTypes, Told, AnswerTo
  <1>3. CASE RejectInput(r)
    BY <1>3 DEF RejectInput, Respond, Record, OneOutcome, Unconcluded, HandlerTypes, Told, AnswerTo
  <1>4. CASE RefuseOverflow(r)
    <2>1. recorded[r] = <<>> /\ answer[r] = "none"
      BY <1>4 DEF RefuseOverflow, Unconcluded
    <2>2. recorded'[r] = <<"concurrency_limit">> /\ answer'[r] \in {"none", "503"}
      BY <1>4, <2>1 DEF RefuseOverflow, Record, Respond, HandlerTypes
    <2>3. \A q \in Requests \ {r} : recorded'[q] = recorded[q] /\ answer'[q] = answer[q]
      BY <1>4 DEF RefuseOverflow, Record, Respond, HandlerTypes
    <2>4. Len(recorded'[r]) = 1 /\ recorded'[r][1] = "concurrency_limit"
      BY <2>2
    <2>5. \A q \in Requests : Told(q, recorded[q][1])' = Told(q, recorded'[q][1])
      BY DEF Told, AnswerTo
    <2>6. Told(r, "concurrency_limit") = "503"
      BY DEF Told
    <2>7. ASSUME NEW q \in Requests
          PROVE  /\ Len(recorded'[q]) <= 1
                 /\ answer'[q] # "none" /\ recorded'[q] # <<>> =>
                      answer'[q] = Told(q, recorded'[q][1])
      <3>1. CASE q = r
        BY <3>1, <2>2, <2>4, <2>6
      <3>2. CASE q # r
        BY <3>2, <2>3 DEF OneOutcome
      <3>3. QED
        BY <3>1, <3>2
    <2>8. QED
      BY <2>5, <2>7 DEF OneOutcome
  <1>5. CASE StartDownload(r)
    BY <1>5 DEF StartDownload, acquire, OneOutcome, Unconcluded, HandlerTypes, Told, AnswerTo
  <1>6. CASE Disconnect(r)
    BY <1>6 DEF Disconnect, abort, OneOutcome, Unconcluded, HandlerTypes, Told, AnswerTo
  <1>7. CASE EmitProgress(r)
    BY <1>7 DEF EmitProgress, CanWrite, OneOutcome, Unconcluded, HandlerTypes, Told, AnswerTo
  <1>8. CASE Concludes(r)
    <2>1. PICK outcome \in Reported :
            Record(r, outcome) /\ Respond(r, AnswerTo(r, outcome)) /\ stage[r] = "inflight"
      BY <1>8 DEF Concludes, Conclude
    <2>2. outcome \notin {"invalid_request", "concurrency_limit"}
      BY <2>1 DEF Reported, ErrorCodes
    <2>3. recorded[r] = <<>> /\ answer[r] = "none"
      BY <2>1 DEF Unconcluded
    <2>4. recorded'[r] = <<outcome>> /\ answer'[r] \in {"none", AnswerTo(r, outcome)}
      BY <2>1, <2>3 DEF Record, Respond, HandlerTypes
    <2>5. \A q \in Requests \ {r} : recorded'[q] = recorded[q] /\ answer'[q] = answer[q]
      BY <2>1 DEF Record, Respond, HandlerTypes
    <2>6. Len(recorded'[r]) = 1 /\ recorded'[r][1] = outcome
      BY <2>4
    <2>7. Told(r, outcome) = AnswerTo(r, outcome)
      BY <2>2 DEF Told
    <2>8. \A q \in Requests : Told(q, recorded[q][1])' = Told(q, recorded'[q][1])
      BY DEF Told, AnswerTo
    <2>9. ASSUME NEW q \in Requests
          PROVE  /\ Len(recorded'[q]) <= 1
                 /\ answer'[q] # "none" /\ recorded'[q] # <<>> =>
                      answer'[q] = Told(q, recorded'[q][1])
      <3>1. CASE q = r
        BY <3>1, <2>4, <2>6, <2>7
      <3>2. CASE q # r
        BY <3>2, <2>5 DEF OneOutcome
      <3>3. QED
        BY <3>1, <3>2
    <2>10. QED
      BY <2>8, <2>9 DEF OneOutcome
  <1>9. CASE UNCHANGED <<handler, aborted>>
    BY <1>9 DEF handler, OneOutcome, Unconcluded, HandlerTypes, Told, AnswerTo
  <1>10. QED
    BY <1>1, <1>2, <1>3, <1>4, <1>5, <1>6, <1>7, <1>8, <1>9 DEF HandlerStep

\* A line is written only before the handler is done, and the result with it.
LEMMA StreamStep ==
  ASSUME HandlerTypes, StreamWellFormed, Unconcluded, NEW r \in Requests, HandlerStep(r)
  PROVE  StreamWellFormed'
  <1>1. CASE Receive(r)
    BY <1>1 DEF Receive, Respond, Record, StreamWellFormed, Unconcluded, HandlerTypes
  <1>2. CASE RejectBody(r)
    BY <1>2 DEF RejectBody, Respond, StreamWellFormed, Unconcluded, HandlerTypes
  <1>3. CASE RejectInput(r)
    BY <1>3 DEF RejectInput, Respond, Record, StreamWellFormed, Unconcluded, HandlerTypes
  <1>4. CASE RefuseOverflow(r)
    BY <1>4 DEF RefuseOverflow, Respond, Record, StreamWellFormed, Unconcluded, HandlerTypes
  <1>5. CASE StartDownload(r)
    BY <1>5 DEF StartDownload, acquire, StreamWellFormed, Unconcluded, HandlerTypes
  <1>6. CASE Disconnect(r)
    BY <1>6 DEF Disconnect, abort, StreamWellFormed, Unconcluded, HandlerTypes
  <1>7. CASE EmitProgress(r)
    BY <1>7 DEF EmitProgress, CanWrite, StreamWellFormed, Unconcluded, HandlerTypes
  <1>8. CASE Concludes(r)
    <2>1. EndStream(r) /\ lines[r] \in Seq({"progress"})
      BY <1>8 DEF Concludes, Conclude, Unconcluded
    <2>2. \A q \in Requests \ {r} : lines'[q] = lines[q]
      BY <2>1 DEF EndStream, HandlerTypes
    <2>3. lines'[r] \in {lines[r], Append(lines[r], "result")}
      BY <2>1 DEF EndStream, HandlerTypes
    <2>4. \A i \in DOMAIN lines'[r] : lines'[r][i] = "result" => i = Len(lines'[r])
      BY <2>1, <2>3
    <2>5. QED
      BY <2>2, <2>4 DEF StreamWellFormed
  <1>9. CASE UNCHANGED <<handler, aborted>>
    BY <1>9 DEF handler, StreamWellFormed, Unconcluded, HandlerTypes
  <1>10. QED
    BY <1>1, <1>2, <1>3, <1>4, <1>5, <1>6, <1>7, <1>8, <1>9 DEF HandlerStep

\* A handler that is not done has said nothing, in whatever order the steps of
\* its download come.
LEMMA UnconcludedStep ==
  ASSUME TypeOK, Unconcluded, NEW r \in Requests, StepOf(r)
  PROVE  Unconcluded'
  <1>1. CASE Receive(r)
    BY <1>1 DEF Receive, Respond, Record, handler, download, procs, TypeOK, Unconcluded
  <1>2. CASE RejectBody(r)
    BY <1>2 DEF RejectBody, Respond, handler, download, procs, TypeOK, Unconcluded
  <1>3. CASE RejectInput(r)
    BY <1>3 DEF RejectInput, Respond, Record, handler, download, procs, TypeOK, Unconcluded
  <1>4. CASE RefuseOverflow(r)
    BY <1>4 DEF RefuseOverflow, Respond, Record, handler, download, procs, TypeOK, Unconcluded
  <1>5. CASE StartDownload(r)
    BY <1>5 DEF StartDownload, acquire, handler, download, procs, TypeOK, Unconcluded
  <1>6. CASE RequestTimeout(r)
    BY <1>6 DEF RequestTimeout, Conclude, Record, Respond, EndStream, abort, CloseOnAbort, CloseBrowser, KillOnAbort, handler, download, procs, TypeOK, Unconcluded
  <1>7. CASE Disconnect(r)
    BY <1>7 DEF Disconnect, abort, CloseOnAbort, CloseBrowser, KillOnAbort, handler, download, procs, TypeOK, Unconcluded
  <1>8. CASE EmitProgress(r)
    BY <1>8 DEF EmitProgress, CanWrite, handler, download, procs, TypeOK, Unconcluded
  <1>9. CASE CheckInputs(r)
    BY <1>9 DEF CheckInputs, Settle, Conclude, Record, Respond, EndStream, abort, CloseOnAbort, CloseBrowser, KillOnAbort, GoTo, handler, download, procs, TypeOK, Unconcluded
  <1>10. CASE verifyDiskSpace(r)
    BY <1>10 DEF verifyDiskSpace, Settle, Conclude, Record, Respond, EndStream, abort, CloseOnAbort, CloseBrowser, KillOnAbort, handler, download, procs, TypeOK, Unconcluded
  <1>11. CASE LoadStealth(r)
    BY <1>11 DEF LoadStealth, handler, download, procs, TypeOK, Unconcluded
  <1>12. CASE LaunchBrowser(r)
    BY <1>12 DEF LaunchBrowser, GoTo, handler, download, procs, TypeOK, Unconcluded
  <1>13. CASE LaunchFails(r)
    BY <1>13 DEF LaunchFails, Settle, Conclude, Record, Respond, EndStream, abort, CloseOnAbort, CloseBrowser, KillOnAbort, handler, download, procs, TypeOK, Unconcluded
  <1>14. CASE SetUpPage(r)
    BY <1>14 DEF SetUpPage, GoTo, Fail, Catch, ToFinally, handler, download, procs, TypeOK, Unconcluded
  <1>15. CASE RunTier1(r)
    BY <1>15 DEF RunTier1, GoTo, Fail, Catch, ToFinally, handler, download, procs, TypeOK, Unconcluded
  <1>16. CASE RunTier2(r)
    BY <1>16 DEF RunTier2, GoTo, Fail, Catch, ToFinally, handler, download, procs, TypeOK, Unconcluded
  <1>17. CASE SaveBytes(r)
    BY <1>17 DEF SaveBytes, Fail, Catch, GoTo, ToFinally, handler, download, procs, TypeOK, Unconcluded
  <1>18. CASE RemoveFile(r)
    BY <1>18 DEF RemoveFile, ToFinally, handler, download, procs, TypeOK, Unconcluded
  <1>19. CASE SpawnStreamlink(r)
    BY <1>19 DEF SpawnStreamlink, Spawn, Fail, Catch, GoTo, ToFinally, handler, download, procs, TypeOK, Unconcluded
  <1>20. CASE ChildExits(r)
    BY <1>20 DEF ChildExits, handler, download, procs, TypeOK, Unconcluded
  <1>21. CASE SpawnTimeout(r)
    BY <1>21 DEF SpawnTimeout, handler, download, procs, TypeOK, Unconcluded
  <1>22. CASE KillTimer(r)
    BY <1>22 DEF KillTimer, handler, download, procs, TypeOK, Unconcluded
  <1>23. CASE StreamlinkDone(r)
    BY <1>23 DEF StreamlinkDone, GoTo, Fail, Catch, ToFinally, handler, download, procs, TypeOK, Unconcluded
  <1>24. CASE RunFallback(r)
    BY <1>24 DEF RunFallback, Spawn, GoTo, Fail, Catch, ToFinally, handler, download, procs, TypeOK, Unconcluded
  <1>25. CASE ConcatDone(r)
    BY <1>25 DEF ConcatDone, Fail, Catch, GoTo, ToFinally, handler, download, procs, TypeOK, Unconcluded
  <1>26. CASE BrowserExits(r)
    BY <1>26 DEF BrowserExits, handler, download, procs, TypeOK, Unconcluded
  <1>27. CASE CloseDone(r)
    BY <1>27 DEF CloseDone, Settle, Conclude, Record, Respond, EndStream, abort, CloseOnAbort, CloseBrowser, KillOnAbort, handler, download, procs, TypeOK, Unconcluded
  <1>28. CASE NoContext(r)
    BY <1>28 DEF NoContext, CloseBrowser, GoTo, handler, download, procs, TypeOK, Unconcluded
  <1>29. CASE ContextCloses(r)
    BY <1>29 DEF ContextCloses, CloseBrowser, GoTo, handler, download, procs, TypeOK, Unconcluded
  <1>30. QED
    BY <1>28, <1>29, <1>1, <1>2, <1>3, <1>4, <1>5, <1>6, <1>7, <1>8, <1>9, <1>10, <1>11, <1>12, <1>13, <1>14, <1>15, <1>16, <1>17, <1>18, <1>19, <1>20, <1>21, <1>22, <1>23, <1>24, <1>25, <1>26, <1>27 DEF StepOf

\* An abort stops what runs, and what starts after an abort is stopped at once.
LEMMA StoppedStep ==
  ASSUME TypeOK, Stopped, Unconcluded, NEW r \in Requests, StepOf(r)
  PROVE  Stopped'
  <1>1. CASE Receive(r)
    BY <1>1 DEF Receive, handler, download, procs, TypeOK, Stopped, Unconcluded
  <1>2. CASE RejectBody(r)
    BY <1>2 DEF RejectBody, handler, download, procs, TypeOK, Stopped, Unconcluded
  <1>3. CASE RejectInput(r)
    BY <1>3 DEF RejectInput, handler, download, procs, TypeOK, Stopped, Unconcluded
  <1>4. CASE RefuseOverflow(r)
    BY <1>4 DEF RefuseOverflow, handler, download, procs, TypeOK, Stopped, Unconcluded
  <1>5. CASE StartDownload(r)
    BY <1>5 DEF StartDownload, acquire, handler, download, procs, TypeOK, Stopped, Unconcluded
  <1>6. CASE RequestTimeout(r)
    BY <1>6 DEF RequestTimeout, Conclude, abort, CloseOnAbort, CloseBrowser, KillOnAbort, handler, download, procs, TypeOK, Stopped, Unconcluded
  <1>7. CASE Disconnect(r)
    BY <1>7 DEF Disconnect, abort, CloseOnAbort, CloseBrowser, KillOnAbort, handler, download, procs, TypeOK, Stopped, Unconcluded
  <1>8. CASE EmitProgress(r)
    BY <1>8 DEF EmitProgress, CanWrite, handler, download, procs, TypeOK, Stopped, Unconcluded
  <1>9. CASE CheckInputs(r)
    BY <1>9 DEF CheckInputs, Settle, Conclude, abort, CloseOnAbort, CloseBrowser, KillOnAbort, GoTo, handler, download, procs, TypeOK, Stopped, Unconcluded
  <1>10. CASE verifyDiskSpace(r)
    BY <1>10 DEF verifyDiskSpace, Settle, Conclude, abort, CloseOnAbort, CloseBrowser, KillOnAbort, handler, download, procs, TypeOK, Stopped, Unconcluded
  <1>11. CASE LoadStealth(r)
    BY <1>11 DEF LoadStealth, handler, download, procs, TypeOK, Stopped, Unconcluded
  <1>12. CASE LaunchBrowser(r)
    BY <1>12 DEF LaunchBrowser, GoTo, handler, download, procs, TypeOK, Stopped, Unconcluded
  <1>13. CASE LaunchFails(r)
    BY <1>13 DEF LaunchFails, Settle, Conclude, abort, CloseOnAbort, CloseBrowser, KillOnAbort, handler, download, procs, TypeOK, Stopped, Unconcluded
  <1>14. CASE SetUpPage(r)
    BY <1>14 DEF SetUpPage, GoTo, Fail, Catch, ToFinally, handler, download, procs, TypeOK, Stopped, Unconcluded
  <1>15. CASE RunTier1(r)
    BY <1>15 DEF RunTier1, GoTo, Fail, Catch, ToFinally, handler, download, procs, TypeOK, Stopped, Unconcluded
  <1>16. CASE RunTier2(r)
    BY <1>16 DEF RunTier2, GoTo, Fail, Catch, ToFinally, handler, download, procs, TypeOK, Stopped, Unconcluded
  <1>17. CASE SaveBytes(r)
    BY <1>17 DEF SaveBytes, Fail, Catch, GoTo, ToFinally, handler, download, procs, TypeOK, Stopped, Unconcluded
  <1>18. CASE RemoveFile(r)
    BY <1>18 DEF RemoveFile, ToFinally, handler, download, procs, TypeOK, Stopped, Unconcluded
  <1>19. CASE SpawnStreamlink(r)
    BY <1>19 DEF SpawnStreamlink, Spawn, Fail, Catch, GoTo, ToFinally, handler, download, procs, TypeOK, Stopped, Unconcluded
  <1>20. CASE ChildExits(r)
    BY <1>20 DEF ChildExits, handler, download, procs, TypeOK, Stopped, Unconcluded
  <1>21. CASE SpawnTimeout(r)
    BY <1>21 DEF SpawnTimeout, handler, download, procs, TypeOK, Stopped, Unconcluded
  <1>22. CASE KillTimer(r)
    BY <1>22 DEF KillTimer, handler, download, procs, TypeOK, Stopped, Unconcluded
  <1>23. CASE StreamlinkDone(r)
    BY <1>23 DEF StreamlinkDone, GoTo, Fail, Catch, ToFinally, handler, download, procs, TypeOK, Stopped, Unconcluded
  <1>24. CASE RunFallback(r)
    BY <1>24 DEF RunFallback, Spawn, GoTo, Fail, Catch, ToFinally, handler, download, procs, TypeOK, Stopped, Unconcluded
  <1>25. CASE ConcatDone(r)
    BY <1>25 DEF ConcatDone, Fail, Catch, GoTo, ToFinally, handler, download, procs, TypeOK, Stopped, Unconcluded
  <1>26. CASE BrowserExits(r)
    BY <1>26 DEF BrowserExits, handler, download, procs, TypeOK, Stopped, Unconcluded
  <1>27. CASE CloseDone(r)
    BY <1>27 DEF CloseDone, Settle, Conclude, abort, CloseOnAbort, CloseBrowser, KillOnAbort, handler, download, procs, TypeOK, Stopped, Unconcluded
  <1>28. CASE NoContext(r)
    BY <1>28 DEF NoContext, CloseBrowser, GoTo, handler, download, procs, TypeOK, Stopped, Unconcluded
  <1>29. CASE ContextCloses(r)
    BY <1>29 DEF ContextCloses, CloseBrowser, GoTo, handler, download, procs, TypeOK, Stopped, Unconcluded
  <1>30. QED
    BY <1>28, <1>29, <1>1, <1>2, <1>3, <1>4, <1>5, <1>6, <1>7, <1>8, <1>9, <1>10, <1>11, <1>12, <1>13, <1>14, <1>15, <1>16, <1>17, <1>18, <1>19, <1>20, <1>21, <1>22, <1>23, <1>24, <1>25, <1>26, <1>27 DEF StepOf

-----------------------------------------------------------------------------
(* The theorems                                                            *)

LEMMA InitHolds == Init => IInv
  <1> SUFFICES ASSUME Init PROVE IInv
    OBVIOUS
  <1>1. TypeOK
    BY DEF Init, TypeOK, Stages, Phases
  <1>2. SlotAccounting
    <2>1. Holders = {}
      BY DEF Init, Holders
    <2>2. QED
      BY <2>1, FS_EmptySet, ServiceAssumption DEF Init, SlotAccounting
  <1>3. OneOutcome
    BY DEF Init, OneOutcome
  <1>4. StreamWellFormed /\ Unconcluded /\ Stopped /\ OnTheWayOut
    BY DEF Init, StreamWellFormed, Unconcluded, Stopped, OnTheWayOut
  <1>5. QED
    BY <1>1, <1>2, <1>3, <1>4 DEF IInv

LEMMA NextKeeps == IInv /\ [Next]_vars => IInv'
  <1> SUFFICES ASSUME IInv, [Next]_vars PROVE IInv'
    OBVIOUS
  <1>1. CASE Next
    <2>1. PICK r \in Requests : StepOf(r)
      BY <1>1, NextIsAStep
    <2>2. HandlerTypes /\ DownloadTypes
      BY TypesSplit DEF IInv
    <2>3. HandlerStep(r)
      BY <2>1, <2>2, HandlerEffect DEF IInv
    <2>4. DownloadTypes' /\ OnTheWayOut'
      BY <2>1, <2>2, DownloadStep DEF IInv
    <2>5. HandlerTypes'
      BY <2>2, <2>3, HandlerTypesStep DEF IInv
    <2>6. TypeOK'
      BY <2>4, <2>5 DEF TypeOK, HandlerTypes, DownloadTypes, Verdicts
    <2>7. SlotAccounting' /\ OneOutcome' /\ StreamWellFormed'
      BY <2>2, <2>3, SlotStep, OutcomeStep, StreamStep DEF IInv
    <2>8. Unconcluded' /\ Stopped'
      BY <2>1, UnconcludedStep, StoppedStep DEF IInv
    <2>9. QED
      BY <2>4, <2>6, <2>7, <2>8 DEF IInv
  <1>2. CASE UNCHANGED vars
    BY <1>2 DEF vars, handler, download, procs, IInv, TypeOK, SlotAccounting, Holders,
                OneOutcome, Told, AnswerTo, StreamWellFormed, Unconcluded, Stopped, OnTheWayOut
  <1>3. QED
    BY <1>1, <1>2

LEMMA Invariance == Spec => []IInv
  BY InitHolds, NextKeeps, PTL DEF Spec

\* Every variable of the service keeps its type; in particular a failure always
\* has one of the public codes: server.js, downloader.js, errors.js.
THEOREM ServiceTypes == Spec => []TypeOK
  <1>1. IInv => TypeOK
    BY DEF IInv
  <1>2. QED
    BY <1>1, Invariance, PTL

\* However many requests there are, the semaphore's counter is the number of
\* downloads that hold a slot, and at most BD_MAX_CONCURRENCY: concurrency.js.
THEOREM SlotsAreCounted == Spec => []SlotAccounting
  <1>1. IInv => SlotAccounting
    BY DEF IInv
  <1>2. QED
    BY <1>1, Invariance, PTL

\* A request is counted once, with the outcome its client is told: server.js
\* 178-215.
THEOREM OutcomesAreUnique == Spec => []OneOutcome
  <1>1. IInv => OneOutcome
    BY DEF IInv
  <1>2. QED
    BY <1>1, Invariance, PTL

\* When its slot is free, nothing of a request is running that has not been
\* told to stop, but for the browser of a download that was in its finally
\* block when the abort came: server.js 132-138, downloader.js 115-125, 186-192.
THEOREM SlotsAreReleasedStopped == Spec => []StoppedOrLeaving
  <1>1. IInv => StoppedOrLeaving
    BY DEF IInv, TypeOK, Stopped, StoppedOrLeaving
  <1>2. QED
    BY <1>1, Invariance, PTL

\* The result line of a progress stream is its last: server.js 152-157.
THEOREM StreamsEndOnce == Spec => []StreamWellFormed
  <1>1. IInv => StreamWellFormed
    BY DEF IInv
  <1>2. QED
    BY <1>1, Invariance, PTL

\* A download that fails leaves no file it could have removed: downloader.js
\* 171-174.
THEOREM FailuresLeaveNoFile == Spec => []FailureLeavesNoFile
  <1>1. IInv => FailureLeavesNoFile
    BY DEF IInv, OnTheWayOut, FailureLeavesNoFile
  <1>2. QED
    BY <1>1, Invariance, PTL

=============================================================================
