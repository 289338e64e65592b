# Vooglaadija: a TLA+ model of the download pipeline

Vooglaadija turns a video URL into a media file. A FastAPI process accepts the
request and writes a job; a worker extracts the media with yt-dlp or a browser
service; the result is served for a day and then removed. This directory holds
TLA+ modules that model the parts of the program where several processes act on
shared state, TLC configurations that check them on small instances, and
theorems that TLAPS checks for every instance. Paths are relative to the
repository root.

## 1. Inventory

| Component | State | Operations | Talks to | What makes it correct |
|---|---|---|---|---|
| Download service (`app/services/download_service.py`, `outbox_service.py`, the download routes) | tables `download_jobs`, `outbox`, `failed_jobs` | create, retry, replay, delete, best-effort enqueue | PostgreSQL, Celery broker, disk | a request that reads, waits and writes does not undo what a worker did meanwhile; a dead letter is never lost |
| Celery pipeline (`worker/celery_tasks.py`, `celery_app.py`, `retry_scheduler.py`) | the same tables, messages in the broker, the coroutine of each task | claim, extract, complete, schedule a retry, dead-letter, cancel; Beat: two sweeps and two clean-ups | broker, PostgreSQL, disk, breaker | one execution per job, attempts counted, every job reaches a verdict, files and rows agree |
| Circuit breaker (`app/services/circuit_breaker.py`) | per process: state, counters; in Redis: failures, last_failure, half_slots | can_execute, record_success, record_failure, is_accepting, cancellation | Redis | bounded trials, shared cooldown, eventual recovery |
| Legacy BRPOP worker (`worker/main.py`, `processor.py`, `job_claimer.py`, `job_executor.py`) | Redis lists and sets, in-flight tasks, shutdown event | claim, heartbeat, execute, defer, drain, shutdown | Redis, PostgreSQL | the same as the Celery pipeline, and no message lost between Redis and the tables |
| Outbox relay, zombie sweeper, DLQ manager (`worker/outbox_relay.py`, `zombie_sweeper.py`, `dlq_manager.py`) | outbox rows, Redis queues | relay, sweep, dead-letter | both | at-least-once delivery, failed together with its dead letter |
| Warm yt-dlp pool (`app/services/yt_dlp_service.py`) | driver slots (busy, starting, ready) | check-out, start, release, kill, shutdown | subprocesses | a driver serves one job at a time; no driver outlives the pool |
| Browser-downloader, handler and download (`packages/browser-downloader/src`: `server.js`, `concurrency.js`, `downloader.js`, `errors.js`, `metrics.js`) | a semaphore, per request: a timer, an abort signal, a response, Chromium, a process group, a file | admit, validate, launch, try tiers, save, stream, answer, cancel | HTTP, Chromium, streamlink, ffmpeg, disk | slots returned on every path, one outcome per request, nothing left running or on disk |
| Media capture (`tier1-cdp.js`, `tier2-dom.js`) | Maps of candidates and headers, two timers, the hooks in the page | network events, body reads, DRM checks, poll for blobs | the page in Chromium | one verdict, backed by what the page did; bounded memory; it ends |
| Streamlink backend and HLS fallback (`streamlink-backend.js`) | credential file, temporary directory, aggregate timer, keys, parts | walk playlists, fetch with retries, decrypt, join | media servers, streamlink, ffmpeg | the file is the media in clear, DRM is refused, credentials and parts are removed as far as removals succeed, it ends |
| Input validation (`validate.js`) | none | URL, host and directory checks | DNS | pure decisions |
| Event streams, server side (`app/services/pubsub_service.py`, `app/api/routes/sse.py`) | subscription, buffer, seen set | snapshot, buffer, replay, live | Redis pub/sub, PostgreSQL | a client that stays connected ends with the newest status it was sent |
| Dashboard (`app/static/js/dashboard.js`, `sse.js`) | the rows, the event source and its listeners, the form, the modal, sets of pending ids | job and progress events, create, delete, reconnect, de-duplicate | SSE, htmx requests | a row per job, with its status, whatever is lost or late |
| Browser executor (`worker/browser_executor.py`) | a second breaker | one HTTP call | browser-downloader | error codes become categories |
| Authentication (`app/auth.py`, `token_blacklist.py`, auth routes) | jti blacklist, per-process cache, token version | login, refresh, logout, change password | Redis, PostgreSQL | a refresh token is used once; a revoked token stops working |
| Error classifier, retry policy | none | classify, evaluate | | categories and caps |
| Health, metrics, chaos, throttle predictor, configuration, templates | reporting and wiring | | | no protocol of their own |

The production deployment is API + Celery worker + Celery Beat. The legacy
worker is still started by `README.md`'s development instructions.

How the modelled parts interact. The API and the workers share three tables and
never call each other. A message in the broker is only a hint: it names a job,
may be duplicated, lost or late, and what decides is the claim
`UPDATE ... WHERE status = 'pending'`. Beat repairs what crashes leave behind:
`requeue_stuck_jobs` for rows stuck in `processing`, `enqueue_pending` for rows
whose message is gone. Extraction runs behind the breaker, whose refusal is one
more failed extraction to the pipeline. For sites that need a browser the worker
posts to the browser-downloader, a Node service with one handler: it takes a slot
of a semaphore, races `download()` against a timer, and cancels it through one
abort signal that every part below listens to (Chromium, the two tiers, the
subprocesses, the fetches of the fallback). The dashboard never polls: its rows
are made by three sources that are not ordered with each other, the responses of
its own requests, the events of the stream, and the optimistic row it shows
before either.

What is hard here: reads that are used after an await (retry, replay, delete, the
retry count of an execution); commits followed by a publish; the distance
between the task time limit and the sweep's cutoff; a coroutine that outlives its
task after a soft time limit; two records that must appear together (status and
dead letter); files that are not transactional; Redis counters shared by
processes whose locks are local; in Node and in the page, callbacks that run after
what they were started for is over: a launch that succeeds after the cancellation,
a body that arrives after the verdict, a result after the timeout, an event of a
source that has been replaced. `PROJECT.json` lists each at its line, with the
properties aimed at it.

## 2. Modules

| Module | Models |
|---|---|
| `DownloadService.tla` | the tables, the broker queue and every HTTP request as a process of several steps |
| `CeleryPipeline.tla` | extends it with executions of `process_download`, delayed retry messages, Beat, time and faults; all properties of the pipeline |
| `JobLifecycle.tla` | the abstract promise: one owner, only the owner settles, taken back only after the owner is gone, budget spent one attempt at a time |
| `CeleryPipelineProofs.tla` | theorems about `CeleryPipeline`: types and dead letters |
| `CeleryLifecycleProofs.tla` | extends it: who works on a job, and the refinement of `JobLifecycle` |
| `CeleryFilesProofs.tla` | extends that: the media files |
| `CircuitBreaker.tla` | one breaker per process, Redis keys, calls |
| `CircuitBreakerProofs.tla` | theorems about `CircuitBreaker` |
| `DownloadErrors.tla` | `classifyError` over chains of causes |
| `BrowserService.tla` | extends it: requests to the browser-downloader, from the body to the release of the slot, with download(), Chromium and the subprocess of each |
| `BrowserServiceProofs.tla` | theorems about both |
| `MediaCapture.tla` | one run of tier 1 and tier 2 against a page |
| `MediaCaptureProofs.tla` | theorems about it |
| `HlsFallback.tla` | one `downloadStream` against a site |
| `HlsFallbackProofs.tla` | theorems about it |
| `EventStream.tla` | the event source, its reconnection, the queues of events |
| `Dashboard.tla` | extends it: rows, create form, deletion, the server as the page sees it |
| `DashboardProofs.tla` | theorems about both |
| `MCCelery.tla`, `MCBreaker.tla`, `MCBrowser.tla`, `MCCapture.tla`, `MCHls.tla`, `MCDashboard.tla` | instances for TLC |

Correspondence of state, `DownloadService`:

- `job[j]` is a row of `download_jobs` reduced to `status`, `retry_count`,
  `next_retry_at` (`none`, `future`, `due`), `file_path`, and `old` (whether
  `updated_at` is behind the sweep's cutoff; every write that touches
  `updated_at`, by value or by `onupdate`, clears it).
- `outbox[j]` counts the rows written for a job and says whether the newest is
  pending; the partial unique index allows one pending row, and
  `best_effort_enqueue` closes the very row it read, by id.
- `failed_jobs[f]` is a dead letter with its `original_job_id`
  (`ON DELETE SET NULL`).
- `req[r]` is a request: which step it is at, and the row it loaded (`snap`).
  `Flush` is what the ORM emits for a loaded object: it writes the columns whose
  value differs from the loaded one, by primary key, whatever the row holds by
  then.
- `queue[j]` counts the copies of the task message that are ready.

`CeleryPipeline`:

- `wk[w]` is one run of `process_download`: `executing`, `extracted` (the file is
  on disk), `failing` (an error is about to be recorded), `publishing` (retry
  committed, message not yet sent). `retry_count` is the value the claim
  returned. `abandoned` marks a coroutine whose task was failed by the soft time
  limit: the exception is raised in `run_until_complete`, the message is
  acknowledged, the coroutine stays on the worker's persistent loop and goes on
  when a later task runs it.
- `eta[j]` counts retry messages whose countdown runs; `sweep` and `selected` are
  the ids the two periodic tasks still have to publish; `cleaner` is the job
  whose file the expiry task has removed before its commit.
- Time is abstract. `RowAges` is the one place where durations matter: as long as
  `task_time_limit` (600 s) is below `stuck_timeout` (900 s), a row cannot age
  while a live execution holds it, since the claim refreshed `updated_at` and the
  pool kills the task before the cutoff; only an abandoned coroutine can.

`CircuitBreaker`: `breaker[i]` holds the fields of the object in process `i`,
`shared` the three Redis keys, `call[c]` an extraction between `can_execute` and
`record_*`, `lock[i]` the asyncio lock. Redis commands that other processes can
interleave with are separate steps: the read, INCR and DECR of the slot counter,
the first command of `record_success` and `record_failure`. `slot` in `call` is a
ghost: whether this call is one of the trials the pool has admitted.

`DownloadErrors`: a thrown value is the sequence of its links, the error, its
cause, and so on; a link is its class, its code and whether its wording speaks of
the network. `classifyError` recurses in the code; here the link that decides is
chosen and then named. (TLC found the two forms equal on all chains of up to three
links.)

`BrowserService`: an action is the code between two awaits, for one request.
`stage` is where the handler is, `phase` where its `download()` is; the two are
separate because the timer ends the first and not the second. `Settle` is the
resolution or rejection of `download()`: if the handler still waits, the rest of the handler
runs in the same turn (`Conclude`: record, answer, end the stream, abort,
release); otherwise the result is dropped. `abort` runs its listeners at once, as
`AbortController` does. `browser` and `child` are processes of the operating
system: told to stop (`closing`, `terminating`) is not stopped. The finally block
of `download()` is two phases: `leaving`, after the abort listener has been removed,
while `context.close()` is awaited, and `closing`, while `browser.close()` is. In the
first an abort does not reach the browser, which is what `CloseOnAbort` looks at. `file` is what is
at `outPath`. `stealth` is the module-wide promise of `launchStealthBrowser`. The
tiers are the verdicts that `MediaCapture` ends with, the fallback those of
`HlsFallback`.

`MediaCapture`: `profile` gives each resource of the page its size, transfer size,
kind and DRM; `net` is how far it is loaded. `candidates` and `requestHeaders` are
the Maps, in insertion order; `reading` and `collecting` are handlers that wait
for a body or for headers. `outcome` is the verdict that left the tier. Tier 2 is
a sequence of steps `tier2`; `late` says that its deadline has passed. The flag
`eme` belongs to the document: `Navigate` replaces the document, with a clear flag, no hook
and no blobs. `engaged` says when the document there is first used DRM, and is what
the flag is compared with. Every evaluate of tier 2 may throw on a live page as on a
closed one (`CheckThrows`, `FindBlob`, `ReadBlob`, `InstallHook`), and is then taken
for clean, as the catch blocks do; `blind` remembers that the first look did.

`HlsFallback`: `site` is what the URLs hold, `job` the fetch under way with its
attempt, context and redirects, `segments` the walked playlist with the key each
segment is to be decrypted with, `parts` what has been decrypted. Decryption is
modelled by what may come out: the plaintext, or, with a wrong key, a wrong IV or a
segment that is in clear, an exception or garbage, since the padding of the last block
decides (it is right about once in 256 times). The removals of the finally blocks
and the write of the credential file may fail; the code swallows the one and does not
know the path of the other. Two loops of the code are stated by their result:
`pickVariantUrl` names the variant that none outranks, and `WalkPlaylist` says of
each segment which line it is and which key line counts for it (the last before
it). TLC found both equal to a fold over the lines on all short playlists.

`EventStream` and `Dashboard`: `conn` is `readyState`, `heard` says whether the
dashboard's listeners are on the current source, `statusQ` and `progressQ` are
the events under way on the two channels. `rows` is the list in document order;
a row has its `data-job-id`, URL, status, sort key, the id in its delete
button (`path`), the Save link and the bar. `replace` counts the listeners
that wait to turn the optimistic row into a real one. Removing rows is selecting
the positions that stay (`RowsAt`), and the snapshot sorts by position among the
birth times, so that neither needs recursion. On the server's side, a worker commits
a status (`WorkerStep`) and publishes it afterwards (`toPublish`, `Publish`), or does
not (`PublishLost`: Redis fails, which is logged only, or the worker is gone). A stream begins
with the newest `SnapshotLimit` jobs, or with nothing when the query failed, and
at most one buffered event that is older than the snapshot (`Overtaken`). `told` is
a history variable: the jobs whose end the open connection has carried.

Operators named as variants (`ClaimedRowKeepsUpdatedAt`, `ReplayDiscards`, ...)
are not part of the specification. Each is a plausible wrong version of the
definition that follows it; putting it in place of that definition breaks the
property it is paired with in `PROJECT.json`, which shows that the property
depends on that line of the code.

## 3. Runs

| Run | Instance | Shows |
|---|---|---|
| `CeleryClaim` | 1 job, 2 executions, 1 request (retry, delete), 2 copies of a message, 2 retries, 1 fault of any of 5 kinds, both clean-ups | `TypeOK`, `NoDoubleProcessing`, `AttemptsNeverRefunded`, and that the pipeline implements `JobLifecycle` |
| `CeleryTwoJobs` | 2 jobs, 2 executions, replay and delete, 2 lost workers | the bulk sweep spares live jobs (`NoDoubleProcessing`), `DeadLetterReplayed` |
| `CeleryDlq` | 1 job, 2 concurrent requests (retry, replay), 2 executions, a soft time limit, the expiry task | `FailedHasDlqRow`, `CompletedHasFile` |
| `CeleryLive` | 1 job, 2 executions, web deletes, the expiry task, 2 faults of 6 kinds, fair | `OrphansAreLosses` (a fault costs one file at most), `PendingIsPickedUp`, `EveryJobSettles` |
| `BreakerLocal` | 1 process, 3 calls, 2 cancellations, fair | `NoSlotLeak`, `BreakerRecovers`, `TypeOK` |
| `BreakerShared` | 2 processes, 3 calls, expiring keys | `SharedCooldownHolds` |
| `BrowserRequests` | 2 requests, one a progress stream, 1 slot, fair | `SlotAccounting`, `OneOutcome`, `StoppedOrLeaving`, `StreamWellFormed`, `FailureLeavesNoFile`, `EveryRequestConcludes`, `NothingOutlivesTheRequest`, `TypeOK` |
| `MediaCapture` | 5 pages of 2 resources, caps of 1 and 2, fair | `VerdictIsJustified`, `EarlyDrmIsReported`, `BookkeepingBounded`, `NothingLeftArmed`, `CaptureEnds`, `TypeOK` |
| `HlsFallback` | 13 sites, the code's limits for depth, redirects and retries, fair | `OutputIsPlaintext`, `DrmIsNeverFetched`, `StreamEnds`, `TypeOK` |
| `Dashboard` | 2 jobs, with one URL or two, 1 URL in the form, 1 upset (a lost or refused connection, a submission, a click) | `OneRowPerJob`, `QuietStreamShowsEnds` |
| `DashboardUpsets` | 1 job, with the form's URL or another, 3 upsets, fair | `SubmitLockedWhileSent`, `OpenStreamIsHeard`, `QuietStreamShowsEnds` across reconnections, `StreamComesBack`, `TypeOK` |
| `BreakerStuckOpen` | 1 process, shared keys that expire, fair | `BreakerRecovers` is violated |

`BreakerStuckOpen` ends in a violation on purpose: it states what a comment of the
code says and shows a behaviour that differs (section 6 and `findings` in
`PROJECT.json`).

Bounds. One job is enough for what concerns a single row, since the pipeline
never relates two jobs except in the bulk `UPDATE` of the sweep and the shared
pool of executions, which `CeleryTwoJobs` covers. Two executions are what double
processing needs. Two copies of a message give a duplicate while the first is
being processed; `MaxMsgs` is a guard on publishing, so a full broker delays a
publish and drops nothing. Two dead letters allow an old and a new one for the
same job. `Files` bounds extractions whose file is still named somewhere; when all
names are taken no extraction can succeed, it can only fail. `MaxFaults` and
`MaxCancels` bound faults, `MaxCredit` how far the slot counter falls below zero.
`CircuitBreaker` saturates failure counts at the threshold they are compared
with. `NoDoubleProcessing` is checked where replay of a live job cannot happen
(no replay, or a replay whose job is gone or failed); section 6 describes
the case where it can. Likewise two concurrent retries, and a coroutine abandoned
by the soft limit, can double-process a job and are kept out of the runs that
check it. `CeleryLive` excludes the API's delete and two resets of a job at a time, with
which files are lost without any fault (section 6). `CeleryDlq` has the expiry task meet
concurrent resets and an abandoned coroutine; it excludes the dead
request and the cancelled clean-up, which leave a completed job without its file,
and deletions, which `CompletedIsServed` covers (section 5).

Two requests and one slot are what `BrowserRequests` needs: one that holds the
slot and one that takes it over. One progress line tells a line before the result
from a line after it; `Codes` limits the codes the tiers give up with to one,
since what follows does not depend on which. In `MediaCapture` two resources with
caps of one make every Map evict, and sizes of 0 to 3 lie below, at and above
both caps. `HlsFallback` keeps the code's own limits, and its sites are one per branch of
the walk: clear, refused, empty, rotating keys with both kinds of IV, a
session key with and without keys after it, a foreign key format, live, HTML,
masters in masters, and a playlist that points to itself. In `Dashboard` `MaxUpsets`
bounds connection losses, refusals, submissions and clicks together, `MaxQueue` the
events published and still under way: a server with a full queue waits with its next
event, and a snapshot is not counted. `SnapshotLimit` is 1 instead of 50, so that two
jobs pass it, and `MaxBackoff` 2 instead of 128. One upset is enough with two jobs and
a form, whose interleavings are what `Dashboard` is about; the three of `DashboardUpsets` allow
open, lost, refused and open again around a create and a delete.

`CHECK_DEADLOCK FALSE` is set in every configuration: with bounded jobs and
faults the system may have nothing left to do.

## 4. Fairness

`FairSpec` of `CeleryPipeline`: requests and executions that have begun go on
(asyncio, the Celery pool); ready messages are delivered, with strong fairness
because the executions are shared and a message may be unable to start for a
while; both Beat sweeps run for ever (`celery_app.py` schedules them) and publish
what they selected; delays and ages elapse. No user operation, no successful
extraction, no clean-up and no fault is fair: liveness may not depend on luck or
on a user. Faults are bounded, so `EveryJobSettles` reads "after the last fault".

`FairSpec` of `CircuitBreaker`: calls keep arriving and come back (strong, since
they compete for the instance's lock), the cooldown passes, the service recovers
at some time. Cancellations and key expiry are not fair.

`FairSpec` of `BrowserService`: timers fire, validation and launch return, and
Chromium exits once `browser.close()` has been called, since Playwright kills it
when it does not answer. Nothing is assumed of clients, pages, media servers, of
a process that was told to stop, or of `context.close()`: `EveryRequestConcludes` holds
although the tiers, the stream and the fallback may hang for ever, and
`NothingOutlivesTheRequest` rests on the kill timer and excepts a browser held by
its own `context.close()`.

`FairSpec` of `MediaCapture`: the timers of both tiers, and the set-up and detachment of
the CDP session, which do not need the page. No event of the page is fair and no
`page.evaluate`, to which Playwright gives no timeout; only once the signal is
aborted, when the browser is closed, do the evaluates end. `CaptureEnds` therefore excepts
a page that never answers tier 2 and is never aborted; what ends that capture is the request
timer, in `BrowserService`.

`FairSpec` of `HlsFallback`: a request ends with headers or
an error, a body ends or breaks off (the HTTP client drops a silent one), the
subprocesses end, which their own timers see to.

`FairSpec` of `Dashboard`: the reconnection timer fires, a connection is answered
in the end (refusals are bounded by `MaxUpsets`, so `StreamComesBack` reads
"once the server stops refusing"), the page handles the events it has, and a worker that
has committed publishes or loses the publish. No event is assumed to arrive.

## 5. Proofs

`CeleryPipelineProofs.tla`, for every number of jobs, executions, requests and
dead letters, every set of operations and faults and every bound, from the two
named assumptions on the constants:

- `TypeCorrect`: `Spec => []TypeOK`. `TypeOK` alone is not inductive: a step of a
  request indexes the tables with the job it remembers. `TypeInv` adds that a
  request past its first step and an execution in progress have a job
  (`RequestTargets`, `WorkerTargets`).
- `FailedIsDeadLettered`: if `cleanup_dlq` is not scheduled,
  `Spec => []FailedHasDlqRow`. The difficulty is a replay that loaded a dead
  letter some time ago and deletes it now. `Flush` explains why it is safe: if
  the replay loaded the job in any status but `pending`, its write makes the job
  pending again; if it loaded it as `pending`, its write leaves the status alone,
  and then a job that is failed by now must have failed later, under a newer dead
  letter with an id no request knows. The inductive invariant `DlqInv` says this:
  a failed job has a dead letter that no request `Dooms` (`LastingDlqRow`), dead
  letters point at rows that exist (`OriginalsExist`), and what a replay remembers
  of its dead letter is still true (`ReplaysAgree`). The proof has a frame lemma
  for steps that touch neither statuses nor dead letters (`QuietStep`), one for
  deletions (`DeleteStep`), one for removals of a dead letter (`RemovalStep`), and
  one lemma for each action that needs an argument of its own. The conjuncts of
  `DlqInv` were also model-checked on the instance of `CeleryDlq` and on one with
  two jobs.

The second theorem needs no assumption about faults: it covers lost workers,
cancellations, abandoned coroutines and any number of concurrent requests, where
the run covers two.

`BrowserServiceProofs.tla`, for any finite set of requests, any limit, any bound on
progress lines and any set of codes, from `ServiceAssumption` alone:

- `ErrorsArePublic`: whatever chain of causes a download throws, `classifyError`
  gives a public code or throws it on as a bug.
- `ServiceTypes`, `SlotsAreCounted`, `OutcomesAreUnique`,
  `SlotsAreReleasedStopped`, `StreamsEndOnce`, `FailuresLeaveNoFile`: every
  invariant that `BrowserRequests` checks. `SlotsAreReleasedStopped` is about
  `StoppedOrLeaving`, with the one exception that the code has (`StoppedWithTheSlot`,
  section 6).

They share one inductive invariant, `IInv`. The properties speak of the end of a
request, so they need what holds on the way: `Unconcluded` (a handler that has
not ended has answered, recorded and ended nothing, and only one past its
admission has a `download()`), `Stopped` (a handler that has ended has aborted, and
an aborted request has no live process, and no live browser but in the finally block; this
is what makes a launch that comes late safe) and `OnTheWayOut` (between the catch block and the
settlement a failed download has no file, and one in the tiers never had one). The
counter needs `active = Cardinality(Holders)`, which is kept by adding
or removing one request: the two lemmas on cardinality of the library. The steps
of the handler, of `download()` and of the processes are first reduced to their effect
on few variables (`HandlerEffect`, `DownloadStep`, `SettleConcludes`), so that each
part of the invariant has one short lemma (`SlotStep`, `OutcomeStep`, ...) rather
than one case per action each. `IInv` was model-checked on the instance of
`BrowserRequests` too.

`CircuitBreakerProofs.tla`, for any instances, any finite set of calls and any
thresholds, from `CircuitBreakerAssumption` alone:

- `BreakerTypes`: `Spec => []TypeOK`, inductive as it stands.
- `LocalSlotsNotLeaked`: `Spec => []NoSlotLeak`. `NoSlotLeak` needs `SlotIsAdmission`
  beside it: a call that was not admitted holds no slot, so the call that takes one
  adds a holder. `HoldersCount` says how the number of holders moves with one call,
  `SlotStep` reduces every step to one of three shapes (the counter follows the
  slot, is given back with it, or is zero), and the actions are then cases.
- `SharedKeysRule`: `Spec => SharedCooldownHolds`, from `BreakerTypes`.

`HalfOpenBound` is not among them: it is false with Redis (section 6).

`CeleryLifecycleProofs.tla`, for every number of jobs, executions, messages and
dead letters:

- `ExecutionsExclude`: `Spec => []NoDoubleProcessing`.
- `AttemptsAreKept`: `Spec => AttemptsNeverRefunded`.
- `ReplayedWithItsLetter`: `Spec => DeadLetterReplayed`, while `cleanup_dlq` does
  not run.
- `PipelineImplementsLifecycle`: `Spec => ImplementsLifecycle`, the refinement, for
  a set of operations and faults without replay, or without the fault that fails
  a transaction after its commit. (With both, the execution dead-letters a job
  that is completed, and a replay resets it.)

All four assume `ResetsAreExclusive`: no soft time limit leaves a coroutine
behind, and retry and replay of a job do not overlap (neither is in use, or
requests come one at a time and only one of the two is in use). Section 6 says
what happens otherwise; the theorems show that nothing else is needed, that is,
duplicated messages, lost workers, sweeps, cancellations and deletions at any
moment are harmless. `CeleryClaim` and `CeleryTwoJobs` are instances of the
hypothesis. The invariant `OwnerInv` rests on `OwnersHold`: an execution finds its row as
its claim left it, or deleted, or completed for good, and never aged. A reset
needs the mirror image of that: what has a dead letter is idle (`LettersAreIdle`),
and what a request is about to reset is as it was when it was read
(`ResetsAreCurrent`). Nearly every action does not start an execution, writes no
dead letter and moves no reset; `OwnerQuiet` says so, one lemma shows that such steps keep
the invariant, and the actions that are not quiet (claim, dead-lettering, the
steps of retry and replay) have a lemma each. The refinement adds `BudgetLeft`.
The assumption on the constants says that `None` is not a worker: `None` is the
owner of a free job in the refinement mapping.

`CeleryFilesProofs.tla`:

- `CompletedIsServed`: `Spec => []CompletedHasFile`, assuming `DeletionsFinish`: no
  process dies between removing a file and its row. If one does, a completed job
  is left without its file, since the code removes the file first. Invariant
  `FilesInv`: no two rows or executions name one file (`PathsDiffer`), a file under
  way is on disk (`InFlight`), and a path that a request has read belongs to the
  job it read or to nobody (`SnapsAreOld`).
- `FaultsCostOneFile`: `Spec => []OrphansAreLosses`, assuming `WebDeletesAndRetries`:
  jobs are deleted through the web route, by any number of concurrent requests, and
  reset by retries, one request at a time, and no coroutine outlives its task. The
  hypothesis is needed, and what it leaves out costs files without any fault: the
  API's delete may remove the row of a job in process, and two concurrent retries, or
  a retry and a replay, start two executions of one job, each with a file. (With
  replays alone TLC finds the property true on an instance with one job; it is not
  proved.) Invariant `LossInv`: `OwnerInv`; an execution before its verdict
  has its claim; a file is named only by an execution that has extracted it or by
  a completed row; a delete knows the path of its job; and the files that nobody
  names, or that a deletion under way is about to leave, are no more than the faults.
  The step lemma divides by what happens to the rows: nothing, a move of the worker
  that owns one, a deletion, the end of one, or a reset while nobody deletes.

`MediaCaptureProofs.tla`, for every page and all caps: `CaptureTypeCorrect`,
`MapsStayBounded`, `EarlyDrmReported`, `TimersStopped`, and `VerdictsJustified`, the
action property; every safety property of its run. `CaptureInv` adds to `TypeOK` that the
Maps have no key twice (`MapsInv`: without it, removing one entry would not make
room for another), what each stage of the two tiers has armed and decided (`StageInv`),
that a document which engaged DRM has its flag set, and that a document which did so
early, unless the first look threw, has not got past that look (`DrmInv`), and that only
clean manifests are handed on (`CleanInv`). `EarlyDrmReported` covers navigations and
checks that throw; its exceptions are an abort and a first look that threw, after
which the code itself may miss the flag (`DrmNeverMasked`, section 6).

`HlsFallbackProofs.tla`, for every web of playlists of any length and all limits:
`FallbackTypeCorrect`, `OnlyPlaintextWritten`, `DrmLeftAlone`; every
safety invariant of its passing run. Sites have the shape `SiteShape` gives them; the
second theorem also uses `CipherAssumption`, that a site encrypts its
segments as its playlists announce (`AnnouncedKey`: the last key tag, `NONE` included,
or else the session key), without which no client could decrypt them.
`FallbackInv`: what is fetched belongs to the stage (`FetchInv`), the segments are
those of the playlist at hand, which has no unusable key (`WalkInv`), and each part
is the plaintext of its segment (`PlainInv`), but where `NONE` has turned a session key
off (`TurnedOff`): there the code applies the session key, and what comes out may be
garbage. The heart is the lemma that the key `WalkPlaylist` gives any other
segment is the one `EncryptedAsAnnounced` speaks of.

`DashboardProofs.tla`, for any finite set of jobs, whatever URLs they have, and all bounds on
queues, listeners and upsets, from the two named assumptions on the constants:
`DashboardTypeCorrect`, `RowsAreUnique`, `SubmitLock`, `StreamHeard`,
`EndsAreShown`; every invariant of its runs. The last needs most of `DashInv`: while the
stream is open the last event under way for an ended job in `told` tells its end, or none
is under way and a row shows it (`EndsInv`). Only jobs in `told` can be spoken of: a publish
may be lost, and a snapshot cut or empty. An event is passed over when its
job is pending in htmx, so such a job must have a row or be gone (`PendingInv`), or
when an optimistic row has its URL, so an optimistic row must have a URL of the
form (`RowOK`). A row must not be lost either: it is taken out only if the job its
delete button names is gone, and that is the job it shows unless it was
optimistic; and de-duplication keeps the row of a job that has only one, so jobs
the form has nothing to do with have one at all times (`Clean`), where the others
have one only when the form is idle (`Tidy`). A snapshot tells each living job
once, because jobs are born one after the other (`ServerInv`, `SnapshotTells`).
The lemma `Frame` covers all steps that handle no event: there it is enough that
the rows of the other jobs stay (`Stay`). Each operation on the list of rows has one
lemma that says what it keeps (`RowsAtKeeps`, `InsertKeeps`, `EditKeeps`).

Every inductive invariant was model-checked on the instance of the run whose
properties it implies before it was proved.

Only model-checked: the liveness properties (`PendingIsPickedUp`,
`EveryJobSettles`, `BreakerRecovers`, `EveryRequestConcludes`,
`NothingOutlivesTheRequest`, `CaptureEnds`, `StreamEnds`, `StreamComesBack`), since liveness under
fairness is out of the prover's reach; and the equality of `classifyError`,
`pickVariantUrl` and `WalkPlaylist` with the loops they stand for, which would need
induction over data.

## 6. Where the code differs from what it says

The first has a run; `PROJECT.json` quotes the line.

- `BreakerStuckOpen` (`circuit_breaker.py:157`): the shared `last_failure` key
  expires after 120 s; a breaker that saw no call in time finds no key and never
  leaves OPEN.

The others are stated as properties in the modules, without a run in the
configurations kept here. Put in the place of the properties of a passing run of its
module (`CeleryDlq` for `NoDoubleProcessing`, `CeleryClaim` for the rest of the pipeline,
`BreakerShared`, `BrowserRequests`, `MediaCapture`, `HlsFallback`, `DashboardUpsets`),
each is violated.

- `CancelStopsTheTransfer` (`streamlink-backend.js:290`): the timer and the abort
  listener of a fetch end with its headers, so a cancelled download reads bodies to
  their end; line 13 says that the fetches have a timeout.
- `StoppedWithTheSlot` (`downloader.js:187`): the finally block removes its abort
  listener before it awaits `context.close()`; a timeout in between frees the slot
  while nobody has told the browser to close; line 77 says that nothing outlives the
  request.
- `DrmNeverMasked` (`tier2-dom.js:321`): a re-check that throws is skipped, and the
  deadline does not look again; DRM engaged late is reported as `no_media_found`.
- `TimersCleared` (`tier1-cdp.js:238`): a signal that is aborted on entry settles
  the promise before the timers are made. The fallthrough timer fires once, to no
  effect; the DRM interval is never cleared and goes on polling a closed page.
- `OutputAsAnnounced` (`streamlink-backend.js:779`): after `METHOD=NONE` the session key is
  used for segments in clear; mostly that throws, sometimes garbage is joined.
- `CredentialsGoWithStreamlink` (`streamlink-backend.js:923`, `956`): a write that fails half-way
  and an `unlink` that fails both leave the file with the credentials.
- `OpenStreamShowsEnds` (`sse.py:519`): the polling of the docstring starts only when
  both subscriptions have ended, so a publish that is lost after its commit is not made
  up for while the stream stays open.
- `NoDoubleProcessing` with retry and replay (`download_service.py:343`): retry
  leaves the dead letter behind; its replay resets the job while a worker
  processes it, and a second worker claims it. `celery_tasks.py:451` calls the
  operation idempotent.
- `BackoffRespected` (`celery_tasks.py:84`): the claim does not look at
  `next_retry_at`, so a surplus message starts a scheduled retry at once.
- `DlqRecordsTogether` (`celery_tasks.py:236`): an execution that has lost its job
  still inserts a dead letter; the docstring at line 206 says both records or
  neither.
- `NoOrphanFile` (`celery_tasks.py:129`): a job deleted while it is processed leaves its
  file behind, which the legacy worker would remove.
- `HalfOpenBound` (`circuit_breaker.py:386`): with shared keys, a success of a call
  admitted while closed gives back a slot it never took; one trial too many runs.
- `ClientGoneCancels` (`server.js:140-151`): the close listener is installed after
  the awaits of the validation; a client that leaves during them is not noticed.
- `BarHidesOnCompletion` (`openspec/.../frontend-progress-bar/spec.md:21-24`): the
  bar of a completed download stays visible.

Smaller observations made while modelling. Errors: a full disk (`ENOSPC`) is
reported as `network_error`; a bug without network evidence is thrown on by
`classifyError` and answered by `safeClassify` as `network_error` too. Service: the
load of the stealth plugin is tried once, and a failed one is kept. HLS: the
aggregate timer is cleared as soon as a master playlist is followed, because the
recursive call is returned and not awaited; a removal of the temporary directory that
fails is swallowed. Event stream: buffered events are compared with the snapshot by
`updated_at`, so one that is older than the snapshot is sent after it. Dashboard: cancelling the modal calls `issueRequest(false)`, on
which htmx asks again with the browser's dialog, and accepting that deletes after
all; after a successful deletion the id never enters `htmxPending`, since the
event's element has left its row; the row of a slow create response is
kept over the fresher one that events have made; a row converted from an optimistic one keeps
its made-up id in its delete button; progress events, which carry no URL, make
rows for jobs the page does not know, deleted ones included; an optimistic row
whose request got no answer stays.

## 7. Not modelled

- The legacy BRPOP worker with its relay, sweeper and dead-letter manager: not
  part of the production deployment. A model would have to show that no message
  is lost between outbox, Redis and table (`main.py:369` pops before the claim,
  `outbox_relay.py:147` pushes before it commits, `processor.py:188` too), that a
  failed job gets its dead letter (`dlq_manager.py:111` commits in two steps), that a
  cancelled job is requeued once (`job_executor.py:443`), and that shutdown
  (`main.py:186`) leaves no job behind. In that deployment `best_effort_enqueue`
  publishes to Celery and closes the outbox row (`download_service.py:455`).
- The warm pool of yt-dlp drivers (`yt_dlp_service.py:657`), and extraction.
- Authentication: a negative blacklist answer cached by another process stays
  valid for 2 s after a logout (`token_blacklist.py:85`).
- Of the server side of the event stream: the polling that begins when both
  subscriptions have ended (`sse.py:519`), the seen set beyond what a stale replay shows,
  the reconnection of a subscription, the cap of five streams per user.
- `validate.js`, the error classifier, the throttle predictor, health, metrics and
  chaos endpoints, configuration, templates, scripts: decisions without state, or
  reporting.
- Vendored scripts: redoc, swagger, htmx.

Left out of the modelled components: `replay_all` and the bulk delete of dead
letters, `schedule_retry` (legacy), the arithmetic of backoff, the chaos override
and Redis outages in the breaker. The TTL of `half_slots` (60 s) is modelled
(`SlotsGone`) for the counter that `acquire` has made; one below zero, which a later
DECR makes, has none in the code either. Of the browser-downloader: which headers are captured
for replay (`DRM_INIT_SCRIPT`), the patterns that recognise media and challenges,
the progress output of subprocesses, bodies the parser refuses for a reason other
than the listed ones. A signalled subprocess is assumed not to report success. Of the dashboard: jobs that go back to
pending (a scheduled retry, a retry through the API), statistics, skeleton, relative times, the health monitor with its banner (shown after 10 s
without an event, and stopped by `beforeunload` even if the page stays), keyboard
and focus.
