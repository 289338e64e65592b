----------------------------- MODULE Dashboard -----------------------------
(***************************************************************************)
(* The dashboard page (dashboard.js): its download rows, fed by the event  *)
(* stream, by the responses of the create form and the delete buttons, and *)
(* by the optimistic row shown while a create request is under way.  The   *)
(* server is seen through its event stream and its answers.                *)
(*                                                                         *)
(* htmx swaps a response in, then fires afterSwap, afterRequest and        *)
(* afterOnLoad; a request that gets no answer fires afterRequest only.     *)
(***************************************************************************)
EXTENDS EventStream

CONSTANTS
  Jobs, Urls,
  FormUrls,        \* URLs the user submits
  UrlChoices,      \* the URLs the jobs may have: functions of [Jobs -> Urls]
  Opt,             \* the id of an optimistic row
  SnapshotLimit,   \* jobs in a snapshot: 50 in the code
  MaxQueue,        \* bound: events on their way
  MaxListeners     \* bound: replace listeners at a time

ASSUME DashboardAssumption ==
  /\ Opt \notin Jobs /\ FormUrls \subseteq Urls /\ UrlChoices \subseteq [Jobs -> Urls]
  /\ IsFiniteSet(Jobs) /\ SnapshotLimit \in Nat
  /\ MaxQueue \in Nat /\ MaxListeners \in Nat

VARIABLES
  urlOf,
  job,         \* the server's status of each job
  born,        \* the order in which the jobs were created, 0 before
  toPublish,   \* the status a worker has committed and not yet published
  told,        \* history: the jobs whose end the open connection has carried
  rows,        \* .download-row elements, in document order
  form,        \* the create request: "idle", "sent", or "lost" without an answer
  formUrl, response,
  disabled,    \* the submit button
  replace,     \* replace listeners waiting for a job-update
  htmxPending

server  == <<urlOf, job, born, toPublish, told>>
request == <<form, formUrl, response, disabled, replace>>
dash    == <<rows, request, htmxPending>>
vars    == <<stream, server, dash>>

\* save: the Save link is visible; bar: it has a progress bar; path: the id its
\* delete button was made with; ask: "asked" while the modal asks about it,
\* then the state of its delete request.
Row(id, url, status, key, path) ==
  [id |-> id, url |-> url, status |-> status, key |-> key, path |-> path,
   save |-> status = "completed", bar |-> FALSE, ask |-> "no"]

Now == Cardinality({j \in Jobs : born[j] > 0}) + 1

\* createDownloadRow
NewRow(j, status, key) == Row(j, urlOf[j], status, key, j)
OptimisticRow(url) == Row(Opt, url, "pending", Now, Opt)
\* _download_item.html: a row without sort key
ServerRow(j, status) == Row(j, urlOf[j], status, 0, j)

-----------------------------------------------------------------------------
(* Rows *)

Positions(rs, id) == {k \in DOMAIN rs : rs[k].id = id}
HasRow(rs, id) == Positions(rs, id) # {}
\* querySelector: the first row of that id
First(S) == CHOOSE k \in S : \A m \in S : k <= m
RowAt(rs, id) == First(Positions(rs, id))

\* The rows at some positions, in document order.
Position(S, n) == CHOOSE k \in S : Cardinality({m \in S : m <= k}) = n
RowsAt(rs, S) == [n \in 1..Cardinality(S) |-> rs[Position(S, n)]]

\* insertRowSorted: before the first row with a smaller key.
insertRowSorted(rs, row) ==
  LET smaller == {k \in DOMAIN rs : rs[k].key < row.key}
  IN  IF smaller = {} THEN Append(rs, row) ELSE InsertAt(rs, First(smaller), row)

\* updateDownloadRow leaves the progress bar as it is.
updateDownloadRow(row, status) ==
  [row EXCEPT !.status = status, !.save = (status = "completed")]

\* Variant: only the optimistic rows are removed.
RemoveOptimistic(rs) == RowsAt(rs, {k \in DOMAIN rs : rs[k].id # Opt})

\* The afterOnLoad handler keeps the first row of each job and no optimistic row.
Dedupe(rs) ==
  RowsAt(rs, {k \in DOMAIN rs : rs[k].id # Opt /\ k = RowAt(rs, rs[k].id)})

-----------------------------------------------------------------------------
(* The server *)

Create(j) ==
  /\ job' = [job EXCEPT ![j] = "pending"] /\ born' = [born EXCEPT ![j] = Now]
  /\ UNCHANGED <<urlOf, toPublish, told>>

\* From another tab; a creation is not published.
CreatedElsewhere(j) ==
  /\ job[j] = "absent" /\ Create(j)
  /\ UNCHANGED <<stream, dash>>

\* A claim, a completion, a dead letter is committed; its execution publishes it
\* before it goes on.
WorkerStep(j, status) ==
  /\ toPublish[j] = "none"
  /\ \/ job[j] = "pending" /\ status = "processing"
     \/ job[j] = "processing" /\ status \in {"completed", "failed"}
  /\ job' = [job EXCEPT ![j] = status]
  /\ toPublish' = [toPublish EXCEPT ![j] = status]
  /\ UNCHANGED <<stream, urlOf, born, told, dash>>

\* publish_job_status
Ends == {j \in Jobs : job[j] \in {"completed", "failed"}}
Publish(j) ==
  /\ toPublish[j] # "none" /\ conn = "open" /\ Len(statusQ) + Len(progressQ) < MaxQueue
  /\ statusQ' = Append(statusQ, [id |-> j, status |-> toPublish[j]])
  /\ toPublish' = [toPublish EXCEPT ![j] = "none"] /\ told' = told \cup ({j} \cap Ends)
  /\ UNCHANGED <<source, progressQ, urlOf, job, born, dash>>

\* Redis fails, which is only logged; the worker is lost after its commit; or
\* nobody listens: no stream, or one between its two subscriptions.
PublishLost(j) ==
  /\ toPublish[j] # "none"
  /\ toPublish' = [toPublish EXCEPT ![j] = "none"]
  /\ UNCHANGED <<stream, urlOf, job, born, told, dash>>

Progresses(j) ==
  /\ job[j] = "processing" /\ toPublish[j] = "none"
  /\ conn = "open" /\ Len(statusQ) + Len(progressQ) < MaxQueue
  /\ progressQ' = Append(progressQ, j)
  /\ UNCHANGED <<source, statusQ, server, dash>>

\* _emit_initial_snapshot: the newest jobs, in descending order of creation.
Alive == {j \in Jobs : job[j] \notin {"absent", "deleted"}}
Snapshot ==
  LET times == {born[j] : j \in Alive}
      count == Cardinality(times)
      Nth(n) == CHOOSE j \in Alive : born[j] = Position(times, count + 1 - n)
  IN  [n \in 1..(IF count < SnapshotLimit THEN count ELSE SnapshotLimit) |->
         [id |-> Nth(n), status |-> job[Nth(n)]]]

\* _replay_buffered_events: an event that was published before the snapshot was
\* read, and is older than it, is not recognised: one at most, in this model.
Overtaken ==
  {[id |-> j, status |-> "processing"] :
     j \in {i \in Jobs : job[i] \in {"completed", "failed", "deleted"}}}

\* When the query fails the snapshot is empty.
Ids(events) == {events[n].id : n \in DOMAIN events}
StreamOpens ==
  \E snapshot \in {Snapshot, <<>>}, replay \in {<<>>} \cup {<<e>> : e \in Overtaken} :
    /\ Opens(snapshot \o replay)
    /\ told' = (Ends \cap Ids(snapshot)) \ Ids(replay)
    /\ UNCHANGED <<urlOf, job, born, toPublish, dash>>

\* The connection is lost, refused or made anew.
StreamEnds == StreamStep /\ told' = {} /\ UNCHANGED <<urlOf, job, born, toPublish, dash>>

-----------------------------------------------------------------------------
(* Events *)

\* handleJobUpdate, and what the replace listeners do after it.
KnowsUrl(rs, url) == HasRow(rs, Opt) /\ rs[RowAt(rs, Opt)].url = url

\* Variant: only the rows there are are updated.
UpdateKnown(j, status) ==
  IF HasRow(rows, j)
  THEN [rows EXCEPT ![RowAt(rows, j)] = updateDownloadRow(@, status)]
  ELSE rows

HandleJobUpdate(j, status) ==
  IF HasRow(rows, j)
  THEN [rows EXCEPT ![RowAt(rows, j)] = updateDownloadRow(@, status)]
  ELSE IF j \in htmxPending \/ KnowsUrl(rows, urlOf[j]) THEN rows
  ELSE insertRowSorted(rows, NewRow(j, status, born[j]))

\* The optimistic row becomes the job's, but for its delete button.
Replaces(rs, j) == replace > 0 /\ KnowsUrl(rs, urlOf[j])
Convert(rs, j, status) ==
  [rs EXCEPT ![RowAt(rs, Opt)] = [updateDownloadRow(@, status) EXCEPT !.id = j]]

JobUpdate ==
  /\ conn = "open" /\ heard = "current" /\ statusQ # <<>>
  /\ LET e == Head(statusQ)
         handled == HandleJobUpdate(e.id, e.status)
     IN  IF Replaces(handled, e.id)
         THEN rows' = Convert(handled, e.id, e.status) /\ replace' = replace - 1
         ELSE rows' = handled /\ UNCHANGED replace
  /\ statusQ' = Tail(statusQ)
  /\ UNCHANGED <<source, progressQ, server, form, formUrl, response, disabled, htmxPending>>

\* handleProgressUpdate: the event names no URL, so an optimistic row is not
\* recognised, and htmxPending is not looked at.
ProgressUpdate ==
  /\ conn = "open" /\ heard = "current" /\ progressQ # <<>>
  /\ LET j == Head(progressQ)
         seen == IF HasRow(rows, j) THEN rows
                 ELSE insertRowSorted(rows, [NewRow(j, "processing", Now)
                                               EXCEPT !.url = ""])
     IN  rows' = [seen EXCEPT ![RowAt(seen, j)].bar = TRUE]
  /\ progressQ' = Tail(progressQ)
  /\ UNCHANGED <<source, statusQ, server, request, htmxPending>>

-----------------------------------------------------------------------------
(* The create form *)

\* hx-sync drops a submission while one is under way; beforeRequest: the
\* optimistic row, unless it is there already, and the button.
Submit(url) ==
  /\ form # "sent" /\ replace < MaxListeners /\ Upset
  /\ form' = "sent" /\ formUrl' = url /\ response' = "none" /\ disabled' = TRUE
  /\ IF KnowsUrl(rows, url) THEN UNCHANGED <<rows, replace>>
     ELSE /\ rows' = insertRowSorted(RemoveOptimistic(rows), OptimisticRow(url))
          /\ replace' = replace + 1
  /\ UNCHANGED <<link, queues, server, htmxPending>>

\* 30 s after its submission.
ReplaceExpires ==
  /\ replace > 0 /\ replace' = replace - 1
  /\ UNCHANGED <<stream, server, rows, form, formUrl, response, disabled,
                 htmxPending>>

Accepts(j) ==
  /\ form = "sent" /\ response = "none" /\ job[j] = "absent" /\ urlOf[j] = formUrl
  /\ Create(j) /\ response' = j
  /\ UNCHANGED <<stream, rows, form, formUrl, disabled, replace, htmxPending>>
Rejects ==
  /\ form = "sent" /\ response = "none"
  /\ response' = "error"
  /\ UNCHANGED <<stream, server, rows, form, formUrl, disabled, replace, htmxPending>>

\* Variant: every finished request counts as the form's.
AnyRequestEnables == disabled' = FALSE

\* afterRequest, isDownloadFormRequest
EnableAfterForm == disabled' = FALSE
EnableAfterDelete == UNCHANGED disabled

\* The response carries the row as it was created, and goes on top.
CreateLoads ==
  /\ form = "sent" /\ response # "none"
  /\ IF response = "error" THEN rows' = Dedupe(rows)
     ELSE rows' = Dedupe(<<ServerRow(response, "pending")>> \o rows)
  /\ form' = "idle" /\ response' = "none" /\ EnableAfterForm
  /\ UNCHANGED <<source, queues, server, formUrl, replace, htmxPending>>

CreateLost ==
  /\ form = "sent"
  /\ form' = "lost" /\ response' = "none" /\ EnableAfterForm
  /\ UNCHANGED <<stream, server, rows, formUrl, replace, htmxPending>>

-----------------------------------------------------------------------------
(* Deleting *)

Ask(k, state) == rows' = [rows EXCEPT ![k].ask = state]

\* Variant: the page can be clicked under the modal.
ClickUnderModal(k) ==
  /\ rows[k].ask = "no"
  /\ Ask(k, "asked") /\ Upset
  /\ UNCHANGED <<link, queues, server, request, htmxPending>>

\* htmx:confirm opens the modal, which covers the page.
ClickDelete(k) ==
  /\ rows[k].ask = "no" /\ \A m \in DOMAIN rows : rows[m].ask # "asked"
  /\ Ask(k, "asked") /\ Upset
  /\ UNCHANGED <<link, queues, server, request, htmxPending>>

\* closeModal(true), or closeModal(false): then issueRequest(false) makes htmx
\* ask again with the browser's own dialog, which may be accepted.
closeModal(k) ==
  /\ rows[k].ask = "asked"
  /\ \E answer \in {"sent", "no"} : Ask(k, answer)
  /\ UNCHANGED <<stream, server, request, htmxPending>>

ServerDeletes(k) ==
  /\ rows[k].ask = "sent"
  /\ IF rows[k].path \in Jobs /\ job[rows[k].path] \in {"completed", "failed"}
     THEN job' = [job EXCEPT ![rows[k].path] = "deleted"] /\ Ask(k, "deleted")
     ELSE UNCHANGED job /\ Ask(k, "refused")
  /\ UNCHANGED <<stream, urlOf, born, toPublish, told, request, htmxPending>>

\* The row is swapped out: afterOnLoad is fired on an element outside of any
\* row, and htmxPending stays as it is.
DeleteLoads(k) ==
  /\ rows[k].ask = "deleted"
  /\ rows' = Dedupe(RowsAt(rows, DOMAIN rows \ {k})) /\ EnableAfterDelete
  /\ UNCHANGED <<stream, server, form, formUrl, response, replace, htmxPending>>
DeleteRefused(k) ==
  /\ rows[k].ask = "refused"
  /\ rows' = Dedupe([rows EXCEPT ![k].ask = "no"])
  /\ htmxPending' = htmxPending \cup {rows[k].id} /\ EnableAfterDelete
  /\ UNCHANGED <<stream, server, form, formUrl, response, replace>>
DeleteLost(k) ==
  /\ rows[k].ask \in {"sent", "deleted", "refused"}
  /\ Ask(k, "no") /\ EnableAfterDelete
  /\ UNCHANGED <<stream, server, form, formUrl, response, replace, htmxPending>>

\* 3 s later.
PendingExpires(id) ==
  /\ id \in htmxPending /\ htmxPending' = htmxPending \ {id}
  /\ UNCHANGED <<stream, server, rows, request>>

-----------------------------------------------------------------------------
(* The page *)

\* The server renders the downloads there are: one at most, in these instances.
Init ==
  /\ InitStream
  /\ urlOf \in UrlChoices
  /\ \E shown \in {{}} \cup {{j} : j \in Jobs} :
       /\ job = [j \in Jobs |-> IF j \in shown THEN "pending" ELSE "absent"]
       /\ born = [j \in Jobs |-> IF j \in shown THEN 1 ELSE 0]
       /\ IF shown = {} THEN rows = <<>>
          ELSE \E j \in shown : rows = <<ServerRow(j, "pending")>>
  /\ toPublish = [j \in Jobs |-> "none"] /\ told = {}
  /\ form = "idle" /\ formUrl = "none" /\ response = "none"
  /\ disabled = FALSE
  /\ replace = 0 /\ htmxPending = {}

ServerStep == \E j \in Jobs :
  \/ CreatedElsewhere(j) \/ Accepts(j)
  \/ Publish(j) \/ PublishLost(j) \/ Progresses(j)
  \/ \E status \in {"processing", "completed", "failed"} : WorkerStep(j, status)
UserStep ==
  \/ \E url \in FormUrls : Submit(url)
  \/ \E k \in DOMAIN rows : ClickDelete(k) \/ closeModal(k)
AnswerStep ==
  \/ Rejects \/ CreateLoads \/ CreateLost
  \/ \E k \in DOMAIN rows :
       ServerDeletes(k) \/ DeleteLoads(k) \/ DeleteRefused(k) \/ DeleteLost(k)
TimerStep == ReplaceExpires \/ \E id \in htmxPending : PendingExpires(id)

Next ==
  \/ StreamOpens \/ StreamEnds
  \/ ServerStep \/ JobUpdate \/ ProgressUpdate
  \/ UserStep \/ AnswerStep \/ TimerStep

\* The browser's timer fires and a connection is answered in the end, the page
\* handles its events, and a worker either publishes or does not.
Fairness ==
  /\ WF_vars(StreamEnds /\ Reconnects) /\ WF_vars(StreamOpens)
  /\ WF_vars(JobUpdate)
  /\ \A j \in Jobs : WF_vars(Publish(j) \/ PublishLost(j))

Spec == Init /\ [][Next]_vars
FairSpec == Spec /\ Fairness

-----------------------------------------------------------------------------
(* Properties *)

\* Every variable keeps its type, there is one optimistic row at most, and the
\* modal asks about one row: dashboard.js 47-76, 363-411.
TypeOK ==
  /\ conn \in {"connecting", "open", "closed"} /\ heard \in {"none", "current", "former"}
  /\ retryCount \in 0..MaxBackoff
  /\ {timer, disabled} \subseteq BOOLEAN
  /\ form \in {"idle", "sent", "lost"} /\ response \in Jobs \cup {"none", "error"}
  /\ replace \in 0..MaxListeners /\ htmxPending \subseteq Jobs \cup {Opt}
  /\ Cardinality(Positions(rows, Opt)) <= 1
  /\ Cardinality({k \in DOMAIN rows : rows[k].ask = "asked"}) <= 1

\* Once the create request has been answered every job has one row at most and
\* the optimistic row is gone, whatever came first, the answer, the job's events
\* or those of another job with the same URL: dashboard.js 229-245.
OneRowPerJob ==
  form = "idle" =>
    /\ ~HasRow(rows, Opt)
    /\ \A j \in Jobs : Cardinality(Positions(rows, j)) <= 1

\* The submit button is disabled while a create request is under way and only
\* then, whatever the delete buttons do meanwhile: dashboard.js 429-437.
SubmitLockedWhileSent == disabled <=> form = "sent"

\* An open stream is heard: the dashboard's listeners are on the current
\* source, not on one that was closed: dashboard.js 296-307, 334-336.
OpenStreamIsHeard == conn = "open" => heard = "current"

\* Once the server stops refusing, the page has an open stream again, however
\* many times and in whatever order the connection was lost and refused before:
\* sse.js 193-229.
StreamComesBack == conn # "open" ~> conn = "open"

\* Once the stream is open and quiet, every job that has ended and whose end the
\* connection has carried, in its snapshot or as an event, is shown with that
\* status, and with a Save link exactly if it is completed, whatever was lost
\* before and whatever requests are under way: dashboard.js 248-267, 661-673,
\* 728-750, sse.py 67-107.  Not so for a URL the form was used with: an
\* optimistic row hides its jobs, and when the answer comes late the row it
\* brings replaces a fresher one.
ShowsEnd(j) == \E k \in DOMAIN rows :
  /\ rows[k].id = j /\ rows[k].status = job[j]
  /\ rows[k].save <=> job[j] = "completed"
QuietStreamShowsEnds ==
  conn = "open" /\ statusQ = <<>> =>
    \A j \in told \cap Ends : urlOf[j] \notin FormUrls => ShowsEnd(j)

\* While a stream stays open the end of a job is shown sooner or later: "Each
\* stream holds two Redis pub/sub subscriptions plus a 10s DB polling loop"
\* (sse.py 552-554).
OpenStreamShowsEnds ==
  \A j \in Jobs :
    <>[](conn = "open" /\ j \in Ends /\ urlOf[j] \notin FormUrls) => <>ShowsEnd(j)

\* When a job is completed its progress bar is hidden
\* (openspec/changes/download-progress-bar/specs/frontend-progress-bar/spec.md 21-24).
BarHidesOnCompletion == \A k \in DOMAIN rows : rows[k].status = "completed" => ~rows[k].bar
=============================================================================
