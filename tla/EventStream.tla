---------------------------- MODULE EventStream ----------------------------
(***************************************************************************)
(* The dashboard's event stream as the browser keeps it: the EventSource   *)
(* that sse.js opens on #sse-container and opens again when the server     *)
(* refuses it, and the listeners that dashboard.js moves to it.            *)
(*                                                                         *)
(* EventSource itself reconnects after a lost connection; a response that  *)
(* is not a stream closes it for good, and sse.js makes a new one.         *)
(***************************************************************************)
EXTENDS Integers, Sequences, FiniteSets, SequencesExt

CONSTANTS
  MaxBackoff,     \* the cap of retryCount: 128 in the code
  MaxUpsets       \* bound: connections lost or refused, and the user's clicks

ASSUME StreamAssumption == MaxBackoff \in Nat \ {0} /\ MaxUpsets \in Nat

VARIABLES
  conn,            \* readyState of the current source
  heard,           \* the source with the dashboard's listeners: dashboardState.sseSource
  retryCount, timer,
  upsets,
  statusQ,         \* job_update events on their way
  progressQ        \* progress_update events on their way

link == <<conn, heard, retryCount, timer>>
source == <<link, upsets>>
queues == <<statusQ, progressQ>>
stream == <<source, queues>>

Upset == upsets < MaxUpsets /\ upsets' = upsets + 1

InitStream ==
  /\ conn = "connecting" /\ heard = "none" /\ retryCount = 0 /\ timer = FALSE
  /\ upsets = 0 /\ statusQ = <<>> /\ progressQ = <<>>

-----------------------------------------------------------------------------
(* sse.js: ensureEventSource, ensureEventSourceOnElement; attachSSE *)

\* Variant: the first source keeps the listeners.
AttachOnce == heard' = IF heard = "none" THEN "current" ELSE heard

\* attachSSE: the listeners move from the former source to this one.
attachSSE == heard' = "current"

\* The stream begins with a snapshot of the user's jobs and what is replayed.
Opens(events) ==
  /\ conn = "connecting"
  /\ conn' = "open" /\ retryCount' = 0
  /\ attachSSE
  /\ statusQ' = events /\ progressQ' = <<>>
  /\ UNCHANGED <<timer, upsets>>

\* The connection is lost, with what was on its way; the same source connects again.
Drops ==
  /\ conn = "open" /\ Upset
  /\ conn' = "connecting"
  /\ statusQ' = <<>> /\ progressQ' = <<>>
  /\ UNCHANGED <<heard, retryCount, timer>>

NextBackoff ==
  LET doubled == IF retryCount * 2 < MaxBackoff THEN retryCount * 2 ELSE MaxBackoff
  IN  IF doubled < 1 THEN 1 ELSE doubled

\* Variant: the first refusal only is answered with a timer.
ArmFirstTime == timer' = (retryCount = 0)

ArmTimer == timer' = TRUE

Refused ==
  /\ conn = "connecting" /\ Upset
  /\ conn' = "closed"
  /\ retryCount' = NextBackoff /\ ArmTimer
  /\ UNCHANGED <<heard, queues>>

Reconnects ==
  /\ timer
  /\ timer' = FALSE /\ conn' = "connecting"
  /\ heard' = IF heard = "current" THEN "former" ELSE heard
  /\ UNCHANGED <<retryCount, upsets, queues>>

StreamStep == Drops \/ Refused \/ Reconnects
=============================================================================
