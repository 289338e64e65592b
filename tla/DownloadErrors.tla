--------------------------- MODULE DownloadErrors ---------------------------
(***************************************************************************)
(* errors.js: what a failed download is called.                            *)
(*                                                                         *)
(* A thrown value is the sequence of its links: the error itself, its      *)
(* cause, the cause of that, and so on.  A chain that closes on itself is  *)
(* the sequence of its distinct links, which is all that the walk visits.  *)
(* Of the text of an error only hint matters here: its name or its message *)
(* speaks of the network.                                                  *)
(***************************************************************************)
EXTENDS Naturals, Sequences

\* The public codes of a failed download.
ErrorCodes == {"drm_detected", "anti_bot_block", "network_error", "timeout",
               "no_media_found", "storage_error"}

NetworkErrnos == {"ENOTFOUND", "ECONNREFUSED", "ECONNRESET", "ECONNABORTED",
                  "EPIPE", "EHOSTUNREACH", "ENETUNREACH", "EAI_AGAIN",
                  "ERR_NETWORK", "ERR_HTTP2_STREAM_ERROR"}
TimeoutErrnos == {"ETIMEDOUT", "ERR_SOCKET_CONNECTION_TIMEOUT"}
BugCtors == {"TypeError", "ReferenceError", "SyntaxError", "RangeError"}

\* One error: its class, its string code if it has one, its wording.
Link(ctor, code, hint) == [ctor |-> ctor, code |-> code, hint |-> hint]

DownloaderError(code) == <<Link("DownloaderError", code, FALSE)>>

\* causeIsNetwork: the first link itself is not looked at.
causeIsNetwork(err) == \E i \in 2..Len(err) :
  \/ err[i].code \in NetworkErrnos \cup TimeoutErrnos
  \/ err[i].ctor = "DownloaderError" /\ err[i].code \in {"network_error", "timeout"}
  \/ err[i].ctor = "AbortError"
  \/ err[i].hint

isBug(err) == err[1].ctor \in BugCtors /\ ~causeIsNetwork(err)

\* Link i of the chain has an answer of its own.  Any other is a TypeError that
\* leaves the answer to its cause.
Decides(err, i) ==
  \/ err[i].ctor # "TypeError" \/ i = Len(err)
  \/ err[i].code \in NetworkErrnos \cup TimeoutErrnos
  \/ isBug(SubSeq(err, i, Len(err)))

\* classifyError: a public code, or "bug" when the error is thrown on.  A cause
\* that is thrown on is caught by the error it is the cause of.
classifyError(err) ==
  LET first == CHOOSE i \in 1..Len(err) :
                 Decides(err, i) /\ \A j \in 1..(i - 1) : ~Decides(err, j)
      link  == err[first]
  IN  IF isBug(SubSeq(err, first, Len(err)))
      THEN IF first = 1 THEN "bug" ELSE "network_error"
      ELSE IF link.ctor = "DownloaderError"  THEN link.code
      ELSE IF link.code \in TimeoutErrnos    THEN "timeout"
      ELSE IF link.code \in NetworkErrnos    THEN "network_error"
      ELSE IF link.ctor = "AbortError"       THEN "timeout"
      ELSE "network_error"

-----------------------------------------------------------------------------
(* The other errors that reach the service, by where they come from.       *)

\* Playwright, the validations of validate.js: an Error without a code.
PlainError == <<Link("Error", "none", FALSE)>>
\* A file system call, for want of space.
NoSpace == <<Link("Error", "ENOSPC", FALSE)>>
\* fetch, when its signal is aborted, and when the transport fails.
FetchAborted == <<Link("AbortError", "none", TRUE)>>
FetchFailed(errno) == <<Link("TypeError", "none", TRUE), Link("Error", errno, FALSE)>>
\* A mistake in the service's own code.
CodeBug == <<Link("TypeError", "none", FALSE)>>
=============================================================================
