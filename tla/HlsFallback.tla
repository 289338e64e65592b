---------------------------- MODULE HlsFallback ----------------------------
(***************************************************************************)
(* One downloadStream (streamlink-backend.js): the streamlink process, and *)
(* the fallback for HLS, which follows master playlists, fetches keys and  *)
(* segments with retries over several credential contexts, decrypts, and   *)
(* joins the segments with ffmpeg.                                         *)
(*                                                                         *)
(* The web is the variable site: what its URLs hold.  Text is reduced to   *)
(* the tags that are looked at, a body to the name of its plaintext.       *)
(***************************************************************************)
EXTENDS Integers, Sequences, FiniteSets, SequencesExt

CONSTANTS
  Sites,          \* sites the page may stream from: see SiteShape
  Blocked,        \* URLs that validateUrl refuses
  MAX_DEPTH, MAX_REDIRECTS, MAX_RETRIES

Clear   == [uri |-> "none", iv |-> -1]      \* no key
Garbled == "garbled"

\* hls: the URL ends in .m3u8; auth: headers were captured; playlists, by URL;
\* cipher: the key and IV each segment was encrypted with.  An AES-128 tag
\* names its key, no other does.
VariantShape(s) == [url : DOMAIN s.playlists \cup Blocked \cup {""}, bandwidth : Nat]
LineShape(s) ==
  LET Tag(method, key) == [tag : {"key", "session"}, method : method, key : key]
  IN  [tag : {"segment"}, uri : DOMAIN s.cipher]
      \cup Tag({"AES-128"}, [uri : STRING \ {"none"}, iv : Int])
      \cup Tag(STRING \ {"AES-128"}, {Clear})
SiteShape(s) ==
  /\ s.hls \in BOOLEAN /\ s.auth \in BOOLEAN /\ s.start \in DOMAIN s.playlists
  /\ \A u \in DOMAIN s.playlists :
       LET p == s.playlists[u]
       IN  /\ p.kind \in {"html", "drm", "live", "master", "media"}
           /\ p.kind = "master" => p.variants \in Seq(VariantShape(s))
           /\ p.kind = "media" => /\ p.lines \in Seq(LineShape(s))
                                  /\ p.mediaSequence \in Nat
  /\ Garbled \notin DOMAIN s.cipher /\ "throws" \notin DOMAIN s.cipher

ASSUME FallbackAssumption ==
  /\ \A s \in Sites : SiteShape(s)
  /\ MAX_DEPTH \in Nat /\ MAX_REDIRECTS \in Nat /\ MAX_RETRIES \in Nat

VARIABLES
  site,
  pc,         \* where the download is
  url, depth, \* of the playlist the fallback is at
  parent,     \* opts.signal.aborted
  aggregate,  \* the fallback's own signal is aborted
  aggTimer,   \* aggregateTimer
  job,        \* the fetch under way
  segments,   \* with the key each is to be decrypted with
  keyCache,   \* key URIs fetched
  parts,      \* plaintexts written to the temporary directory
  dir,        \* the temporary directory exists
  conf,       \* the credential file exists
  verdict

vars == <<site, pc, url, depth, parent, aggregate, aggTimer, job, segments,
          keyCache, parts, dir, conf, verdict>>
walk   == <<url, depth, segments, keyCache, parts>>
signals == <<parent, aggregate, aggTimer>>

Idle == [what |-> "nothing", ctx |-> 1, attempt |-> 0, hops |-> 0, at |-> "idle"]

Init ==
  /\ site \in Sites
  /\ pc = "start" /\ url = site.start /\ depth = 0
  /\ parent = FALSE /\ aggregate = FALSE /\ aggTimer = "none"
  /\ job = Idle /\ segments = <<>> /\ keyCache = {} /\ parts = <<>>
  /\ dir = FALSE /\ conf = FALSE /\ verdict = "none"

-----------------------------------------------------------------------------
(* Playlists *)

Playlist == site.playlists[url]

\* pickVariantUrl: an entry without a URI of its own, or whose URL is refused,
\* is skipped; of equal bandwidths the first is kept.
Usable(variants) == {i \in DOMAIN variants : variants[i].url \notin Blocked \cup {""}}
Outranks(variants, i, k) ==
  \/ variants[i].bandwidth > variants[k].bandwidth
  \/ variants[i].bandwidth = variants[k].bandwidth /\ i < k
pickVariantUrl(variants) ==
  IF Usable(variants) = {} THEN ""
  ELSE variants[CHOOSE i \in Usable(variants) :
                  \A k \in Usable(variants) : ~Outranks(variants, k, i)].url

\* parseHlsKeyTag: anything but AES-128 is no key.  "bad": AES-128 with a
\* foreign KEYFORMAT or without URI, which it refuses.
parseHlsKeyTag(tag) == IF tag.method = "AES-128" THEN tag.key ELSE Clear

\* Variant: tags with a foreign KEYFORMAT are taken like the others.
NoBadKey(lines) == FALSE

\* The walk over a media playlist: a tag applies to the segments that follow,
\* until the next of its kind; the session key to those without another key.
SegmentLines(lines) == {i \in DOMAIN lines : lines[i].tag = "segment"}
Number(lines, i) == Cardinality({m \in SegmentLines(lines) : m <= i})
TagsBefore(lines, tag, i) == {m \in 1..(i - 1) : lines[m].tag = tag}
KeyBefore(lines, tag, i) ==
  LET tags == TagsBefore(lines, tag, i)
  IN  IF tags = {} THEN Clear
      ELSE parseHlsKeyTag(lines[CHOOSE m \in tags : \A n \in tags : n <= m])
SegmentKey(lines, i) ==
  IF KeyBefore(lines, "key", i) # Clear THEN KeyBefore(lines, "key", i)
  ELSE KeyBefore(lines, "session", i)
WalkPlaylist(lines) ==
  [k \in 1..Cardinality(SegmentLines(lines)) |->
    LET i == CHOOSE i \in SegmentLines(lines) : Number(lines, i) = k
    IN  [uri |-> lines[i].uri, key |-> SegmentKey(lines, i)]]
HasBadKey(lines) == \E i \in DOMAIN lines :
  lines[i].tag # "segment" /\ lines[i].method = "AES-128" /\ lines[i].key.uri = "bad"

\* Each segment is encrypted as its playlist announces: by the last key tag
\* before it, or else the last session key, with the IV of that tag or, without
\* one, the segment's media sequence number.
AnnouncedKey(lines, i) ==
  IF TagsBefore(lines, "key", i) # {} THEN KeyBefore(lines, "key", i)
  ELSE KeyBefore(lines, "session", i)
EncryptedAsAnnounced(s) ==
  \A u \in {v \in DOMAIN s.playlists : s.playlists[v].kind = "media"} :
    LET p == s.playlists[u]
    IN  \A i \in SegmentLines(p.lines) :
          LET key == AnnouncedKey(p.lines, i)
          IN  s.cipher[p.lines[i].uri] =
                IF key = Clear \/ key.iv # -1 THEN key
                ELSE [key EXCEPT !.iv = p.mediaSequence + Number(p.lines, i) - 1]
ASSUME CipherAssumption == \A s \in Sites : EncryptedAsAnnounced(s)

\* Variant: the default IV is the sequence number of the playlist's start.
PlaylistIv(key, mediaSequence, i) ==
  IF key.iv # -1 THEN key.iv ELSE mediaSequence

\* decryptHlsSegment, what it may give: the IV is the tag's, or the segment's
\* media sequence.  With another key or IV than the cipher's the padding of the
\* last block decides: mostly it is refused, sometimes it happens to be right.
DecryptIv(key, mediaSequence, i) ==
  IF key.iv # -1 THEN key.iv ELSE mediaSequence + i - 1
Decrypt(seg, mediaSequence, i) ==
  LET cipher == site.cipher[seg.uri]
  IN  IF seg.key = Clear THEN {IF cipher = Clear THEN seg.uri ELSE Garbled}
      ELSE IF cipher = [seg.key EXCEPT !.iv = DecryptIv(seg.key, mediaSequence, i)]
      THEN {seg.uri}
      ELSE {Garbled, "throws"}

-----------------------------------------------------------------------------
(* The end *)

\* The finally blocks, from inside out: temporary directory, aggregate timer;
\* the credential file goes with streamlink.  Removals may fail unnoticed.
RemoveDir == dir' \in {FALSE, dir}
StopTimer == aggTimer' = IF aggTimer = "armed" THEN "cleared" ELSE aggTimer
RemoveConf == conf' \in IF pc = "streamlink" THEN {FALSE, conf} ELSE {conf}
Close(result) ==
  /\ pc' = "done" /\ verdict' = result
  /\ RemoveDir /\ StopTimer /\ job' = Idle
  /\ UNCHANGED <<site, walk, parent, aggregate>>
Finish(result) == Close(result) /\ RemoveConf

-----------------------------------------------------------------------------
(* fetchResWithRetry, fetchResOne, fetchOnce, readBodyCapped *)

\* contextCandidates: two credential modes, twice when headers were captured.
Contexts == IF site.auth THEN 4 ELSE 2

Fetch(what) == job' = [Idle EXCEPT !.what = what, !.at = "request"]
JobStep == UNCHANGED <<site, pc, walk, signals, dir, conf, verdict>>

\* The headers arrive.  From here neither the timer nor the signal reaches the
\* transfer: fetchOnce has cleared the one and unhooked the other.
RequestOk ==
  /\ job.at = "request" /\ ~aggregate
  /\ job' = [job EXCEPT !.at = "body"]
  /\ JobStep

\* A redirect, to a URL that is validated first.
RequestRedirected ==
  /\ job.at = "request" /\ ~aggregate /\ job.hops < MAX_REDIRECTS
  /\ job' = [job EXCEPT !.hops = @ + 1]
  /\ JobStep

\* Variant: the count is compared with the limit one too late.
RetryOnceMore(attempt) == attempt <= MAX_RETRIES

\* A failure that is tried again: after a pause in this context, or at once in
\* the next.  Transport, 5xx, timeout, abort, too many redirects, too large.
RetryDelay(attempt) == attempt < MAX_RETRIES
RequestFails ==
  /\ job.at = "request"
  /\ IF RetryDelay(job.attempt)
     THEN job' = [job EXCEPT !.at = "sleep"] /\ JobStep
     ELSE IF job.ctx < Contexts
     THEN job' = [job EXCEPT !.ctx = @ + 1, !.attempt = 0, !.hops = 0] /\ JobStep
     ELSE \E result \in {"network_error", "timeout"} : Finish(result)

\* sleep(retryDelayMs(attempt)) is over; it does not look at the signal.
RetryAfterSleep ==
  /\ job.at = "sleep"
  /\ job' = [job EXCEPT !.at = "request", !.attempt = @ + 1, !.hops = 0]
  /\ JobStep

\* 401, 403, 404, 410, or a redirect to a refused host: not tried again.
RequestDenied ==
  /\ job.at = "request" /\ ~aggregate
  /\ Finish("network_error")

\* The body breaks off or passes its cap: not tried again either.
BodyFails ==
  /\ job.at = "body"
  /\ Finish("network_error")

-----------------------------------------------------------------------------
(* downloadStream *)

\* validateUrl, then writeAuthHeaderConfig.  When its write fails, what it has
\* written stays: the finally block does not know the path yet.
Prepare ==
  /\ pc = "start"
  /\ IF url \in Blocked THEN Finish("network_error")
     ELSE \/ /\ pc' = "streamlink" /\ conf' = site.auth
             /\ UNCHANGED <<site, walk, signals, job, dir, verdict>>
          \/ site.auth /\ Close("io_error") /\ conf' \in BOOLEAN

\* The finally block of the credential file does not wait for the fallback that
\* is returned.
StreamlinkSucceeds ==
  /\ pc = "streamlink" /\ ~parent
  /\ Finish("success")
StreamlinkFails ==
  /\ pc = "streamlink"
  /\ IF ~site.hls THEN Finish("network_error")
     ELSE /\ pc' = "manifest" /\ RemoveConf
          /\ aggregate' = parent /\ aggTimer' = "armed"
          /\ Fetch("manifest")
          /\ UNCHANGED <<site, walk, parent, dir, verdict>>

\* The request is cancelled: streamlink and ffmpeg are killed, a request that
\* waits for headers fails.
ParentAborts ==
  /\ pc # "done" /\ ~parent
  /\ parent' = TRUE
  /\ aggregate' = (pc \notin {"start", "streamlink"})
  /\ UNCHANGED <<site, pc, walk, aggTimer, job, dir, conf, verdict>>

AggregateExpires ==
  /\ aggTimer = "armed"
  /\ aggTimer' = "fired" /\ aggregate' = TRUE
  /\ UNCHANGED <<site, pc, walk, parent, job, dir, conf, verdict>>

-----------------------------------------------------------------------------
(* downloadManifestFallback *)

\* Variant: nothing counts the playlists followed.
FollowUncounted ==
  LET variant == pickVariantUrl(Playlist.variants)
  IN  IF variant = "" THEN Finish("network_error")
      ELSE /\ url' = variant /\ StopTimer /\ Fetch("manifest")
           /\ UNCHANGED <<site, pc, depth, segments, keyCache, parts, parent,
                          aggregate, dir, conf, verdict>>

\* A playlist has been read.  A master playlist is followed without waiting,
\* so the frame that owns the aggregate timer clears it.
FollowVariant ==
  LET variant == pickVariantUrl(Playlist.variants)
  IN  IF variant = "" \/ depth + 1 > MAX_DEPTH THEN Finish("network_error")
      ELSE /\ url' = variant /\ depth' = depth + 1
           /\ StopTimer /\ Fetch("manifest")
           /\ UNCHANGED <<site, pc, segments, keyCache, parts, parent, aggregate,
                          dir, conf, verdict>>

\* The walk, then every segment host validated, then the temporary directory,
\* which mkdtemp may fail to make.
OpenMedia ==
  LET walked == WalkPlaylist(Playlist.lines)
  IN  IF HasBadKey(Playlist.lines) THEN Finish("drm_detected")
      ELSE IF walked = <<>> \/ \E i \in DOMAIN walked : walked[i].uri \in Blocked
      THEN Finish("network_error")
      ELSE \/ /\ pc' = "segments" /\ segments' = walked /\ dir' = TRUE /\ job' = Idle
              /\ UNCHANGED <<site, url, depth, keyCache, parts, signals, conf, verdict>>
           \/ Finish("io_error")

ManifestRead ==
  /\ job.at = "body" /\ job.what = "manifest"
  /\ \/ Playlist.kind \in {"html", "live"} /\ Finish("no_media_found")
     \/ Playlist.kind = "drm" /\ Finish("drm_detected")
     \/ Playlist.kind = "master" /\ FollowVariant
     \/ Playlist.kind = "media" /\ OpenMedia

\* The next segment: its key first, when it has one that is not cached.
current == Len(parts) + 1
NextSegment ==
  /\ pc = "segments" /\ job = Idle /\ current <= Len(segments)
  /\ LET key == segments[current].key
     IN  IF key # Clear /\ key.uri \notin keyCache
         THEN IF key.uri \in Blocked THEN Finish("network_error")
              ELSE Fetch("key") /\ JobStep
         ELSE Fetch("segment") /\ JobStep

KeyRead ==
  /\ job.at = "body" /\ job.what = "key"
  /\ keyCache' = keyCache \cup {segments[current].key.uri}
  /\ job' = Idle
  /\ UNCHANGED <<site, pc, url, depth, segments, parts, signals, dir, conf, verdict>>

\* The segment is decrypted and written.
SegmentRead ==
  /\ job.at = "body" /\ job.what = "segment"
  /\ \E plain \in Decrypt(segments[current], Playlist.mediaSequence, current) :
       IF plain = "throws" THEN Finish("network_error")
       ELSE \/ /\ parts' = Append(parts, plain) /\ job' = Idle
               /\ UNCHANGED <<site, pc, url, depth, segments, keyCache, signals, dir,
                              conf, verdict>>
            \/ Finish("io_error")

\* concat.txt is written and ffmpeg joins the parts, unless it is told to stop.
Concat ==
  /\ pc = "segments" /\ job = Idle /\ current > Len(segments)
  /\ \/ ~aggregate /\ Finish("success")
     \/ \E result \in {"network_error", "io_error"} : Finish(result)

FetchStep ==
  \/ RequestOk \/ RequestRedirected \/ RequestFails \/ RetryAfterSleep \/ RequestDenied
  \/ BodyFails \/ ManifestRead \/ KeyRead \/ SegmentRead
Next ==
  \/ Prepare \/ StreamlinkSucceeds \/ StreamlinkFails
  \/ FetchStep \/ NextSegment \/ Concat
  \/ ParentAborts \/ AggregateExpires

\* Subprocesses end (their own timers see to it), a request ends with headers
\* or an error, and so does a body: the HTTP client drops a silent one.
Fairness ==
  /\ WF_vars(Prepare) /\ WF_vars(StreamlinkSucceeds \/ StreamlinkFails)
  /\ WF_vars(FetchStep) /\ WF_vars(NextSegment) /\ WF_vars(Concat)

Spec == Init /\ [][Next]_vars
FairSpec == Spec /\ Fairness

-----------------------------------------------------------------------------
(* Properties *)

\* Every variable keeps its type: streamlink-backend.js 679-703, 755-820.
TypeOK ==
  /\ site \in Sites /\ pc \in {"start", "streamlink", "manifest", "segments", "done"}
  /\ url \in DOMAIN site.playlists /\ depth \in 0..MAX_DEPTH
  /\ {parent, aggregate, dir, conf} \subseteq BOOLEAN
  /\ aggTimer \in {"none", "armed", "cleared", "fired"}
  /\ job.ctx \in 1..4 /\ job.attempt \in 0..MAX_RETRIES /\ job.hops \in 0..MAX_REDIRECTS
  /\ job.at \in {"idle", "request", "body", "sleep"}
  /\ Len(parts) <= Len(segments)
  /\ verdict \in {"none", "success", "network_error", "timeout", "drm_detected",
                  "no_media_found", "io_error"}

\* METHOD=NONE has turned a session key off for the n-th segment.
TurnedOff(lines, n) ==
  \E i \in SegmentLines(lines) :
    Number(lines, i) = n /\ AnnouncedKey(lines, i) # SegmentKey(lines, i)

\* What the fallback joins is the playlist's segments, each in its place and in
\* clear, through key rotation, explicit and default IVs: encrypted segments are
\* never written raw (streamlink-backend.js 19-22, 128-147, 822-866).  Left
\* out are segments for which METHOD=NONE turned a session key off.
OutputIsPlaintext ==
  /\ \A n \in DOMAIN parts : parts[n] = segments[n].uri \/ TurnedOff(Playlist.lines, n)
  /\ verdict = "success" => Len(parts) = Len(segments)

\* The same for every segment: the session key is "the default key for segments
\* without their own KEY tag" (streamlink-backend.js 755-758).
OutputAsAnnounced ==
  verdict = "success" /\ segments # <<>> =>
    parts = [n \in DOMAIN segments |-> segments[n].uri]

\* Ciphertext of a DRM playlist is never fetched, even behind a master playlist
\* that is itself clean: streamlink-backend.js 16-18, 721-730.
DrmIsNeverFetched ==
  job.what \in {"key", "segment"} =>
    /\ Playlist.kind = "media"
    /\ \A line \in ToSet(Playlist.lines) :
         line.tag = "segment" \/ line.key.uri # "bad"

\* The credential file never outlives streamlink: streamlink-backend.js 955-956.
CredentialsGoWithStreamlink == conf => pc = "streamlink"

\* The download ends: retries, contexts, redirects and playlists that refer to
\* each other are bounded: streamlink-backend.js 57-60, 685-687.
StreamEnds == <>(pc = "done")

\* No body is read to its end once the download is cancelled or out of time:
\* manifest and segment fetches use an AbortController with a timeout
\* (streamlink-backend.js 8-13).
CancelStopsTheTransfer ==
  [][aggregate /\ job.at = "body" => job'.at # "idle" \/ pc' = "done"]_vars
=============================================================================
