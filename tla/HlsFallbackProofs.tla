------------------------- MODULE HlsFallbackProofs -------------------------
(***************************************************************************)
(* What HlsFallback guarantees for every site, however long its playlists  *)
(* are and whatever they refer to, and for all limits.                     *)
(***************************************************************************)
EXTENDS HlsFallback, FiniteSetTheorems, WellFoundedInduction, TLAPS

----------------------------------------------------------------------------
(* Numbers                                                                 *)

LEMMA SeqElements ==
  ASSUME NEW S, NEW q \in Seq(S)
  PROVE  Len(q) \in Nat /\ DOMAIN q = 1..Len(q) /\ \A i \in DOMAIN q : q[i] \in S
  OBVIOUS

LEMMA PositionsFinite ==
  ASSUME NEW n \in Nat, NEW T \in SUBSET (1..n)
  PROVE  IsFiniteSet(T) /\ Cardinality(T) \in Nat
  <1>1. IsFiniteSet(1..n)
    BY FS_Interval
  <1> QED BY <1>1, FS_Subset, FS_CardinalityType

LEMMA LeastElement ==
  ASSUME NEW T \in SUBSET Nat, T # {}
  PROVE  \E m \in T : \A k \in T : m <= k
  <1> DEFINE R == OpToRel(<, Nat)
  <1>1. IsWellFoundedOn(R, Nat)
    BY NatLessThanWellFounded
  <1>2. \A j, k \in Nat : j < k => <<j, k>> \in R
    BY DEF OpToRel
  <1> HIDE DEF R
  <1>3. PICK m \in T : \A k \in T : ~(<<k, m>> \in R)
    BY <1>1, WFMin
  <1>4. \A k \in T : ~(k < m)
    BY <1>2, <1>3
  <1> QED BY <1>4

LEMMA GreatestElement ==
  ASSUME NEW n \in Nat, NEW T \in SUBSET (1..n), T # {}
  PROVE  \E m \in T : \A k \in T : k <= m
  <1> DEFINE D == {n - m : m \in T}
  <1>1. D \in SUBSET Nat /\ D # {}
    <2>1. \A m \in T : n - m \in Nat
      OBVIOUS
    <2> QED BY <2>1
  <1>2. PICK d \in D : \A e \in D : d <= e
    BY <1>1, LeastElement
  <1>3. PICK m \in T : d = n - m
    OBVIOUS
  <1>4. \A k \in T : k <= m
    <2>1. TAKE k \in T
    <2>2. n - m <= n - k
      BY <1>2, <1>3
    <2> QED BY <2>2
  <1> QED BY <1>4

----------------------------------------------------------------------------
(* Master playlists                                                        *)

LEMMA VariantElements ==
  ASSUME NEW s, NEW variants \in Seq(VariantShape(s)), NEW i \in DOMAIN variants
  PROVE  /\ i \in Nat /\ variants[i].bandwidth \in Nat
         /\ variants[i].url \in DOMAIN s.playlists \cup Blocked \cup {""}
  <1>1. i \in Nat /\ variants[i] \in VariantShape(s)
    BY SeqElements
  <1>2. ASSUME NEW v \in VariantShape(s)
        PROVE  v.bandwidth \in Nat /\ v.url \in DOMAIN s.playlists \cup Blocked \cup {""}
    BY <1>2 DEF VariantShape
  <1> QED BY <1>1, <1>2

LEMMA OutranksTransitive ==
  ASSUME NEW s, NEW variants \in Seq(VariantShape(s)),
         NEW i \in DOMAIN variants, NEW k \in DOMAIN variants, NEW m \in DOMAIN variants,
         Outranks(variants, i, k), Outranks(variants, k, m)
  PROVE  Outranks(variants, i, m) /\ ~Outranks(variants, i, i)
  <1>1. \A n \in DOMAIN variants : n \in Nat /\ variants[n].bandwidth \in Nat
    BY VariantElements
  <1> QED BY <1>1 DEF Outranks

LEMMA BestVariantExists ==
  ASSUME NEW s, NEW variants \in Seq(VariantShape(s)), Usable(variants) # {}
  PROVE  \E i \in Usable(variants) :
           \A k \in Usable(variants) : ~Outranks(variants, k, i)
  <1> DEFINE U == Usable(variants)
             Over(i) == {k \in U : Outranks(variants, k, i)}
             T == {Cardinality(Over(i)) : i \in U}
  <1>1. U \subseteq DOMAIN variants /\ DOMAIN variants = 1..Len(variants) /\ Len(variants) \in Nat
    BY SeqElements DEF Usable
  <1>2. \A i \in U : Over(i) \in SUBSET (1..Len(variants))
    BY <1>1
  <1>3. \A i \in U : IsFiniteSet(Over(i)) /\ Cardinality(Over(i)) \in Nat
    BY <1>1, <1>2, PositionsFinite
  <1>4. T \in SUBSET Nat /\ T # {}
    BY <1>3
  <1>5. PICK t \in T : \A r \in T : t <= r
    BY <1>4, LeastElement
  <1>6. PICK i \in U : t = Cardinality(Over(i))
    BY <1>5
  <1>7. ASSUME NEW k \in U, Outranks(variants, k, i)
        PROVE  FALSE
    <2>1. Over(k) \subseteq Over(i) /\ k \in Over(i) /\ k \notin Over(k)
      <3>1. \A m \in U : Outranks(variants, m, k) => Outranks(variants, m, i)
        BY <1>1, <1>6, <1>7, OutranksTransitive
      <3>2. ~Outranks(variants, k, k)
        <4>1. variants[k].bandwidth \in Nat /\ k \in Nat
          BY <1>1, VariantElements
        <4> QED BY <4>1 DEF Outranks
      <3> QED BY <1>7, <3>1, <3>2
    <2>2. Cardinality(Over(k)) <= Cardinality(Over(i)) /\ Cardinality(Over(i)) # Cardinality(Over(k))
      <3> HIDE DEF Over
      <3>1. Over(k) \in SUBSET Over(i) /\ IsFiniteSet(Over(i)) /\ Over(i) # Over(k)
        BY <1>3, <1>6, <2>1
      <3> QED BY <3>1, FS_Subset
    <2>3. Cardinality(Over(k)) \in T
      OBVIOUS
    <2>4. Cardinality(Over(k)) \in Nat /\ Cardinality(Over(i)) \in Nat
      BY <1>3, <1>6, <1>7
    <2>5. t <= Cardinality(Over(k))
      BY <1>5, <2>3
    <2> HIDE DEF Over
    <2> QED BY <1>6, <2>2, <2>4, <2>5
  <1> QED BY <1>6, <1>7

\* The variant followed is one of the site's playlists and not a refused URL.
LEMMA PickedVariant ==
  ASSUME NEW s, NEW variants \in Seq(VariantShape(s)), pickVariantUrl(variants) # ""
  PROVE  pickVariantUrl(variants) \in DOMAIN s.playlists \ Blocked
  <1> DEFINE best == CHOOSE i \in Usable(variants) :
                       \A k \in Usable(variants) : ~Outranks(variants, k, i)
  <1>1. Usable(variants) # {} /\ pickVariantUrl(variants) = variants[best].url
    BY DEF pickVariantUrl
  <1>2. best \in Usable(variants)
    BY <1>1, BestVariantExists
  <1>3. best \in DOMAIN variants /\ variants[best].url \notin Blocked \cup {""}
    BY <1>2 DEF Usable
  <1>4. variants[best].url \in DOMAIN s.playlists \cup Blocked \cup {""}
    BY <1>3, VariantElements
  <1> QED BY <1>1, <1>3, <1>4

----------------------------------------------------------------------------
(* Media playlists                                                         *)

KeyShape == [uri : STRING \ {"none"}, iv : Int]

LEMMA TagBefore ==
  ASSUME NEW s, NEW lines \in Seq(LineShape(s)), NEW i \in DOMAIN lines,
         NEW tag \in {"key", "session"}
  PROVE  /\ TagsBefore(lines, tag, i) # {} =>
              \E m \in TagsBefore(lines, tag, i) :
                KeyBefore(lines, tag, i) = parseHlsKeyTag(lines[m])
         /\ KeyBefore(lines, tag, i) \in KeyShape \cup {Clear}
  <1> DEFINE tags == TagsBefore(lines, tag, i)
             last == CHOOSE m \in tags : \A n \in tags : n <= m
  <1>1. i \in 1..Len(lines) /\ Len(lines) \in Nat /\ DOMAIN lines = 1..Len(lines)
    OBVIOUS
  <1>2. CASE tags = {}
    BY <1>2 DEF KeyBefore
  <1>3. CASE tags # {}
    <2>1. tags \in SUBSET (1..Len(lines))
      BY <1>1 DEF TagsBefore
    <2>2. \E m \in tags : \A n \in tags : n <= m
      BY <1>1, <1>3, <2>1, GreatestElement
    <2>3. last \in tags
      BY <2>2
    <2>4. KeyBefore(lines, tag, i) = parseHlsKeyTag(lines[last])
      BY <1>3 DEF KeyBefore
    <2>5. lines[last] \in LineShape(s) /\ lines[last].tag = tag
      BY <1>1, <2>1, <2>3 DEF TagsBefore
    <2>6. parseHlsKeyTag(lines[last]) \in KeyShape \cup {Clear}
      BY <2>5 DEF LineShape, parseHlsKeyTag, KeyShape
    <2> QED BY <2>3, <2>4, <2>6
  <1> QED BY <1>2, <1>3

\* Every position of the walk is that of one line.
LEMMA NthSegment ==
  ASSUME NEW s, NEW lines \in Seq(LineShape(s)),
         NEW k \in 1..Cardinality(SegmentLines(lines))
  PROVE  \E i \in SegmentLines(lines) : Number(lines, i) = k
  <1> DEFINE S == SegmentLines(lines)
             Upto(n) == {m \in S : m <= n}
             T == {n \in Nat : k <= Cardinality(Upto(n))}
  <1>1. S \subseteq 1..Len(lines) /\ Len(lines) \in Nat
    BY SeqElements DEF SegmentLines
  <1>2. IsFiniteSet(S) /\ Cardinality(S) \in Nat
    BY <1>1, PositionsFinite
  <1>3. \A n \in Nat : IsFiniteSet(Upto(n)) /\ Cardinality(Upto(n)) \in Nat
    <2>1. \A n \in Nat : Upto(n) \in SUBSET (1..Len(lines))
      BY <1>1
    <2> QED BY <1>1, <2>1, PositionsFinite
  <1>4. Upto(Len(lines)) = S
    BY <1>1
  <1>5. Len(lines) \in T
    <2>1. k \in Nat /\ k <= Cardinality(S)
      BY <1>2
    <2> QED BY <1>1, <1>4, <2>1
  <1>6. PICK n \in T : \A m \in T : n <= m
    BY <1>5, LeastElement
  <1>7. n # 0
    <2>1. Upto(0) = {}
      BY <1>1
    <2>2. Cardinality(Upto(0)) = 0
      BY <2>1, FS_EmptySet
    <2>3. k <= Cardinality(Upto(n)) /\ k >= 1
      BY <1>2, <1>6
    <2> HIDE DEF Upto
    <2> QED BY <1>2, <2>2, <2>3
  <1>8. n - 1 \in Nat /\ n - 1 \notin T
    BY <1>6, <1>7
  <1> HIDE DEF S
  <1>9. ~(k <= Cardinality(Upto(n - 1)))
    BY <1>8
  <1>10. Upto(n) = IF n \in S THEN Upto(n - 1) \cup {n} ELSE Upto(n - 1)
    <2>1. \A m \in S : m <= n <=> m <= n - 1 \/ m = n
      BY <1>1, <1>6
    <2> QED BY <2>1
  <1>11. n \notin Upto(n - 1)
    BY <1>1, <1>6
  <1> HIDE DEF Upto
  <1>12. n \in S /\ Cardinality(Upto(n)) = Cardinality(Upto(n - 1)) + 1
    BY <1>3, <1>6, <1>8, <1>9, <1>10, <1>11, FS_AddElement
  <1>13. Cardinality(Upto(n)) = k
    BY <1>3, <1>6, <1>8, <1>9, <1>12
  <1> QED BY <1>12, <1>13 DEF S, Upto, Number
SegmentShape(s) == [uri : DOMAIN s.cipher, key : KeyShape \cup {Clear}]

LEMMA WalkPosition ==
  ASSUME NEW s, NEW lines \in Seq(LineShape(s)),
         NEW k \in 1..Cardinality(SegmentLines(lines))
  PROVE  \E i \in SegmentLines(lines) :
           /\ Number(lines, i) = k
           /\ WalkPlaylist(lines)[k] = [uri |-> lines[i].uri, key |-> SegmentKey(lines, i)]
  <1> DEFINE i == CHOOSE i \in SegmentLines(lines) : Number(lines, i) = k
  <1>1. i \in SegmentLines(lines) /\ Number(lines, i) = k
    BY NthSegment
  <1>2. WalkPlaylist(lines)[k] = [uri |-> lines[i].uri, key |-> SegmentKey(lines, i)]
    BY DEF WalkPlaylist
  <1> HIDE DEF i
  <1> QED BY <1>1, <1>2

LEMMA WalkTyped ==
  ASSUME NEW s, NEW lines \in Seq(LineShape(s))
  PROVE  /\ WalkPlaylist(lines) \in Seq(SegmentShape(s))
         /\ Len(WalkPlaylist(lines)) = Cardinality(SegmentLines(lines))
         /\ Cardinality(SegmentLines(lines)) \in Nat
  <1> DEFINE n == Cardinality(SegmentLines(lines))
             w == WalkPlaylist(lines)
  <1>1. n \in Nat
    <2>1. SegmentLines(lines) \in SUBSET (1..Len(lines)) /\ Len(lines) \in Nat
      BY SeqElements DEF SegmentLines
    <2> QED BY <2>1, PositionsFinite
  <1>2. ASSUME NEW k \in 1..n
        PROVE  w[k] \in SegmentShape(s)
    <2>1. PICK i \in SegmentLines(lines) :
            w[k] = [uri |-> lines[i].uri, key |-> SegmentKey(lines, i)]
      BY <1>2, WalkPosition
    <2>2. i \in DOMAIN lines /\ lines[i].tag = "segment"
      BY DEF SegmentLines
    <2>3. lines[i] \in LineShape(s)
      BY <2>2, SeqElements
    <2>4. lines[i].uri \in DOMAIN s.cipher
      BY <2>2, <2>3 DEF LineShape
    <2>5. SegmentKey(lines, i) \in KeyShape \cup {Clear}
      BY <2>2, TagBefore DEF SegmentKey
    <2> QED BY <2>1, <2>4, <2>5 DEF SegmentShape
  <1>3. w = [k \in 1..n |-> w[k]]
    BY DEF WalkPlaylist
  <1> HIDE DEF n, w
  <1>4. w \in [1..n -> SegmentShape(s)]
    BY <1>2, <1>3
  <1>5. w \in Seq(SegmentShape(s)) /\ Len(w) = n
    BY <1>1, <1>4
  <1> QED BY <1>1, <1>5 DEF n, w

\* A segment whose key was not turned off is decrypted to its plaintext.
LEMMA DecryptedAsAnnounced ==
  ASSUME site \in Sites, NEW u \in DOMAIN site.playlists,
         site.playlists[u].kind = "media",
         NEW k \in DOMAIN WalkPlaylist(site.playlists[u].lines)
  PROVE  \/ Decrypt(WalkPlaylist(site.playlists[u].lines)[k],
                    site.playlists[u].mediaSequence, k)
              = {WalkPlaylist(site.playlists[u].lines)[k].uri}
         \/ TurnedOff(site.playlists[u].lines, k)
  <1> DEFINE p == site.playlists[u]
             lines == p.lines
             seg == WalkPlaylist(lines)[k]
             c == site.cipher[seg.uri]
             iv == p.mediaSequence + k - 1
  <1>1. lines \in Seq(LineShape(site)) /\ p.mediaSequence \in Nat
    BY FallbackAssumption DEF SiteShape
  <1>2. k \in 1..Cardinality(SegmentLines(lines)) /\ k \in Int
    <2>1. DOMAIN WalkPlaylist(lines) = 1..Cardinality(SegmentLines(lines))
      BY DEF WalkPlaylist
    <2>2. Cardinality(SegmentLines(lines)) \in Nat
      BY <1>1, WalkTyped
    <2> QED BY <2>1, <2>2
  <1>3. PICK i \in SegmentLines(lines) :
          /\ Number(lines, i) = k
          /\ seg = [uri |-> lines[i].uri, key |-> SegmentKey(lines, i)]
    BY <1>1, <1>2, WalkPosition
  <1>4. i \in DOMAIN lines
    BY DEF SegmentLines
  <1> SUFFICES ASSUME AnnouncedKey(lines, i) = SegmentKey(lines, i)
               PROVE  Decrypt(seg, p.mediaSequence, k) = {seg.uri}
    BY <1>3 DEF TurnedOff
  <1>5. seg.key = AnnouncedKey(lines, i) /\ seg.key \in KeyShape \cup {Clear}
    <2>1. KeyBefore(lines, "key", i) \in KeyShape \cup {Clear}
      BY <1>1, <1>4, TagBefore
    <2>2. KeyBefore(lines, "session", i) \in KeyShape \cup {Clear}
      BY <1>1, <1>4, TagBefore
    <2>3. SegmentKey(lines, i) \in KeyShape \cup {Clear}
      BY <2>1, <2>2 DEF SegmentKey
    <2> QED BY <1>3, <2>3
  <1>6. c = IF seg.key = Clear \/ seg.key.iv # -1 THEN seg.key
            ELSE [seg.key EXCEPT !.iv = iv]
    <2>1. EncryptedAsAnnounced(site)
      BY CipherAssumption
    <2>2. u \in {v \in DOMAIN site.playlists : site.playlists[v].kind = "media"}
      OBVIOUS
    <2>3. site.cipher[lines[i].uri] =
            IF AnnouncedKey(lines, i) = Clear \/ AnnouncedKey(lines, i).iv # -1
            THEN AnnouncedKey(lines, i)
            ELSE [AnnouncedKey(lines, i) EXCEPT !.iv = p.mediaSequence + Number(lines, i) - 1]
      BY <2>1, <2>2 DEF EncryptedAsAnnounced
    <2>4. c = site.cipher[lines[i].uri] /\ Number(lines, i) = k
      BY <1>3
    <2> QED BY <1>5, <2>3, <2>4
  <1>7. Decrypt(seg, p.mediaSequence, k) =
           IF seg.key = Clear THEN {IF c = Clear THEN seg.uri ELSE Garbled}
           ELSE IF c = [seg.key EXCEPT !.iv = IF seg.key.iv # -1 THEN seg.key.iv ELSE iv]
           THEN {seg.uri}
           ELSE {Garbled, "throws"}
    BY DEF Decrypt, DecryptIv
  <1>8. iv \in Int
    BY <1>1, <1>2
  <1> HIDE DEF iv, c, seg, lines, p
  <1>9. CASE seg.key = Clear
    BY <1>6, <1>7, <1>9
  <1>10. CASE seg.key # Clear
    <2>1. seg.key \in KeyShape
      BY <1>5, <1>10
    <2>2. c = [seg.key EXCEPT !.iv = IF seg.key.iv # -1 THEN seg.key.iv ELSE iv]
      BY <1>6, <1>8, <1>10, <2>1 DEF KeyShape
    <2> QED BY <1>7, <1>10, <2>2
  <1> QED BY <1>9, <1>10

----------------------------------------------------------------------------
(* The inductive invariant                                                 *)

Fetches ==
  [what : {"nothing", "manifest", "key", "segment"}, ctx : 1..4,
   attempt : 0..MAX_RETRIES, hops : 0..MAX_REDIRECTS,
   at : {"idle", "request", "body", "sleep"}]

\* A fetch is under way only in the fallback, and for what the fallback is at;
\* a pause is followed by an attempt that is left.
FetchInv ==
  /\ job \in Fetches
  /\ job.at = "idle" => job = Idle
  /\ job.at = "sleep" => job.attempt < MAX_RETRIES
  /\ pc \in {"start", "streamlink", "done"} => job = Idle
  /\ pc = "manifest" => job.what = "manifest"
  /\ pc = "segments" => job.what # "manifest"

\* The segments are those of the media playlist at url, all of whose keys are
\* usable, and there are no more parts than segments.
WalkInv ==
  /\ segments \in Seq(SegmentShape(site))
  /\ parts \in Seq(DOMAIN site.cipher \cup {Garbled})
  /\ Len(parts) <= Len(segments)
  /\ job.what \in {"key", "segment"} => Len(parts) < Len(segments)
  /\ pc \in {"start", "streamlink", "manifest"} => segments = <<>>
  /\ segments # <<>> => /\ Playlist.kind = "media"
                        /\ segments = WalkPlaylist(Playlist.lines)
                        /\ ~HasBadKey(Playlist.lines)

\* What is written is in clear, and success is announced for all of it.
PlainInv ==
  /\ \A n \in DOMAIN parts : parts[n] = segments[n].uri \/ TurnedOff(Playlist.lines, n)
  /\ verdict = "success" => pc = "done" /\ Len(parts) = Len(segments)

FallbackInv == TypeOK /\ FetchInv /\ WalkInv /\ PlainInv

LEMMA Limits ==
  /\ MAX_DEPTH \in Nat /\ MAX_REDIRECTS \in Nat /\ MAX_RETRIES \in Nat
  /\ 0 \in 0..MAX_DEPTH /\ 0 \in 0..MAX_REDIRECTS /\ 0 \in 0..MAX_RETRIES
  <1>1. MAX_DEPTH \in Nat /\ MAX_REDIRECTS \in Nat /\ MAX_RETRIES \in Nat
    BY FallbackAssumption
  <1> QED BY <1>1

LEMMA IdleFetch == Idle \in Fetches /\ Idle.what = "nothing" /\ Idle.at = "idle"
  BY Limits DEF Idle, Fetches

LEMMA FetchStarts ==
  ASSUME NEW what \in {"nothing", "manifest", "key", "segment"},
         NEW at \in {"idle", "request"},
         NEW f, f = [Idle EXCEPT !.what = what, !.at = at]
  PROVE  f \in Fetches /\ f.what = what /\ f.at = at
  BY IdleFetch DEF Fetches

LEMMA FallbackInit == Init => FallbackInv
  <1> SUFFICES ASSUME Init PROVE FallbackInv
    OBVIOUS
  <1>1. SiteShape(site)
    BY FallbackAssumption DEF Init
  <1>2. TypeOK
    <2>1. site.start \in DOMAIN site.playlists
      BY <1>1 DEF SiteShape
    <2>2. job \in Fetches
      BY IdleFetch DEF Init
    <2>3. parent = FALSE /\ aggregate = FALSE /\ dir = FALSE /\ conf = FALSE
      BY DEF Init
    <2>4. {parent, aggregate, dir, conf} \subseteq BOOLEAN
      BY <2>3
    <2>5. Len(parts) <= Len(segments)
      BY DEF Init
    <2> QED BY <2>1, <2>2, <2>4, <2>5, Limits DEF Init, TypeOK, Fetches
  <1>3. FetchInv
    BY Limits DEF Init, FetchInv, Idle, Fetches
  <1>4. WalkInv
    BY DEF Init, WalkInv, Idle
  <1>5. PlainInv
    BY DEF Init, PlainInv
  <1> QED BY <1>2, <1>3, <1>4, <1>5 DEF FallbackInv

Verdicts == {"network_error", "timeout", "drm_detected", "no_media_found", "io_error"}

\* The download ends.
LEMMA CloseKeeps ==
  ASSUME FallbackInv, NEW result \in Verdicts \cup {"success"}, Close(result),
         conf' \in BOOLEAN, result = "success" => Len(parts) = Len(segments)
  PROVE  FallbackInv'
  <1> USE DEF Close, walk
  <1>1. TypeOK'
    <2>1. dir' \in BOOLEAN /\ aggTimer' \in {"none", "armed", "cleared", "fired"}
      BY DEF FallbackInv, TypeOK, RemoveDir, StopTimer
    <2>2. job' \in Fetches
      BY IdleFetch
    <2> QED BY <2>1, <2>2 DEF FallbackInv, TypeOK, Fetches, Verdicts
  <1>2. FetchInv'
    BY Limits DEF FetchInv, Idle, Fetches
  <1>3. WalkInv'
    BY DEF FallbackInv, WalkInv, Idle, Playlist
  <1>4. PlainInv'
    <2>1. Playlist' = Playlist
      BY DEF Playlist
    <2> QED BY <2>1 DEF FallbackInv, PlainInv
  <1> QED BY <1>1, <1>2, <1>3, <1>4 DEF FallbackInv

LEMMA FinishKeeps ==
  ASSUME FallbackInv, NEW result \in Verdicts \cup {"success"}, Finish(result),
         result = "success" => Len(parts) = Len(segments)
  PROVE  FallbackInv'
  <1>1. Close(result) /\ conf' \in BOOLEAN
    BY DEF Finish, RemoveConf, FallbackInv, TypeOK
  <1> QED BY <1>1, CloseKeeps

\* Only the fetch under way or a signal changes.
Fetching ==
  /\ UNCHANGED <<site, pc, walk, dir, conf, verdict>>
  /\ parent' \in BOOLEAN /\ aggregate' \in BOOLEAN
  /\ aggTimer' \in {"none", "armed", "cleared", "fired"}
  /\ job' \in Fetches
  /\ job'.at = "idle" => job' = Idle
  /\ job'.at = "sleep" => job'.attempt < MAX_RETRIES
  /\ \/ job'.what = job.what /\ pc \in {"manifest", "segments"}
     \/ job' = job
     \/ pc = "segments" /\ job'.what \in {"key", "segment"} /\ Len(parts) < Len(segments)

LEMMA FetchingKeeps ==
  ASSUME FallbackInv, Fetching
  PROVE  FallbackInv'
  <1> USE DEF Fetching, walk
  <1>1. TypeOK'
    BY DEF FallbackInv, TypeOK, Fetches
  <1>2. FetchInv'
    BY DEF FallbackInv, FetchInv
  <1>3. WalkInv'
    BY DEF FallbackInv, WalkInv, Playlist
  <1>4. PlainInv'
    BY DEF FallbackInv, PlainInv, Playlist
  <1> QED BY <1>1, <1>2, <1>3, <1>4 DEF FallbackInv

\* fetchResWithRetry and what it calls.
LEMMA FetchIsUnderWay ==
  ASSUME FallbackInv, job.at # "idle"
  PROVE  pc \in {"manifest", "segments"}
  BY DEF FallbackInv, TypeOK, FetchInv, Idle

LEMMA RequestStepsKeep ==
  ASSUME FallbackInv, RequestOk \/ RequestRedirected \/ RetryAfterSleep
  PROVE  FallbackInv'
  <1>1. job.at # "idle" /\ job \in Fetches /\ (job.at = "sleep" => job.attempt < MAX_RETRIES)
    BY DEF RequestOk, RequestRedirected, RetryAfterSleep, FallbackInv, FetchInv
  <1>2. pc \in {"manifest", "segments"}
    BY <1>1, FetchIsUnderWay
  <1>3. /\ job' \in Fetches /\ job'.what = job.what /\ job'.at \notin {"idle", "sleep"}
        /\ JobStep
    <2>1. CASE RequestOk
      BY <1>1, <2>1 DEF RequestOk, Fetches
    <2>2. CASE RequestRedirected
      <3>1. job.hops + 1 \in 0..MAX_REDIRECTS
        BY <1>1, <2>2, Limits DEF RequestRedirected, Fetches
      <3> QED BY <1>1, <2>2, <3>1 DEF RequestRedirected, Fetches
    <2>3. CASE RetryAfterSleep
      <3>1. job.attempt + 1 \in 0..MAX_RETRIES
        BY <1>1, <2>3, Limits DEF RetryAfterSleep, Fetches
      <3> QED BY <1>1, <2>3, <3>1, Limits DEF RetryAfterSleep, Fetches
    <2> QED BY <2>1, <2>2, <2>3
  <1>4. Fetching
    BY <1>2, <1>3 DEF Fetching, JobStep, signals, FallbackInv, TypeOK
  <1> QED BY <1>4, FetchingKeeps

LEMMA RequestFailsKeeps ==
  ASSUME FallbackInv, RequestFails
  PROVE  FallbackInv'
  <1>1. job.at = "request" /\ job \in Fetches
    BY DEF RequestFails, FallbackInv, FetchInv
  <1>2. pc \in {"manifest", "segments"}
    BY <1>1, FetchIsUnderWay
  <1>3. CASE RetryDelay(job.attempt)
    <2>1. /\ job' \in Fetches /\ job'.what = job.what /\ job'.at = "sleep"
          /\ job'.attempt < MAX_RETRIES /\ JobStep
      BY <1>1, <1>3 DEF RequestFails, RetryDelay, Fetches
    <2>2. Fetching
      BY <1>2, <2>1 DEF Fetching, JobStep, signals, FallbackInv, TypeOK
    <2> QED BY <2>2, FetchingKeeps
  <1>4. CASE ~RetryDelay(job.attempt) /\ job.ctx < Contexts
    <2>1. job.ctx + 1 \in 1..4
      BY <1>1, <1>4 DEF Contexts, Fetches
    <2>2. job' \in Fetches /\ job'.what = job.what /\ job'.at = "request" /\ JobStep
      BY <1>1, <1>4, <2>1, Limits DEF RequestFails, Fetches
    <2>3. Fetching
      BY <1>2, <2>2 DEF Fetching, JobStep, signals, FallbackInv, TypeOK
    <2> QED BY <2>3, FetchingKeeps
  <1>5. CASE ~RetryDelay(job.attempt) /\ ~(job.ctx < Contexts)
    <2>1. PICK result \in {"network_error", "timeout"} : Finish(result)
      BY <1>5 DEF RequestFails
    <2> QED BY <2>1, FinishKeeps DEF Verdicts
  <1> QED BY <1>3, <1>4, <1>5

LEMMA FetchRefusedKeeps ==
  ASSUME FallbackInv, RequestDenied \/ BodyFails
  PROVE  FallbackInv'
  <1>1. Finish("network_error")
    BY DEF RequestDenied, BodyFails
  <1> QED BY <1>1, FinishKeeps DEF Verdicts

\* The aggregate timer and the caller's signal.
LEMMA SignalsKeep ==
  ASSUME FallbackInv, ParentAborts \/ AggregateExpires
  PROVE  FallbackInv'
  <1>1. /\ UNCHANGED <<site, pc, walk, dir, conf, verdict, job>>
        /\ parent' \in BOOLEAN /\ aggregate' \in BOOLEAN
        /\ aggTimer' \in {"none", "armed", "cleared", "fired"}
    BY DEF ParentAborts, AggregateExpires, FallbackInv, TypeOK
  <1>2. Fetching
    BY <1>1 DEF Fetching, FallbackInv, FetchInv
  <1> QED BY <1>2, FetchingKeeps

\* downloadStream
LEMMA NothingWalkedYet ==
  ASSUME FallbackInv, pc \in {"start", "streamlink", "manifest"}
  PROVE  segments = <<>> /\ parts = <<>> /\ Len(parts) = Len(segments)
  <1>1. segments = <<>> /\ parts \in Seq(DOMAIN site.cipher \cup {Garbled})
        /\ Len(parts) <= Len(segments)
    BY DEF FallbackInv, WalkInv
  <1> HIDE DEF FallbackInv
  <1>2. Len(parts) = 0
    BY <1>1
  <1> QED BY <1>1, <1>2

LEMMA PrepareKeeps ==
  ASSUME FallbackInv, Prepare
  PROVE  FallbackInv'
  <1>1. CASE url \in Blocked
    BY <1>1, FinishKeeps DEF Prepare, Verdicts
  <1>2. CASE Close("io_error") /\ conf' \in BOOLEAN
    BY <1>2, CloseKeeps DEF Verdicts
  <1>3. CASE /\ pc = "start" /\ pc' = "streamlink" /\ conf' = site.auth
             /\ UNCHANGED <<site, walk, signals, job, dir, verdict>>
    <2>1. /\ pc = "start" /\ pc' = "streamlink" /\ conf' = site.auth
          /\ UNCHANGED <<site, walk, signals, job, dir, verdict>>
      BY <1>3
    <2> USE DEF walk, signals
    <2>2. site.auth \in BOOLEAN
      BY FallbackAssumption DEF FallbackInv, TypeOK, SiteShape
    <2>3. TypeOK'
      BY <2>1, <2>2 DEF FallbackInv, TypeOK
    <2>4. FetchInv'
      BY <2>1 DEF FallbackInv, FetchInv
    <2>5. WalkInv'
      BY <2>1 DEF FallbackInv, WalkInv, Playlist
    <2>6. PlainInv'
      BY <2>1 DEF FallbackInv, PlainInv, Playlist
    <2> QED BY <2>3, <2>4, <2>5, <2>6 DEF FallbackInv
  <1> QED BY <1>1, <1>2, <1>3 DEF Prepare

LEMMA StreamlinkKeeps ==
  ASSUME FallbackInv, StreamlinkSucceeds \/ StreamlinkFails
  PROVE  FallbackInv'
  <1>1. pc = "streamlink" /\ segments = <<>> /\ parts = <<>> /\ Len(parts) = Len(segments)
    BY NothingWalkedYet DEF StreamlinkSucceeds, StreamlinkFails
  <1>2. CASE StreamlinkSucceeds
    BY <1>1, <1>2, FinishKeeps DEF StreamlinkSucceeds
  <1>3. CASE StreamlinkFails /\ ~site.hls
    BY <1>3, FinishKeeps DEF StreamlinkFails, Verdicts
  <1>4. CASE StreamlinkFails /\ site.hls
    <2>1. /\ pc' = "manifest" /\ conf' \in BOOLEAN
          /\ aggregate' = parent /\ aggTimer' = "armed"
          /\ job' = [Idle EXCEPT !.what = "manifest", !.at = "request"]
          /\ UNCHANGED <<site, walk, parent, dir, verdict>>
      BY <1>4 DEF StreamlinkFails, Fetch, RemoveConf, FallbackInv, TypeOK
    <2> USE DEF walk
    <2>2. TypeOK'
      <3>1. job' \in Fetches
        BY <2>1, FetchStarts
      <3> QED BY <2>1, <3>1 DEF FallbackInv, TypeOK, Fetches
    <2>3. FetchInv'
      BY <2>1, FetchStarts DEF FetchInv
    <2>4. WalkInv'
      BY <1>1, <2>1 DEF FallbackInv, WalkInv, Playlist, Idle
    <2>5. PlainInv'
      BY <1>1, <2>1 DEF FallbackInv, PlainInv
    <2> QED BY <2>2, <2>3, <2>4, <2>5 DEF FallbackInv
  <1> QED BY <1>2, <1>3, <1>4
\* downloadManifestFallback
LEMMA ManifestBody ==
  ASSUME FallbackInv, job.at = "body", job.what = "manifest"
  PROVE  /\ pc = "manifest" /\ segments = <<>> /\ parts = <<>>
         /\ Len(parts) = Len(segments) /\ SiteShape(site) /\ url \in DOMAIN site.playlists
         /\ verdict # "success"
  <1>1. pc = "manifest"
    BY FetchIsUnderWay DEF FallbackInv, FetchInv
  <1>2. SiteShape(site) /\ url \in DOMAIN site.playlists
    BY FallbackAssumption DEF FallbackInv, TypeOK
  <1>3. verdict # "success"
    BY <1>1 DEF FallbackInv, PlainInv
  <1> QED BY <1>1, <1>2, <1>3, NothingWalkedYet

LEMMA FollowVariantKeeps ==
  ASSUME FallbackInv, job.at = "body", job.what = "manifest", Playlist.kind = "master",
         FollowVariant
  PROVE  FallbackInv'
  <1> DEFINE variant == pickVariantUrl(Playlist.variants)
  <1>1. /\ pc = "manifest" /\ segments = <<>> /\ parts = <<>>
        /\ Len(parts) = Len(segments) /\ verdict # "success"
    BY ManifestBody
  <1>2. variant # "" => variant \in DOMAIN site.playlists
    <2>1. Playlist.variants \in Seq(VariantShape(site))
      BY ManifestBody DEF SiteShape, Playlist
    <2> QED BY <2>1, PickedVariant
  <1>3. CASE variant = "" \/ depth + 1 > MAX_DEPTH
    BY <1>3, FinishKeeps DEF FollowVariant, Verdicts
  <1>4. CASE ~(variant = "" \/ depth + 1 > MAX_DEPTH)
    <2>1. /\ url' = variant /\ depth' = depth + 1 /\ StopTimer
          /\ job' = [Idle EXCEPT !.what = "manifest", !.at = "request"]
          /\ UNCHANGED <<site, pc, segments, keyCache, parts, parent, aggregate,
                         dir, conf, verdict>>
      BY <1>4 DEF FollowVariant, Fetch
    <2>2. job' \in Fetches /\ job'.what = "manifest" /\ job'.at = "request"
      BY <2>1, FetchStarts
    <2>3. url' \in DOMAIN site.playlists
      BY <1>2, <1>4, <2>1
    <2>4. depth' \in 0..MAX_DEPTH
      <3>1. depth \in 0..MAX_DEPTH
        BY DEF FallbackInv, TypeOK
      <3>2. ~(depth + 1 > MAX_DEPTH)
        BY <1>4
      <3> QED BY <2>1, <3>1, <3>2, Limits
    <2>5. aggTimer' \in {"none", "armed", "cleared", "fired"}
      BY <2>1 DEF StopTimer, FallbackInv, TypeOK
    <2> HIDE DEF variant
    <2>6. TypeOK'
      BY <2>1, <2>2, <2>3, <2>4, <2>5 DEF FallbackInv, TypeOK, Fetches
    <2>7. FetchInv'
      BY <1>1, <2>1, <2>2 DEF FetchInv
    <2>8. WalkInv'
      BY <1>1, <2>1, <2>2 DEF FallbackInv, WalkInv
    <2>9. PlainInv'
      BY <1>1, <2>1 DEF FallbackInv, PlainInv
    <2> QED BY <2>6, <2>7, <2>8, <2>9 DEF FallbackInv
  <1> QED BY <1>3, <1>4

LEMMA OpenMediaKeeps ==
  ASSUME FallbackInv, job.at = "body", job.what = "manifest", Playlist.kind = "media",
         OpenMedia
  PROVE  FallbackInv'
  <1> DEFINE walked == WalkPlaylist(Playlist.lines)
             refused == walked = <<>> \/ \E i \in DOMAIN walked : walked[i].uri \in Blocked
  <1>1. /\ pc = "manifest" /\ segments = <<>> /\ parts = <<>>
        /\ Len(parts) = Len(segments) /\ verdict # "success"
    BY ManifestBody
  <1>2. walked \in Seq(SegmentShape(site))
    <2>1. Playlist.lines \in Seq(LineShape(site))
      BY ManifestBody DEF SiteShape, Playlist
    <2> QED BY <2>1, WalkTyped
  <1>3. CASE HasBadKey(Playlist.lines)
    BY <1>3, FinishKeeps DEF OpenMedia, Verdicts
  <1>4. CASE ~HasBadKey(Playlist.lines) /\ refused
    BY <1>4, FinishKeeps DEF OpenMedia, Verdicts
  <1>5. CASE Finish("io_error")
    BY <1>5, FinishKeeps DEF Verdicts
  <1>6. CASE ~HasBadKey(Playlist.lines) /\ ~refused /\ ~Finish("io_error")
    <2>1. /\ pc' = "segments" /\ segments' = walked /\ dir' = TRUE /\ job' = Idle
          /\ UNCHANGED <<site, url, depth, keyCache, parts, signals, conf, verdict>>
      BY <1>6 DEF OpenMedia
    <2>2. job' \in Fetches /\ job'.what = "nothing" /\ job'.at = "idle"
      BY <2>1, IdleFetch
    <2>3. Playlist' = Playlist /\ Len(parts') = 0 /\ Len(segments') \in Nat
      BY <1>1, <1>2, <2>1, SeqElements DEF Playlist
    <2> HIDE DEF walked
    <2>4. TypeOK'
      BY <2>1, <2>2, <2>3 DEF FallbackInv, TypeOK, Fetches, signals
    <2>5. FetchInv'
      BY <2>1, <2>2 DEF FetchInv
    <2>6. WalkInv'
      <3>1. segments' = WalkPlaylist(Playlist.lines)'
        BY <2>1, <2>3 DEF walked
      <3>2. HasBadKey(Playlist.lines)' = HasBadKey(Playlist.lines)
        BY <2>3
      <3>3. segments' \in Seq(SegmentShape(site)) /\ site' = site
        BY <1>2, <2>1
      <3>4. parts' \in Seq(DOMAIN site.cipher \cup {Garbled})
        BY <2>1 DEF FallbackInv, WalkInv
      <3> QED BY <1>6, <2>1, <2>2, <2>3, <3>1, <3>2, <3>3, <3>4 DEF WalkInv
    <2>7. PlainInv'
      BY <1>1, <2>1 DEF FallbackInv, PlainInv
    <2> QED BY <2>4, <2>5, <2>6, <2>7 DEF FallbackInv
  <1> QED BY <1>3, <1>4, <1>5, <1>6

LEMMA ManifestReadKeeps ==
  ASSUME FallbackInv, ManifestRead
  PROVE  FallbackInv'
  <1>1. job.at = "body" /\ job.what = "manifest"
    BY DEF ManifestRead
  <1>2. CASE Finish("no_media_found") \/ Finish("drm_detected")
    BY <1>2, FinishKeeps DEF Verdicts
  <1>3. CASE Playlist.kind = "master" /\ FollowVariant
    BY <1>1, <1>3, FollowVariantKeeps
  <1>4. CASE Playlist.kind = "media" /\ OpenMedia
    BY <1>1, <1>4, OpenMediaKeeps
  <1> QED BY <1>2, <1>3, <1>4 DEF ManifestRead

LEMMA NextSegmentKeeps ==
  ASSUME FallbackInv, NextSegment
  PROVE  FallbackInv'
  <1>1. pc = "segments" /\ Len(parts) < Len(segments)
    <2>1. Len(parts) \in Nat /\ Len(segments) \in Nat
      BY SeqElements DEF FallbackInv, WalkInv
    <2> QED BY <2>1 DEF NextSegment, current
  <1>2. CASE Finish("network_error")
    BY <1>2, FinishKeeps DEF Verdicts
  <1>3. ASSUME NEW what \in {"key", "segment"}, Fetch(what), JobStep
        PROVE  FallbackInv'
    <2>1. job' \in Fetches /\ job'.what = what /\ job'.at = "request"
      BY <1>3, FetchStarts DEF Fetch
    <2>2. Fetching
      BY <1>1, <1>3, <2>1 DEF Fetching, JobStep, signals, FallbackInv, TypeOK
    <2> QED BY <2>2, FetchingKeeps
  <1>4. Finish("network_error") \/ \E what \in {"key", "segment"} : Fetch(what) /\ JobStep
    BY DEF NextSegment
  <1> QED BY <1>2, <1>3, <1>4

LEMMA KeyReadKeeps ==
  ASSUME FallbackInv, KeyRead
  PROVE  FallbackInv'
  <1>1. job.at = "body" /\ job.what = "key" /\ pc = "segments"
    BY FetchIsUnderWay DEF KeyRead, FallbackInv, FetchInv
  <1>2. /\ job' = Idle
        /\ UNCHANGED <<site, pc, url, depth, segments, parts, signals, dir, conf, verdict>>
    BY DEF KeyRead
  <1>3. job' \in Fetches /\ job'.what = "nothing" /\ job'.at = "idle"
    BY <1>2, IdleFetch
  <1> USE DEF signals
  <1>4. TypeOK'
    BY <1>2, <1>3 DEF FallbackInv, TypeOK, Fetches
  <1>5. FetchInv'
    BY <1>1, <1>2, <1>3 DEF FetchInv
  <1>6. WalkInv'
    BY <1>2, <1>3 DEF FallbackInv, WalkInv, Playlist
  <1>7. PlainInv'
    BY <1>2 DEF FallbackInv, PlainInv, Playlist
  <1> QED BY <1>4, <1>5, <1>6, <1>7 DEF FallbackInv

LEMMA SegmentReadKeeps ==
  ASSUME FallbackInv, SegmentRead
  PROVE  FallbackInv'
  <1>1. job.at = "body" /\ job.what = "segment" /\ pc = "segments"
    BY FetchIsUnderWay DEF SegmentRead, FallbackInv, FetchInv
  <1>2. /\ Len(parts) \in Nat /\ Len(segments) \in Nat /\ Len(parts) < Len(segments)
        /\ segments \in Seq(SegmentShape(site))
        /\ parts \in Seq(DOMAIN site.cipher \cup {Garbled})
    BY <1>1, SeqElements DEF FallbackInv, WalkInv
  <1>3. current \in 1..Len(segments) /\ DOMAIN segments = 1..Len(segments)
    BY <1>2, SeqElements DEF current
  <1>4. CASE Finish("network_error") \/ Finish("io_error")
    BY <1>4, FinishKeeps DEF Verdicts
  <1>5. ASSUME NEW plain \in Decrypt(segments[current], Playlist.mediaSequence, current),
               plain # "throws",
               parts' = Append(parts, plain), job' = Idle,
               UNCHANGED <<site, pc, url, depth, segments, keyCache, signals, dir,
                           conf, verdict>>
        PROVE  FallbackInv'
    <2>1. /\ parts' = Append(parts, plain) /\ job' = Idle
          /\ UNCHANGED <<site, pc, url, depth, segments, keyCache, signals, dir,
                         conf, verdict>>
      BY <1>5
    <2>2. plain = segments[current].uri \/ TurnedOff(Playlist.lines, current)
      <3>1. segments = WalkPlaylist(Playlist.lines) /\ Playlist.kind = "media"
        <4>1. segments # <<>>
          BY <1>2
        <4> QED BY <4>1 DEF FallbackInv, WalkInv
      <3>2. site \in Sites /\ url \in DOMAIN site.playlists
        BY DEF FallbackInv, TypeOK
      <3>3. current \in DOMAIN WalkPlaylist(Playlist.lines)
        BY <1>3, <3>1
      <3>4. \/ Decrypt(WalkPlaylist(Playlist.lines)[current], Playlist.mediaSequence, current)
                 = {WalkPlaylist(Playlist.lines)[current].uri}
            \/ TurnedOff(Playlist.lines, current)
        BY <3>1, <3>2, <3>3, DecryptedAsAnnounced DEF Playlist
      <3> QED BY <1>5, <3>1, <3>4
    <2>3. plain \in DOMAIN site.cipher \cup {Garbled}
      <3>1. segments[current] \in SegmentShape(site)
        BY <1>2, <1>3, SeqElements
      <3>2. plain \in {segments[current].uri, Garbled}
        BY <1>5 DEF Decrypt
      <3> QED BY <3>1, <3>2 DEF SegmentShape
    <2>4. job' \in Fetches /\ job'.what = "nothing" /\ job'.at = "idle"
      BY <2>1, IdleFetch
    <2>5. /\ parts' \in Seq(DOMAIN site.cipher \cup {Garbled})
          /\ Len(parts') = Len(parts) + 1
          /\ \A n \in 1..Len(parts) : parts'[n] = parts[n]
          /\ parts'[Len(parts) + 1] = plain
      <3>1. plain \in DOMAIN site.cipher \cup {Garbled}
        BY <2>3
      <3> QED BY <1>2, <2>1, <3>1
    <2>6. TypeOK'
      BY <1>2, <2>1, <2>4, <2>5 DEF FallbackInv, TypeOK, Fetches, signals
    <2>7. FetchInv'
      BY <1>1, <2>1, <2>4 DEF FetchInv
    <2>8. WalkInv'
      <3>1. Playlist' = Playlist
        BY <2>1 DEF Playlist
      <3> QED BY <1>1, <1>2, <2>1, <2>4, <2>5, <3>1 DEF FallbackInv, WalkInv
    <2>9. PlainInv'
      <3>1. DOMAIN parts' = 1..(Len(parts) + 1) /\ DOMAIN parts = 1..Len(parts)
        BY <1>2, <2>5, SeqElements
      <3>2. \A n \in 1..Len(parts) : parts[n] = segments[n].uri \/ TurnedOff(Playlist.lines, n)
        BY <3>1 DEF FallbackInv, PlainInv
      <3>3. \A n \in 1..(Len(parts) + 1) : n \in 1..Len(parts) \/ n = Len(parts) + 1
        BY <1>2
      <3>4. \/ parts'[Len(parts) + 1] = segments[Len(parts) + 1].uri
            \/ TurnedOff(Playlist.lines, Len(parts) + 1)
        BY <2>2, <2>5 DEF current
      <3>5. Playlist' = Playlist
        BY <2>1 DEF Playlist
      <3>6. \A n \in DOMAIN parts' :
              parts'[n] = segments'[n].uri \/ TurnedOff(Playlist.lines, n)
        BY <2>1, <2>5, <3>1, <3>2, <3>3, <3>4
      <3>7. verdict' # "success"
        BY <1>1, <2>1 DEF FallbackInv, PlainInv
      <3> QED BY <3>5, <3>6, <3>7 DEF PlainInv
    <2> QED BY <2>6, <2>7, <2>8, <2>9 DEF FallbackInv
  <1> QED BY <1>4, <1>5 DEF SegmentRead

LEMMA ConcatKeeps ==
  ASSUME FallbackInv, Concat
  PROVE  FallbackInv'
  <1>1. Len(parts) = Len(segments)
    <2>1. Len(parts) \in Nat /\ Len(segments) \in Nat /\ Len(parts) <= Len(segments)
      BY SeqElements DEF FallbackInv, WalkInv
    <2> QED BY <2>1 DEF Concat, current
  <1>2. Finish("success") \/ Finish("network_error") \/ Finish("io_error")
    BY DEF Concat
  <1> QED BY <1>1, <1>2, FinishKeeps DEF Verdicts

LEMMA FallbackStep == FallbackInv /\ [Next]_vars => FallbackInv'
  <1> SUFFICES ASSUME FallbackInv, [Next]_vars PROVE FallbackInv'
    OBVIOUS
  <1>1. CASE UNCHANGED vars
    <2>1. Fetching
      BY <1>1 DEF vars, walk, Fetching, FallbackInv, FetchInv, TypeOK
    <2> QED BY <2>1, FetchingKeeps
  <1>2. CASE FetchStep
    BY <1>2, RequestStepsKeep, RequestFailsKeeps, FetchRefusedKeeps, ManifestReadKeeps,
       KeyReadKeeps, SegmentReadKeeps DEF FetchStep
  <1>3. CASE Prepare \/ StreamlinkSucceeds \/ StreamlinkFails
    BY <1>3, PrepareKeeps, StreamlinkKeeps
  <1>4. CASE NextSegment \/ Concat
    BY <1>4, NextSegmentKeeps, ConcatKeeps
  <1>5. CASE ParentAborts \/ AggregateExpires
    BY <1>5, SignalsKeep
  <1> QED BY <1>1, <1>2, <1>3, <1>4, <1>5 DEF Next

LEMMA FallbackInvariant == Spec => []FallbackInv
  BY FallbackInit, FallbackStep, PTL DEF Spec

----------------------------------------------------------------------------
(* Theorems                                                                *)

\* Every variable keeps its type: the playlist followed is one of the site's, no
\* deeper than MAX_DEPTH, attempts and redirects within their limits, and never
\* more parts than segments: streamlink-backend.js 679-703, 755-820.
THEOREM FallbackTypeCorrect == Spec => []TypeOK
  <1>1. FallbackInv => TypeOK
    BY DEF FallbackInv
  <1> QED BY <1>1, FallbackInvariant, PTL

\* Whatever tags a playlist mixes, each part written is the plaintext of its
\* segment, unless METHOD=NONE turned a session key off before it, and all are
\* there on success, provided the site encrypts as it announces:
\* streamlink-backend.js 128-147, 755-783, 822-866.
THEOREM OnlyPlaintextWritten == Spec => []OutputIsPlaintext
  <1>1. FallbackInv => OutputIsPlaintext
    BY DEF FallbackInv, PlainInv, OutputIsPlaintext
  <1> QED BY <1>1, FallbackInvariant, PTL

\* Segments and keys are fetched only for a media playlist all of whose key tags
\* are usable, however it was reached: streamlink-backend.js 16-18, 721-730.
THEOREM DrmLeftAlone == Spec => []DrmIsNeverFetched
  <1>1. ASSUME FallbackInv PROVE DrmIsNeverFetched
    <2> SUFFICES ASSUME job.what \in {"key", "segment"}
                 PROVE  /\ Playlist.kind = "media"
                        /\ \A line \in ToSet(Playlist.lines) :
                             line.tag = "segment" \/ line.key.uri # "bad"
      BY DEF DrmIsNeverFetched
    <2>1. segments # <<>>
      <3>1. Len(parts) \in Nat /\ Len(parts) < Len(segments)
        BY <1>1, SeqElements DEF FallbackInv, WalkInv
      <3> QED BY <3>1
    <2>2. Playlist.kind = "media" /\ ~HasBadKey(Playlist.lines)
      BY <1>1, <2>1 DEF FallbackInv, WalkInv
    <2>3. Playlist.lines \in Seq(LineShape(site))
      BY <1>1, <2>2, FallbackAssumption DEF FallbackInv, TypeOK, SiteShape, Playlist
    <2>4. ASSUME NEW i \in DOMAIN Playlist.lines, Playlist.lines[i].tag # "segment"
          PROVE  Playlist.lines[i].key.uri # "bad"
      <3>1. Playlist.lines[i] \in LineShape(site)
        BY <2>3, <2>4, SeqElements
      <3>2. ~(Playlist.lines[i].method = "AES-128" /\ Playlist.lines[i].key.uri = "bad")
        BY <2>2, <2>4 DEF HasBadKey
      <3>3. ASSUME NEW line \in LineShape(site), line.tag # "segment",
                   line.method # "AES-128"
            PROVE  line.key = Clear
        BY <3>3 DEF LineShape
      <3> QED BY <2>4, <3>1, <3>2, <3>3 DEF Clear
    <2> QED BY <2>2, <2>4 DEF ToSet
  <1> QED BY <1>1, FallbackInvariant, PTL
============================================================================
