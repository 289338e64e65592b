------------------------------ MODULE MCHls ------------------------------
(* Small webs of HlsFallback for TLC.                                      *)
EXTENDS HlsFallback, TLC

Key(uri, iv) == [uri |-> uri, iv |-> iv]
KeyTag(tag, method, key) == [tag |-> tag, method |-> method, key |-> key]
Segment(uri) == [tag |-> "segment", uri |-> uri]
Variant(url_, bandwidth) == [url |-> url_, bandwidth |-> bandwidth]
Media(lines, seq) == [kind |-> "media", lines |-> lines, mediaSequence |-> seq]
Master(variants) == [kind |-> "master", variants |-> variants]
Other(kind) == [kind |-> kind]
Web(hls, auth, playlists, cipher) ==
  [hls |-> hls, auth |-> auth, start |-> "p", playlists |-> playlists, cipher |-> cipher]
NoCipher == [u \in {"s1", "s2", "private"} |-> Clear]

Plain  == <<Segment("s1"), Segment("s2")>>
\* k1 with default IVs, then k2 with an IV of its own; the playlist starts at 5.
Rotated == <<KeyTag("key", "AES-128", Key("k1", -1)), Segment("s1"), Segment("s2"),
             KeyTag("key", "AES-128", Key("k2", 9)), Segment("s3")>>
\* The session key holds for s1; s2 has a key of its own.
Session == <<KeyTag("session", "AES-128", Key("k1", 7)), Segment("s1"),
             KeyTag("key", "AES-128", Key("k2", -1)), Segment("s2")>>
\* Clear after all, says METHOD=NONE: the fallback uses the session key.
Reset == <<KeyTag("session", "AES-128", Key("k1", 7)),
           KeyTag("key", "NONE", Clear), Segment("s1")>>
BadKey == <<Segment("s1"), KeyTag("key", "AES-128", Key("bad", -1)), Segment("s2")>>

SmallSites == {
  Web(FALSE, TRUE, "p" :> Other("html"), NoCipher),
  Web(TRUE, FALSE, "p" :> Other("html"), NoCipher),
  Web(TRUE, FALSE, "p" :> Other("live"), NoCipher),
  Web(TRUE, TRUE, "p" :> Media(Plain, 0), NoCipher),
  Web(TRUE, FALSE, "p" :> Media(<<Segment("s1"), Segment("private")>>, 0), NoCipher),
  Web(TRUE, FALSE, "p" :> Media(<<>>, 0), NoCipher),
  Web(TRUE, FALSE, "p" :> Media(Rotated, 5),
      ("s1" :> Key("k1", 5)) @@ ("s2" :> Key("k1", 6)) @@ ("s3" :> Key("k2", 9))),
  Web(TRUE, FALSE, "p" :> Media(Session, 0),
      ("s1" :> Key("k1", 7)) @@ ("s2" :> Key("k2", 1))),
  Web(TRUE, FALSE, "p" :> Media(Reset, 0), "s1" :> Clear),
  Web(TRUE, FALSE, "p" :> Media(BadKey, 0),
      ("s1" :> Clear) @@ ("s2" :> Key("bad", 1))),
  Web(TRUE, FALSE, ("p" :> Master(<<Variant("low", 1), Variant("", 9),
        Variant("private", 8), Variant("high", 3), Variant("mid", 3)>>))
      @@ ("mid" :> Media(Plain, 0))
      @@ ("low" :> Media(Plain, 0)) @@ ("high" :> Other("drm")), NoCipher),
  Web(TRUE, FALSE, ("p" :> Master(<<Variant("a", 1), Variant("private", 2)>>))
      @@ ("a" :> Master(<<Variant("b", 0), Variant("b", 2)>>))
      @@ ("b" :> Media(Plain, 3)), NoCipher),
  Web(TRUE, FALSE, "p" :> Master(<<Variant("p", 1)>>), NoCipher) }
==========================================================================
