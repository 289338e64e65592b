----------------------------- MODULE MCCapture -----------------------------
(* Small instances of MediaCapture for TLC.                                *)
EXTENDS MediaCapture, TLC

CONSTANTS q1, q2

Profile(manifest, size, encoded, drm) ==
  [manifest |-> manifest, size |-> size, encoded |-> encoded, drm |-> drm]

Segment     == Profile(FALSE, 1, 1, FALSE)
EmptyBody   == Profile(FALSE, 0, 0, FALSE)
Compressed  == Profile(FALSE, 3, 1, FALSE)  \* past the cap once decoded
Huge        == Profile(FALSE, 3, 3, FALSE)
Playlist    == Profile(TRUE, 1, 1, FALSE)
DrmPlaylist == Profile(TRUE, 1, 1, TRUE)
BigPlaylist == Profile(TRUE, 2, 1, FALSE)

Page(p1, p2) == (q1 :> p1) @@ (q2 :> p2)
SmallPages == {Page(Segment, DrmPlaylist), Page(Playlist, DrmPlaylist),
               Page(EmptyBody, Compressed), Page(Huge, Playlist),
               Page(BigPlaylist, Segment)}
============================================================================
