---------------------------- MODULE MCTrackLive -----------------------------
(* Two playback tracks.                                                     *)
EXTENDS Track

CONSTANTS tr1, tr2

Both == {tr1, tr2}

=============================================================================
