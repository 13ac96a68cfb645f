---------------------------- MODULE MCTrackIngest ----------------------------
(* Two visits of one camera, whose pipeline and backend may restart.         *)
EXTENDS TrackIngest, TLC
=============================================================================
