---------------------------- MODULE MCTrackRead ----------------------------
(* TrackRead on a small track; every constant gets its value in the .cfg. *)
EXTENDS TrackRead
=============================================================================
