--------------------------- MODULE MCTrackTiming ---------------------------
(* TrackTiming on small tracks; every constant gets its value in the .cfg. *)
EXTENDS TrackTiming
=============================================================================
