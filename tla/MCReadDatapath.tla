--------------------------- MODULE MCReadDatapath ---------------------------
(* ReadDatapath with short bytes; every constant gets its value in the .cfg. *)
EXTENDS ReadDatapath
=============================================================================
