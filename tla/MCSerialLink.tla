--------------------------- MODULE MCSerialLink ---------------------------
(* SerialLink with short words; every constant gets its value in the .cfg. *)
EXTENDS SerialLink
=============================================================================
