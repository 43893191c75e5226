------------------------------ MODULE MCFifo ------------------------------
(* Instances of Fifo for TLC.                                              *)
EXTENDS Fifo
CONSTANTS w1, w2        \* two data words
=============================================================================
