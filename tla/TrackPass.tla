----------------------------- MODULE TrackPass -----------------------------
(***************************************************************************)
(* What one pass over a track may leave in the raw buffers, whatever the   *)
(* drive, the gate, the stream and the DMA do: the promise of              *)
(* software/datapath.c's read_track_sg.  The imaging loop is built on it,  *)
(* and TrackRead, which has the DMA and its descriptors, keeps it.         *)
(***************************************************************************)
EXTENDS Integers

CONSTANTS
    Sectors,            \* drive_params.sectors
    Garbage,            \* buffer contents that fail their CRC
    Missing             \* nothing there

Sector == 0 .. Sectors - 1

\* What the DMA delivered of one area: a packet whose bits are right or not, one of
\* a wrong length or without a whole area after the sync byte ("absent"), or a
\* descriptor that never completed.
AreaResult == {"good", "corrupt", "absent", "incomplete"}
Delivered == {"good", "corrupt"}

\* An area buffer after the pass: overwritten if the area was found, else as before.
Copied(result, position, before) ==
    CASE result = "good" -> position
      [] result = "corrupt" -> Garbage
      [] OTHER -> before

\* read_track_sg's descriptor loop.  It visits the sectors in order, stops at the
\* first incomplete descriptor, and looks at a sector's data descriptor only when
\* its address area was found.  here[s] is the sector that passes as number s.
PassOutcome(raw, here, address, data) ==
    LET addressOk(s) == address[s] \in Delivered
        breaks(s) == \/ address[s] = "incomplete"
                     \/ addressOk(s) /\ data[s] = "incomplete"
        reached(s) == \A r \in 0 .. s - 1 : ~breaks(r)
        found(s) == reached(s) /\ addressOk(s)
    IN  [s \in Sector |->
            [addr |-> IF found(s) THEN Copied(address[s], here[s], Missing) ELSE Missing,
             data |-> IF found(s) THEN Copied(data[s], here[s], raw[s].data) ELSE raw[s].data,
             data_read_ok |-> found(s) /\ data[s] \in Delivered]]
=============================================================================
