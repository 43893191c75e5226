----------------------------- MODULE TrackRead -----------------------------
(***************************************************************************)
(* How the packets of a track reach the raw buffers: the gate, the stream  *)
(* FIFO, the AXI DMA with its chain of descriptors, and software/          *)
(* datapath.c, whose read_track_sg starts them, waits, stops them and      *)
(* looks at what the descriptors say, and whose flush_fifo and reset_dma   *)
(* clear up when the last pass recommended it.                             *)
(*                                                                         *)
(* A packet carries no name: descriptor 2s is taken for sector s's address *)
(* area and 2s + 1 for its data area.  TrackTiming shows that the windows  *)
(* of a pass open in that order and ReadDatapath that each one becomes a   *)
(* packet; here a pass may be given up at any moment, which cuts the gate  *)
(* and leaves packets behind.                                              *)
(***************************************************************************)
EXTENDS TrackPass, Sequences

CONSTANTS
    FlushDescriptors,   \* length of the chain that flush_fifo drains into: 128
    Passes,             \* bound: calls of read_track_sg
    None

Areas == 2 * Sectors
Area == 0 .. Areas - 1
SectorOf(area) == area \div 2
IsAddress(area) == area % 2 = 0

ASSUME TrackAssumption ==
    /\ Sectors \in Nat /\ Passes \in Nat /\ FlushDescriptors \in Nat
    /\ Sectors > 1
    \* A pass can leave all its packets and one of the pass before in the stream.
    /\ FlushDescriptors > Areas

VARIABLES
    pc,                 \* where the program is
    pass,               \* calls of read_track_sg so far
    reset_recommended,
    tasks,              \* the sector timer has been given the sectors of this pass
    area,               \* next area to come under the heads
    gate,               \* it is open for that area
    stream,             \* complete packets in the FIFO (it is in packet mode)
    dma,                \* state, next descriptor, tail descriptor, RS bit
    descriptors,        \* the packet a descriptor was completed with, or None
    raw                 \* raw_sectors, as in Imager

program == <<pc, pass, reset_recommended>>
disk == <<tasks, area, gate>>
vars == <<program, disk, stream, dma, descriptors, raw>>

\* What the program can tell of a packet: whether its length is that of an address
\* area or of a data area (the two ranges do not meet), and whether a whole area
\* follows a sync byte in it.
Packet == [pass : 1 .. Passes, area : Area, length : {"address", "data", "other"},
           synced : BOOLEAN, cut : BOOLEAN]
ASSUME NoneAssumption == None \notin Packet
OwnLength(a) == IF IsAddress(a) THEN "address" ELSE "data"

DmaState == {"halted", "idle", "receiving"}
RawContent == [pass : 1 .. Passes, sector : Sector] \cup {Garbage, Missing}

TypeOK ==
    /\ pc \in {"attempt", "flush", "drain", "flushed", "restart", "start", "fill", "tail",
               "queue", "wait", "stop", "halt", "evaluate"}
    /\ pass \in 0 .. Passes
    /\ reset_recommended \in BOOLEAN /\ tasks \in BOOLEAN /\ gate \in BOOLEAN
    /\ area \in 0 .. Areas
    /\ stream \in Seq(Packet)
    /\ dma \in [state : DmaState, current : 0 .. FlushDescriptors - 1,
                tail : 0 .. FlushDescriptors - 1, run : BOOLEAN]
    /\ descriptors \in [Area -> Packet \cup {None}]
    /\ raw \in [Sector -> [addr : RawContent, data : RawContent, data_read_ok : BOOLEAN]]

Halted == [state |-> "halted", current |-> 0, tail |-> 0, run |-> FALSE]

\* After datapath_start, flush_fifo and reset_dma.
Init ==
    /\ pc = "attempt"
    /\ pass = 0
    /\ reset_recommended = FALSE
    /\ tasks = FALSE /\ area = 0 /\ gate = FALSE
    /\ stream = <<>>
    /\ dma = Halted
    /\ descriptors = [a \in Area |-> None]
    /\ raw = [s \in Sector |-> [addr |-> Missing, data |-> Missing, data_read_ok |-> FALSE]]

-----------------------------------------------------------------------------
(* The disk and the gate.                                                   *)

\* (Seeded fault: OpenGateAgain has tasks that are never used up.)
OpenGateAgain ==
    /\ tasks /\ ~gate
    /\ gate' = TRUE
    /\ UNCHANGED <<program, tasks, area, stream, dma, descriptors, raw>>
OpenGate ==
    /\ tasks /\ ~gate /\ area < Areas
    /\ gate' = TRUE
    /\ UNCHANGED <<program, tasks, area, stream, dma, descriptors, raw>>

\* A window that is not cut short has the length of its area.
CloseGate ==
    /\ gate
    /\ \E synced \in BOOLEAN :
          stream' = Append(stream, [pass |-> pass, area |-> area, length |-> OwnLength(area),
                                    synced |-> synced, cut |-> FALSE])
    /\ gate' = FALSE
    /\ area' = area + 1
    /\ UNCHANGED <<program, tasks, dma, descriptors, raw>>

-----------------------------------------------------------------------------
(* The DMA.  A stopped channel halts, but may first wait for the packet of  *)
(* the descriptor it has fetched.                                           *)

Receive ==
    /\ dma.state = "receiving" /\ stream # <<>>
    /\ stream' = Tail(stream)
    /\ descriptors' = IF dma.current \in Area
                      THEN [descriptors EXCEPT ![dma.current] = Head(stream)] ELSE descriptors
    /\ dma' = [dma EXCEPT !.state = IF ~dma.run THEN "halted"
                                    ELSE IF dma.current = dma.tail THEN "idle" ELSE @,
                          !.current = IF dma.current = dma.tail THEN 0 ELSE @ + 1]
    /\ UNCHANGED <<program, disk, raw>>

\* CURRDESC is only heeded while the channel is halted; then RS is set.
StartDma == dma' = IF dma.state = "halted"
                   THEN [Halted EXCEPT !.state = "idle", !.run = TRUE]
                   ELSE [dma EXCEPT !.run = TRUE]

SetTail(last) == dma' = [dma EXCEPT !.state = "receiving", !.tail = last]

StopDma ==
    \/ dma' = Halted
    \/ /\ dma.state = "receiving"
       /\ dma' = [dma EXCEPT !.run = FALSE]

-----------------------------------------------------------------------------
(* The program.                                                             *)

Goto(from, to) == pc = from /\ pc' = to

\* main: reset_dma, flush_fifo, reset_dma, if the last pass recommended it.
ResetDatapath ==
    /\ reset_recommended
    /\ Goto("attempt", "flush")
    /\ dma' = Halted
    /\ UNCHANGED <<pass, reset_recommended, disk, stream, descriptors, raw>>

\* flush_fifo: a chain of its own, in the same memory.
Flush ==
    /\ Goto("flush", "drain")
    /\ dma' = [state |-> "receiving", current |-> 0, tail |-> FlushDescriptors - 1,
               run |-> TRUE]
    /\ descriptors' = [a \in Area |-> None]
    /\ UNCHANGED <<pass, reset_recommended, disk, stream, raw>>

\* It waits long enough for what is there, then stops the DMA.
EndFlush ==
    /\ Goto("drain", "flushed")
    /\ stream = <<>> \/ dma.state = "idle"
    /\ StopDma
    /\ UNCHANGED <<pass, reset_recommended, disk, stream, descriptors, raw>>

Flushed ==
    /\ Goto("flushed", "attempt")
    /\ dma' = Halted
    /\ reset_recommended' = FALSE
    /\ UNCHANGED <<pass, disk, stream, descriptors, raw>>

\* read_track_sg restarts the timer.  The DMA needs microseconds for a packet and the
\* program milliseconds to decode a track: a DMA that was waiting has taken what came.
Begin ==
    /\ Goto("attempt", "start")
    /\ dma.state = "receiving" => stream = <<>>
    /\ ~reset_recommended /\ pass < Passes
    /\ pass' = pass + 1
    /\ area' = 0
    /\ UNCHANGED <<reset_recommended, tasks, gate, stream, dma, descriptors, raw>>

\* It starts the DMA,
Start ==
    /\ Goto("start", "fill")
    /\ StartDma
    /\ UNCHANGED <<pass, reset_recommended, disk, stream, descriptors, raw>>

\* fills in the descriptor chain,
FillChain ==
    /\ Goto("fill", "tail")
    /\ descriptors' = [a \in Area |-> None]
    /\ UNCHANGED <<pass, reset_recommended, disk, stream, dma, raw>>

\* sets the tail descriptor,
Tailed ==
    /\ Goto("tail", "queue")
    /\ SetTail(Areas - 1)
    /\ UNCHANGED <<pass, reset_recommended, disk, stream, descriptors, raw>>

\* queues the sectors
Queue ==
    /\ Goto("queue", "wait")
    /\ tasks' = TRUE
    /\ UNCHANGED <<pass, reset_recommended, area, gate, stream, dma, descriptors, raw>>

\* and waits for the DMA to have completed the tail, or 3 s.
EndWait ==
    /\ Goto("wait", "stop")
    /\ UNCHANGED <<pass, reset_recommended, disk, stream, dma, descriptors, raw>>

\* The timer is restarted: it forgets its tasks, and an open gate is cut.  Of the
\* packet nothing is certain any more, unless it was cut when all but done.
StopTimer ==
    /\ Goto("stop", "halt")
    /\ tasks' = FALSE
    /\ gate' = FALSE
    /\ IF gate
       THEN \E length \in {"address", "data", "other"}, synced, cut \in BOOLEAN :
              /\ ~cut => length = OwnLength(area)
              /\ stream' = Append(stream, [pass |-> pass, area |-> area, length |-> length,
                                           synced |-> synced, cut |-> cut])
       ELSE UNCHANGED stream
    /\ UNCHANGED <<pass, reset_recommended, area, dma, descriptors, raw>>

Halt ==
    /\ Goto("halt", "evaluate")
    /\ StopDma
    /\ UNCHANGED <<pass, reset_recommended, disk, stream, descriptors, raw>>

\* The descriptors, each taken for the area of its number.  Lengths are checked
\* first, then the sync byte and what follows it.
\* (Seeded fault: AcceptsAnyLength leaves the check of the length out.)
AcceptsAnyLength(a) ==
    LET packet == descriptors[a] IN
    CASE packet = None -> "incomplete"
      [] packet # None -> IF packet.synced THEN "found" ELSE "noSync"
Accepts(a) ==
    LET packet == descriptors[a] IN
    CASE packet = None -> "incomplete"
      [] packet # None /\ packet.length # OwnLength(a) -> "wrongLength"
      [] packet # None /\ packet.length = OwnLength(a)
            -> IF packet.synced THEN "found" ELSE "noSync"

\* What is copied out of a packet that was accepted.
ContentOf(a) ==
    LET packet == descriptors[a] IN
    IF packet.cut \/ IsAddress(packet.area) # IsAddress(a) THEN Garbage
    ELSE [pass |-> packet.pass, sector |-> SectorOf(packet.area)]

\* The loop over the sectors ends at an incomplete descriptor; only descriptors it
\* looks at can recommend a reset.
Breaks(s) == \/ Accepts(2 * s) = "incomplete"
             \/ Accepts(2 * s) = "found" /\ Accepts(2 * s + 1) = "incomplete"
Reached(s) == \A r \in 0 .. s - 1 : ~Breaks(r)
AddressFound(s) == Reached(s) /\ Accepts(2 * s) = "found"
DataFound(s) == AddressFound(s) /\ Accepts(2 * s + 1) = "found"

\* (Seeded fault: ResetOnBreaks takes a wrong length for a read error.)
ResetOnBreaks == \E s \in Sector : Reached(s) /\ Breaks(s)
ReqReset ==
    \E s \in Sector :
        \/ Reached(s) /\ Accepts(2 * s) \in {"incomplete", "wrongLength"}
        \/ AddressFound(s) /\ Accepts(2 * s + 1) \in {"incomplete", "wrongLength"}

Evaluate ==
    /\ Goto("evaluate", "attempt")
    /\ raw' = [s \in Sector |->
                [addr |-> IF AddressFound(s) THEN ContentOf(2 * s) ELSE Missing,
                 data |-> IF DataFound(s) THEN ContentOf(2 * s + 1) ELSE raw[s].data,
                 data_read_ok |-> DataFound(s)]]
    /\ reset_recommended' = ReqReset
    /\ UNCHANGED <<pass, disk, stream, dma, descriptors>>

Program == ResetDatapath \/ Flush \/ EndFlush \/ Flushed \/ Begin \/ Start \/ FillChain
           \/ Tailed \/ Queue \/ EndWait \/ StopTimer \/ Halt \/ Evaluate

Next == OpenGate \/ CloseGate \/ Receive \/ Program

Spec == Init /\ [][Next]_vars

-----------------------------------------------------------------------------
(* What the imaging loop relies on.                                         *)

\* Whatever is left over from earlier passes, a pass does to the raw buffers what
\* TrackPass allows: an area buffer holds that area of that sector as it passed in
\* this pass, or garbage, or is not touched.  Never a packet of an earlier pass (of
\* another track), never another sector's.
Result(a) ==
    CASE Accepts(a) = "incomplete" -> "incomplete"
      [] Accepts(a) = "found" -> IF ContentOf(a) = Garbage THEN "corrupt" ELSE "good"
      [] OTHER -> "absent"
ImplementsPass ==
    [][raw' = PassOutcome(raw, [s \in Sector |-> [pass |-> pass, sector |-> s]],
                          [s \in Sector |-> Result(2 * s)],
                          [s \in Sector |-> Result(2 * s + 1)])]_raw

\* A packet left over may still be taken into the next pass's first descriptor and
\* shift all others by one.  A pass with a packet in a descriptor that is not its own
\* recommends a reset, unless it is given up before the first sector has passed: one
\* track is misread, not the rest of the disk.
Misplaced(a) == descriptors[a] # None /\ <<descriptors[a].pass, descriptors[a].area>> # <<pass, a>>
Resynchronises ==
    [][pc = "evaluate" /\ pc' = "attempt" /\ area > 1 /\ (\E a \in Area : Misplaced(a))
            => reset_recommended']_vars

\* What an attempt may leave behind without recommending a reset is the packet of
\* the last area or the wait for it, nothing else.
LeftoverIsLastPacket ==
    pc = "attempt" /\ ~reset_recommended =>
        /\ stream # <<>> => Len(stream) = 1 /\ stream[1].area = Areas - 1
        /\ dma.state # "halted" => dma.current = Areas - 1
=============================================================================
