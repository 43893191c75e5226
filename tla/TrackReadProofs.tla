-------------------------- MODULE TrackReadProofs --------------------------
(***************************************************************************)
(* For tracks of any number of sectors and any number of passes, given up  *)
(* at any moment: what TrackRead does to the raw buffers is what TrackPass *)
(* promises, and packets left over do no lasting harm.                     *)
(*                                                                         *)
(* The inductive invariant numbers the packets of a pass in the order in   *)
(* which they came: those the DMA has taken and those in the stream are    *)
(* one sequence, which begins with the packet left over, if there is one.  *)
(***************************************************************************)
EXTENDS TrackRead, TLAPS

\* Packet number n of a pass that found off packets in the stream.  One that was not
\* the last has the length of its area.
Numbered(packet, n, off) ==
    IF n < off THEN packet.area = Areas - 1
    ELSE /\ packet.pass = pass
         /\ packet.area = n - off
         /\ n - off < area => ~packet.cut /\ packet.length = OwnLength(packet.area)

\* The stream holds the packets from number c to the last one; only a gate that was
\* cut adds one without the disk having moved on.
InOrder(c, off) ==
    /\ \A n \in 1 .. Len(stream) : Numbered(stream[n], c + n - 1, off)
    /\ \/ c + Len(stream) = off + area
       \/ /\ pc \in {"halt", "evaluate"}
          /\ area < Areas
          /\ c + Len(stream) = off + area + 1

\* The DMA began with the first descriptor and has completed c of them,
Chained(c, off) ==
    /\ InOrder(c, off)
    /\ \A a \in Area : IF a < c THEN descriptors[a] # None /\ Numbered(descriptors[a], a, off)
                       ELSE descriptors[a] = None
    /\ dma.state = "receiving" => dma.current = c /\ c < Areas

\* or it still waited at the last one, where it takes a single packet.
Stuck(c) ==
    /\ InOrder(c, 0)
    /\ \A a \in Area : a < Areas - 1 => descriptors[a] = None
    /\ IF c = 0 THEN descriptors[Areas - 1] = None
       ELSE descriptors[Areas - 1] # None /\ Numbered(descriptors[Areas - 1], 0, 0)
    /\ dma.state = "receiving" => dma.current = Areas - 1 /\ c = 0

PassInv ==
    pc \in {"queue", "wait", "stop", "halt", "evaluate"} =>
        \/ \E c \in 0 .. Areas, off \in 0 .. 1 : Chained(c, off)
        \/ \E c \in 0 .. 1 : Stuck(c)

LastPacketOnly == stream # <<>> => Len(stream) = 1 /\ stream[1].area = Areas - 1

BeginInv ==
    /\ pc \in {"start", "fill", "tail"} =>
          /\ LastPacketOnly
          /\ area = 0
          /\ dma.state = "receiving" => dma.current = Areas - 1 /\ stream = <<>>
    /\ pc = "start" => dma.state # "idle"
    /\ pc \in {"fill", "tail"} => dma.state # "halted"
    /\ pc \in {"fill", "tail"} /\ dma.state = "idle" => dma.current = 0
    /\ pc = "tail" => \A a \in Area : descriptors[a] = None

BetweenInv ==
    /\ pc = "attempt" =>
          /\ Len(stream) <= Areas + 1
          /\ ~reset_recommended =>
                LastPacketOnly /\ (dma.state # "halted" => dma.current = Areas - 1)
    /\ pc \in {"evaluate", "attempt"} =>
          dma.state # "idle" /\ (dma.state = "receiving" => ~dma.run)
    /\ pc = "flush" => dma.state = "halted" /\ Len(stream) <= Areas + 1
    /\ pc = "drain" =>
          /\ dma.state = "receiving" =>
                dma.current + Len(stream) <= Areas + 1 /\ dma.tail = FlushDescriptors - 1
          /\ dma.state = "idle" => stream = <<>>
    /\ pc = "flushed" => stream = <<>>

ControlInv ==
    /\ tasks => pc \in {"wait", "stop"}
    /\ gate => pc \in {"wait", "stop"} /\ area < Areas
    /\ dma.state = "receiving" => dma.current <= dma.tail
    /\ pc \in {"queue", "wait", "stop", "halt", "evaluate"} /\ dma.state = "receiving"
          => dma.tail = Areas - 1
    /\ pc \notin {"attempt", "flush", "drain", "flushed"} => pass > 0

IInv == TypeOK /\ ControlInv /\ PassInv /\ BeginInv /\ BetweenInv

-----------------------------------------------------------------------------
(* Areas and their numbers.                                                 *)

\* The last area is a data area; two areas next to each other are of two kinds.
LEMMA AreaFacts ==
    /\ Areas \in Nat /\ Areas >= 4 /\ FlushDescriptors \in Nat /\ FlushDescriptors > Areas
    /\ ~IsAddress(Areas - 1)
    /\ \A a \in Nat : IsAddress(a) # IsAddress(a + 1)
    /\ IsAddress(0)
BY TrackAssumption DEF Areas, IsAddress

LEMMA SectorFacts ==
    ASSUME NEW s \in Sector
    PROVE  /\ 2 * s \in Area /\ 2 * s + 1 \in Area
           /\ IsAddress(2 * s) /\ ~IsAddress(2 * s + 1)
           /\ SectorOf(2 * s) = s /\ SectorOf(2 * s + 1) = s
           /\ OwnLength(2 * s) = "address" /\ OwnLength(2 * s + 1) = "data"
BY TrackAssumption DEF Areas, Area, IsAddress, SectorOf, OwnLength, Sector

\* Every number of areas is that of a sector's address or data area.
LEMMA Halves ==
    ASSUME NEW n \in Nat
    PROVE  \E m \in Nat : n = 2 * m \/ n = 2 * m + 1
<1>1. n \div 2 \in Nat /\ (n = 2 * (n \div 2) \/ n = 2 * (n \div 2) + 1)
  OBVIOUS
<1> QED
  BY <1>1

-----------------------------------------------------------------------------
(* The packets in order.                                                    *)

\* Steps that leave the packets alone.
LEMMA SameOrder ==
    ASSUME NEW c \in Nat, NEW off \in Nat, InOrder(c, off),
           UNCHANGED <<stream, area, pass>>,
           pc \in {"halt", "evaluate"} => pc' \in {"halt", "evaluate"}
    PROVE  InOrder(c, off)'
BY DEF InOrder, Numbered

LEMMA SameChain ==
    ASSUME NEW c \in 0 .. Areas, NEW off \in 0 .. 1, Chained(c, off),
           UNCHANGED <<stream, area, pass, descriptors>>,
           pc \in {"halt", "evaluate"} => pc' \in {"halt", "evaluate"},
           dma'.state = "receiving" => dma.state = "receiving" /\ dma'.current = dma.current
    PROVE  Chained(c, off)'
<1>1. InOrder(c, off)'
  BY SameOrder, AreaFacts DEF Chained
<1> QED
  BY <1>1 DEF Chained, Numbered

LEMMA SameStuck ==
    ASSUME NEW c \in 0 .. 1, Stuck(c),
           UNCHANGED <<stream, area, pass, descriptors>>,
           pc \in {"halt", "evaluate"} => pc' \in {"halt", "evaluate"},
           dma'.state = "receiving" => dma.state = "receiving" /\ dma'.current = dma.current
    PROVE  Stuck(c)'
<1>1. InOrder(c, 0)'
  BY SameOrder DEF Stuck
<1> QED
  BY <1>1 DEF Stuck, Numbered

\* Such steps preserve PassInv.
LEMMA SamePass ==
    ASSUME PassInv, pc \in {"queue", "wait", "stop", "halt", "evaluate"},
           UNCHANGED <<stream, area, pass, descriptors>>,
           pc \in {"halt", "evaluate"} => pc' \in {"halt", "evaluate"},
           dma'.state = "receiving" => dma.state = "receiving" /\ dma'.current = dma.current
    PROVE  PassInv'
BY SameChain, SameStuck DEF PassInv

\* A packet is taken out of the stream: it is number c.
LEMMA OrderTail ==
    ASSUME NEW c \in Nat, NEW off \in Nat, InOrder(c, off),
           stream \in Seq(Packet), stream # <<>>, stream' = Tail(stream),
           area \in Nat, UNCHANGED <<area, pass, pc>>
    PROVE  InOrder(c + 1, off)' /\ Numbered(Head(stream), c, off)
<1>1. Len(stream) \in Nat /\ Len(stream) > 0 /\ Head(stream) = stream[1]
  OBVIOUS
<1>2. Len(stream') = Len(stream) - 1 /\ \A n \in 1 .. Len(stream') : stream'[n] = stream[n + 1]
  OBVIOUS
<1>3. Numbered(stream[1], c, off)
  BY <1>1 DEF InOrder
<1>4. ASSUME NEW n \in 1 .. Len(stream')
      PROVE  Numbered(stream[n], c + 1 + n - 1, off)'
  <2>1. n + 1 \in 1 .. Len(stream) /\ stream'[n] = stream[n + 1]
    BY <1>1, <1>2
  <2>2. Numbered(stream[n + 1], c + (n + 1) - 1, off)
    BY <2>1 DEF InOrder
  <2>3. c + (n + 1) - 1 = c + 1 + n - 1
    BY <1>1, <1>2
  <2> QED
    BY <2>1, <2>2, <2>3 DEF Numbered
<1>5. \/ c + 1 + Len(stream') = off + area'
      \/ /\ pc' \in {"halt", "evaluate"}
         /\ area' < Areas
         /\ c + 1 + Len(stream') = off + area' + 1
  <2>1. \/ c + Len(stream) = off + area
        \/ /\ pc \in {"halt", "evaluate"}
           /\ area < Areas
           /\ c + Len(stream) = off + area + 1
    BY DEF InOrder
  <2>2. c + 1 + Len(stream') = c + Len(stream)
    BY <1>1, <1>2
  <2> QED BY <2>1, <2>2
<1> QED
  BY <1>1, <1>3, <1>4, <1>5 DEF InOrder

\* A packet is put into it.
LEMMA OrderAppend ==
    ASSUME NEW c \in Nat, NEW off \in 0 .. 1, InOrder(c, off), pc \notin {"halt", "evaluate"},
           stream \in Seq(Packet), NEW packet \in Packet, stream' = Append(stream, packet),
           area \in Nat, pass' = pass, packet.pass = pass, packet.area = area,
           \/ /\ area' = area + 1
              /\ ~packet.cut /\ packet.length = OwnLength(area)
           \/ /\ area' = area /\ area < Areas
              /\ pc' = "halt"
    PROVE  InOrder(c, off)'
<1>1. Len(stream) \in Nat /\ c + Len(stream) = off + area
  BY DEF InOrder
<1>2. /\ Len(stream') = Len(stream) + 1
      /\ stream'[Len(stream) + 1] = packet
      /\ \A n \in 1 .. Len(stream) : stream'[n] = stream[n]
  OBVIOUS
<1>3. ASSUME NEW n \in 1 .. Len(stream')
      PROVE  Numbered(stream[n], c + n - 1, off)'
  <2>1. CASE n = Len(stream) + 1
    <3>1. c + n - 1 = off + area /\ ~(c + n - 1 < off) /\ c + n - 1 - off = area
      BY <1>1, <2>1
    <3>2. stream'[n] = packet
      BY <1>2, <2>1
    <3> QED
      BY <3>1, <3>2 DEF Numbered
  <2>2. CASE n # Len(stream) + 1
    <3>1. n \in 1 .. Len(stream)
      BY <1>1, <1>2, <2>2
    <3>2. Numbered(stream[n], c + n - 1, off) /\ stream'[n] = stream[n]
      BY <1>2, <3>1 DEF InOrder
    <3>3. c + n - 1 < off + area
      BY <1>1, <3>1
    <3> QED
      BY <1>1, <3>1, <3>2, <3>3 DEF Numbered
  <2> QED
    BY <2>1, <2>2
<1>4. \/ c + Len(stream') = off + area'
      \/ /\ pc' \in {"halt", "evaluate"}
         /\ area' < Areas
         /\ c + Len(stream') = off + area' + 1
  <2>1. CASE area' = area + 1
    BY <1>1, <1>2, <2>1
  <2>2. CASE area' = area /\ area < Areas /\ pc' = "halt"
    BY <1>1, <1>2, <2>2
  <2> QED
    BY <2>1, <2>2
<1> QED
  BY <1>3, <1>4 DEF InOrder

-----------------------------------------------------------------------------
(* Type correctness.                                                        *)

DmaType == [state : DmaState, current : 0 .. FlushDescriptors - 1,
            tail : 0 .. FlushDescriptors - 1, run : BOOLEAN]

LEMMA DmaFacts ==
    /\ Halted \in DmaType
    /\ TypeOK /\ (StartDma \/ StopDma \/ SetTail(Areas - 1)) => dma' \in DmaType
<1>1. 0 \in 0 .. FlushDescriptors - 1 /\ Areas - 1 \in 0 .. FlushDescriptors - 1
  BY AreaFacts
<1>2. {"halted", "idle", "receiving"} \subseteq DmaState /\ TRUE \in BOOLEAN /\ FALSE \in BOOLEAN
  BY DEF DmaState
<1>3. Halted \in DmaType
  BY <1>1, <1>2 DEF Halted, DmaType
<1>4. ASSUME TypeOK PROVE dma \in DmaType
  BY <1>4 DEF TypeOK, DmaType
<1>5. ASSUME TypeOK, StartDma PROVE dma' \in DmaType
  BY <1>1, <1>2, <1>3, <1>4, <1>5 DEF StartDma, DmaType, Halted
<1>6. ASSUME TypeOK, StopDma PROVE dma' \in DmaType
  BY <1>1, <1>2, <1>3, <1>4, <1>6 DEF StopDma, DmaType
<1>7. ASSUME TypeOK, SetTail(Areas - 1) PROVE dma' \in DmaType
  BY <1>1, <1>2, <1>4, <1>7 DEF SetTail, DmaType
<1> QED
  BY <1>3, <1>5, <1>6, <1>7

\* The initial state.
LEMMA InitIInv == Init => IInv
<1> SUFFICES ASSUME Init PROVE IInv
  OBVIOUS
<1>1. stream \in Seq(Packet) /\ Len(stream) = 0
  BY DEF Init
<1>2. dma \in DmaType
  BY DmaFacts DEF Init
<1>3. reset_recommended \in BOOLEAN /\ tasks \in BOOLEAN /\ gate \in BOOLEAN
  BY DEF Init
<1>4. raw \in [Sector -> [addr : RawContent, data : RawContent, data_read_ok : BOOLEAN]]
  BY DEF Init, RawContent
<1>5. pass \in 0 .. Passes /\ area \in 0 .. Areas
  BY AreaFacts, TrackAssumption DEF Init
<1>6. TypeOK
  BY <1>1, <1>2, <1>3, <1>4, <1>5 DEF Init, TypeOK, DmaType
<1> QED
  BY <1>1, <1>6, AreaFacts
     DEF Init, IInv, ControlInv, PassInv, BeginInv, BetweenInv, LastPacketOnly, Halted

\* The packets that come are packets.
LEMMA PacketFacts ==
    ASSUME TypeOK, ControlInv, gate
    PROVE  \A length \in {"address", "data", "other"}, synced, cut \in BOOLEAN :
              [pass |-> pass, area |-> area, length |-> length, synced |-> synced, cut |-> cut]
                 \in Packet
<1>1. pass \in 1 .. Passes
  BY TrackAssumption DEF TypeOK, ControlInv
<1>2. area \in Area
  BY AreaFacts DEF TypeOK, ControlInv, Area
<1> QED
  BY <1>1, <1>2 DEF Packet

\* What is copied is the content of a buffer.
LEMMA ContentFacts ==
    ASSUME TypeOK, NEW a \in Area, descriptors[a] # None
    PROVE  ContentOf(a) \in RawContent
<1>1. descriptors[a] \in Packet
  BY DEF TypeOK
<1>2. SectorOf(descriptors[a].area) \in Sector
  BY <1>1, TrackAssumption DEF Packet, Area, Areas, SectorOf, Sector
<1> QED
  BY <1>1, <1>2 DEF ContentOf, RawContent, Packet

LEMMA TypeEvaluate ==
    ASSUME TypeOK, Evaluate
    PROVE  TypeOK'
<1>1. \A a \in Area : Accepts(a) = "found" => descriptors[a] # None
  BY DEF Accepts
<1>2. ASSUME NEW s \in Sector
      PROVE  raw'[s] \in [addr : RawContent, data : RawContent, data_read_ok : BOOLEAN]
  <2>1. AddressFound(s) => ContentOf(2 * s) \in RawContent
    BY <1>1, SectorFacts, ContentFacts DEF AddressFound
  <2>2. DataFound(s) => ContentOf(2 * s + 1) \in RawContent
    BY <1>1, SectorFacts, ContentFacts DEF DataFound
  <2>3. raw[s].data \in RawContent /\ Missing \in RawContent
    BY DEF TypeOK, RawContent
  <2>4. raw'[s] = [addr |-> IF AddressFound(s) THEN ContentOf(2 * s) ELSE Missing,
                   data |-> IF DataFound(s) THEN ContentOf(2 * s + 1) ELSE raw[s].data,
                   data_read_ok |-> DataFound(s)]
    BY DEF Evaluate
  <2>5. DataFound(s) \in BOOLEAN
    BY DEF DataFound, AddressFound, Reached
  <2> QED
    BY <2>1, <2>2, <2>3, <2>4, <2>5
<1>3. raw' \in [Sector -> [addr : RawContent, data : RawContent, data_read_ok : BOOLEAN]]
  BY <1>2 DEF Evaluate
<1>4. ReqReset \in BOOLEAN
  BY DEF ReqReset
<1> QED
  BY <1>3, <1>4 DEF TypeOK, Evaluate, Goto, disk

LEMMA TypeReceive ==
    ASSUME TypeOK, ControlInv, Receive
    PROVE  TypeOK'
<1>1. Head(stream) \in Packet /\ stream' \in Seq(Packet)
  BY DEF TypeOK, Receive
<1>2. descriptors' \in [Area -> Packet \cup {None}]
  BY <1>1 DEF TypeOK, Receive
<1>3. dma' \in DmaType
  <2>1. dma \in DmaType /\ dma.state = "receiving" /\ dma.current <= dma.tail
    BY DEF TypeOK, Receive, ControlInv, DmaType
  <2>2. (IF dma.current = dma.tail THEN 0 ELSE dma.current + 1) \in 0 .. FlushDescriptors - 1
    BY <2>1, AreaFacts DEF DmaType
  <2>3. (IF ~dma.run THEN "halted" ELSE IF dma.current = dma.tail THEN "idle" ELSE dma.state)
           \in DmaState
    BY <2>1 DEF DmaState
  <2>4. dma' = [dma EXCEPT
                  !.state = IF ~dma.run THEN "halted"
                            ELSE IF dma.current = dma.tail THEN "idle" ELSE dma.state,
                  !.current = IF dma.current = dma.tail THEN 0 ELSE dma.current + 1]
    BY DEF Receive
  <2> QED
    BY <2>1, <2>2, <2>3, <2>4 DEF DmaType
<1> QED
  BY <1>1, <1>2, <1>3 DEF TypeOK, Receive, program, disk, DmaType

\* A packet is appended, if any.
LEMMA StreamAppend ==
    ASSUME stream \in Seq(Packet), NEW packet \in Packet, stream' = Append(stream, packet)
    PROVE  stream' \in Seq(Packet)
OBVIOUS

\* The closing gate sends a packet of the area.
LEMMA CloseGatePacket ==
    ASSUME TypeOK, ControlInv, CloseGate
    PROVE  \E packet \in Packet :
              /\ stream' = Append(stream, packet)
              /\ packet.pass = pass /\ packet.area = area
              /\ ~packet.cut /\ packet.length = OwnLength(area)
<1>1. PICK synced \in BOOLEAN :
         stream' = Append(stream, [pass |-> pass, area |-> area, length |-> OwnLength(area),
                                   synced |-> synced, cut |-> FALSE])
  BY Zenon DEF CloseGate
<1>2. OwnLength(area) \in {"address", "data", "other"}
  BY DEF OwnLength
<1>3. gate
  BY Zenon DEF CloseGate
<1> DEFINE packet == [pass |-> pass, area |-> area, length |-> OwnLength(area),
                      synced |-> synced, cut |-> FALSE]
<1>4. packet \in Packet
  BY <1>2, <1>3, PacketFacts, Zenon
<1> QED
  BY <1>1, <1>4

\* A gate that the restart of the timer closes sends one too, of no certain length.
LEMMA StopTimerPacket ==
    ASSUME TypeOK, ControlInv, StopTimer, gate
    PROVE  \E packet \in Packet :
              /\ stream' = Append(stream, packet)
              /\ packet.pass = pass /\ packet.area = area
<1>1. PICK length \in {"address", "data", "other"}, synced \in BOOLEAN, cut \in BOOLEAN :
         stream' = Append(stream, [pass |-> pass, area |-> area, length |-> length,
                                   synced |-> synced, cut |-> cut])
  BY Zenon DEF StopTimer
<1> DEFINE packet == [pass |-> pass, area |-> area, length |-> length,
                      synced |-> synced, cut |-> cut]
<1>2. packet \in Packet
  BY PacketFacts, Zenon
<1> QED
  BY <1>1, <1>2

LEMMA StopTimerNoPacket ==
    ASSUME StopTimer, ~gate
    PROVE  stream' = stream
BY Zenon DEF StopTimer

LEMMA TypeCloseGate ==
    ASSUME TypeOK, ControlInv, CloseGate
    PROVE  TypeOK'
<1>1. stream' \in Seq(Packet)
  <2>1. stream \in Seq(Packet)
    BY DEF TypeOK
  <2> QED
    BY <2>1, CloseGatePacket, StreamAppend, Zenon
<1>2. gate' \in BOOLEAN
  BY DEF CloseGate
<1>3. area' \in 0 .. Areas
  BY AreaFacts DEF TypeOK, CloseGate, ControlInv
<1> QED
  BY <1>1, <1>2, <1>3 DEF TypeOK, CloseGate, program

LEMMA TypeStopTimer ==
    ASSUME TypeOK, ControlInv, StopTimer
    PROVE  TypeOK'
<1>1. stream' \in Seq(Packet)
  <2>1. stream \in Seq(Packet)
    BY DEF TypeOK
  <2>2. CASE gate
    BY <2>1, <2>2, StopTimerPacket, StreamAppend, Zenon
  <2>3. CASE ~gate
    BY <2>1, <2>3, StopTimerNoPacket, Zenon
  <2> QED
    BY <2>2, <2>3
<1>2. tasks' \in BOOLEAN /\ gate' \in BOOLEAN
  BY DEF StopTimer
<1> QED
  BY <1>1, <1>2 DEF TypeOK, StopTimer, Goto

\* The rest of the program.
LEMMA TypeProgram ==
    ASSUME TypeOK,
           \/ OpenGate \/ ResetDatapath \/ Flush \/ EndFlush \/ Flushed \/ Begin \/ Start
           \/ FillChain \/ Tailed \/ Queue \/ EndWait \/ Halt
    PROVE  TypeOK'
<1>1. CASE OpenGate
  <2>1. gate' \in BOOLEAN
    BY <1>1 DEF OpenGate
  <2> QED
    BY <1>1, <2>1 DEF TypeOK, OpenGate, program
<1>2. CASE ResetDatapath
  <2>1. dma' \in DmaType
    BY <1>2, DmaFacts DEF ResetDatapath
  <2> QED
    BY <1>2, <2>1 DEF TypeOK, ResetDatapath, DmaType, Goto, disk
<1>3. CASE Flush
  <2>1. dma' \in DmaType
    BY <1>3, AreaFacts DEF Flush, DmaType, DmaState
  <2>2. descriptors' \in [Area -> Packet \cup {None}]
    BY <1>3 DEF Flush
  <2> QED
    BY <1>3, <2>1, <2>2 DEF TypeOK, Flush, DmaType, Goto, disk
<1>4. CASE EndFlush
  <2>1. dma' \in DmaType
    BY <1>4, DmaFacts DEF EndFlush
  <2> QED
    BY <1>4, <2>1 DEF TypeOK, EndFlush, DmaType, Goto, disk
<1>5. CASE Flushed
  <2>1. dma' \in DmaType /\ reset_recommended' \in BOOLEAN
    BY <1>5, DmaFacts DEF Flushed
  <2> QED
    BY <1>5, <2>1 DEF TypeOK, Flushed, DmaType, Goto, disk
<1>6. CASE Begin
  <2>1. pass' \in 0 .. Passes /\ area' \in 0 .. Areas
    BY <1>6, AreaFacts, TrackAssumption DEF TypeOK, Begin
  <2> QED
    BY <1>6, <2>1 DEF TypeOK, Begin, Goto
<1>7. CASE Start
  <2>1. dma' \in DmaType
    BY <1>7, DmaFacts DEF Start
  <2> QED
    BY <1>7, <2>1 DEF TypeOK, Start, DmaType, Goto, disk
<1>8. CASE FillChain
  BY <1>8 DEF TypeOK, FillChain, Goto, disk
<1>9. CASE Tailed
  <2>1. dma' \in DmaType
    BY <1>9, DmaFacts DEF Tailed
  <2> QED
    BY <1>9, <2>1 DEF TypeOK, Tailed, DmaType, Goto, disk
<1>10. CASE Queue
  <2>1. tasks' \in BOOLEAN
    BY <1>10 DEF Queue
  <2> QED
    BY <1>10, <2>1 DEF TypeOK, Queue, Goto
<1>11. CASE EndWait
  BY <1>11 DEF TypeOK, EndWait, Goto, disk
<1>12. CASE Halt
  <2>1. dma' \in DmaType
    BY <1>12, DmaFacts DEF Halt
  <2> QED
    BY <1>12, <2>1 DEF TypeOK, Halt, DmaType, Goto, disk
<1> QED
  BY <1>1, <1>2, <1>3, <1>4, <1>5, <1>6, <1>7, <1>8, <1>9, <1>10, <1>11, <1>12

LEMMA TypeNext ==
    ASSUME TypeOK, ControlInv, [Next]_vars
    PROVE  TypeOK'
<1>1. CASE UNCHANGED vars
  BY <1>1 DEF TypeOK, vars, program, disk
<1> QED
  BY <1>1, TypeEvaluate, TypeReceive, TypeCloseGate, TypeStopTimer, TypeProgram DEF Next, Program

-----------------------------------------------------------------------------
(* What the descriptors of a whole pass say.                                *)

\* Unless a reset is recommended the descriptors are filled up to the last but one,
\* and those of address areas have packets of an address area's length.
LEMMA FilledPrefix ==
    ASSUME NEW c \in 0 .. Areas, \A a \in Area : descriptors[a] = None <=> a >= c, ~ReqReset
    PROVE  c >= Areas - 1 /\ \A s \in Sector : descriptors[2 * s].length = "address"
<1>0. /\ Sectors \in Nat /\ Areas \in Nat /\ Areas = 2 * Sectors
      /\ c \in Nat /\ Sector = 0 .. Sectors - 1
  BY TrackAssumption DEF Areas, Sector
<1>1. ASSUME NEW a \in Area PROVE (Accepts(a) = "incomplete") <=> a >= c
  BY <1>1 DEF Accepts
<1>2. ASSUME NEW s \in Sector, 2 * s <= c PROVE Reached(s)
  <2>1. ASSUME NEW r \in 0 .. s - 1 PROVE ~Breaks(r)
    <3>1. r \in Sector /\ 2 * r + 1 < c
      BY <1>0, <1>2
    <3>2. 2 * r \in Area /\ 2 * r + 1 \in Area
      BY <3>1, SectorFacts
    <3>3. ~(2 * r >= c) /\ ~(2 * r + 1 >= c)
      BY <1>0, <3>1
    <3> QED
      BY <1>1, <3>2, <3>3 DEF Breaks
  <2> QED
    BY <2>1 DEF Reached
<1>3. ASSUME NEW s \in Sector, Reached(s)
      PROVE  Accepts(2 * s) \notin {"incomplete", "wrongLength"}
  BY <1>3 DEF ReqReset
<1>4. ASSUME NEW s \in Sector, c = 2 * s PROVE FALSE
  BY <1>1, <1>2, <1>3, <1>4, SectorFacts DEF Sector
<1>5. ASSUME NEW s \in Sector, c = 2 * s + 1 PROVE s = Sectors - 1
  <2> SUFFICES ASSUME s # Sectors - 1 PROVE FALSE
    OBVIOUS
  <2>1. s + 1 \in Sector /\ 2 * (s + 1) = 2 * s + 2 /\ Reached(s)
    BY <1>0, <1>2, <1>5
  <2>2. 2 * s + 1 \in Area /\ Accepts(2 * s + 1) = "incomplete"
    BY <1>1, <1>5, SectorFacts DEF Sector
  <2>3. ~AddressFound(s)
    BY <2>2 DEF ReqReset
  <2>4. Accepts(2 * s) # "incomplete" /\ Accepts(2 * s) # "found"
    BY <1>3, <2>1, <2>3 DEF AddressFound
  <2>5. Reached(s + 1)
    <3>1. ASSUME NEW r \in 0 .. s PROVE ~Breaks(r)
      <4>1. CASE r = s
        BY <2>4, <4>1 DEF Breaks
      <4>2. CASE r # s
        BY <2>1, <4>2 DEF Reached, Sector
      <4> QED
        BY <4>1, <4>2
    <3> QED
      BY <3>1 DEF Reached, Sector
  <2>6. 2 * (s + 1) \in Area /\ 2 * (s + 1) >= c
    BY <1>5, <2>1, SectorFacts DEF Sector
  <2> QED
    BY <1>1, <1>3, <2>1, <2>5, <2>6
<1>6. c >= Areas - 1
  <2> SUFFICES ASSUME c < Areas - 1 PROVE FALSE
    BY AreaFacts
  <2>1. PICK m \in Nat : c = 2 * m \/ c = 2 * m + 1
    BY Halves, AreaFacts
  <2>2. m \in Sector /\ (c = 2 * m + 1 => m # Sectors - 1)
    BY <1>0, <2>1
  <2> QED
    BY <1>4, <1>5, <2>1, <2>2
<1>7. ASSUME NEW s \in Sector PROVE descriptors[2 * s].length = "address"
  <2>1. /\ 2 * s \in Area /\ OwnLength(2 * s) = "address"
        /\ 2 * s <= c /\ ~(2 * s >= c)
    <3>1. 2 * s <= c /\ ~(2 * s >= c)
      BY <1>0, <1>6
    <3> QED
      BY <3>1, SectorFacts
  <2>2. Accepts(2 * s) # "wrongLength" /\ descriptors[2 * s] # None
    BY <1>2, <1>3, <2>1
  <2> QED
    BY <2>1, <2>2 DEF Accepts
<1> QED
  BY <1>6, <1>7

\* A DMA that was stuck at the last descriptor leaves the first incomplete.
LEMMA StuckResets ==
    ASSUME NEW c \in 0 .. 1, Stuck(c)
    PROVE  ReqReset
<1>1. 0 \in Area /\ 0 < Areas - 1 /\ 0 \in Sector /\ 2 * 0 = 0
  BY AreaFacts, TrackAssumption DEF Area, Sector
<1>2. descriptors[0] = None
  BY <1>1 DEF Stuck
<1>3. Accepts(2 * 0) = "incomplete"
  BY <1>1, <1>2 DEF Accepts
<1>4. Reached(0)
  BY DEF Reached
<1> QED
  BY <1>1, <1>3, <1>4 DEF ReqReset

\* A chain shifted by a packet left over has a data area's packet where the second
\* sector's address area should be, unless the pass was given up before.
LEMMA ShiftedResets ==
    ASSUME NEW c \in 0 .. Areas, Chained(c, 1), ~ReqReset, area \in Nat
    PROVE  area <= 1 /\ c >= Areas - 1
<1>1. \A a \in Area : descriptors[a] = None <=> a >= c
  BY DEF Chained, Area
<1>2. c >= Areas - 1 /\ \A s \in Sector : descriptors[2 * s].length = "address"
  BY <1>1, FilledPrefix
<1>3. 1 \in Sector /\ 2 \in Area /\ 2 < c /\ 2 * 1 = 2
  BY <1>2, AreaFacts, TrackAssumption DEF Sector, Area
<1>4. descriptors[2].length = "address"
  BY <1>2, <1>3
<1>5. Numbered(descriptors[2], 2, 1)
  BY <1>3 DEF Chained
<1>6. OwnLength(1) = "data"
  BY DEF OwnLength, IsAddress
<1> QED
  BY <1>2, <1>4, <1>5, <1>6 DEF Numbered

\* What a pass leaves behind.
LEMMA Leftovers ==
    ASSUME TypeOK, PassInv, BetweenInv, pc = "evaluate"
    PROVE  /\ Len(stream) <= Areas + 1
           /\ ~ReqReset => /\ LastPacketOnly
                           /\ dma.state # "halted" => dma.current = Areas - 1
<1>1. area \in 0 .. Areas /\ Len(stream) \in Nat /\ Areas \in Nat /\ Areas >= 4
  BY AreaFacts DEF TypeOK
<1>2. dma.state # "halted" => dma.state = "receiving"
  BY DEF TypeOK, BetweenInv, DmaState
<1>3. (stream # <<>>) <=> Len(stream) > 0
  BY DEF TypeOK
<1>4. CASE \E c \in 0 .. Areas, off \in 0 .. 1 : Chained(c, off)
  <2>1. PICK c \in 0 .. Areas, off \in 0 .. 1 : Chained(c, off)
    BY <1>4
  <2>2. \/ c + Len(stream) = off + area
        \/ area < Areas /\ c + Len(stream) = off + area + 1
    BY <2>1 DEF Chained, InOrder
  <2>3. dma.state # "halted" => dma.current = c /\ c < Areas
    BY <1>2, <2>1 DEF Chained
  <2>4. Len(stream) <= Areas + 1
    BY <1>1, <2>2
  <2>5. ASSUME ~ReqReset PROVE LastPacketOnly /\ (dma.state # "halted" => dma.current = Areas - 1)
    <3>1. \A a \in Area : descriptors[a] = None <=> a >= c
      BY <2>1 DEF Chained, Area
    <3>2. c >= Areas - 1
      BY <2>5, <3>1, FilledPrefix
    <3>3. dma.state # "halted" => dma.current = Areas - 1
      BY <1>1, <2>3, <3>2
    <3>4. CASE off = 0
      <4>1. Len(stream) <= 1 /\ (Len(stream) = 1 => c = Areas - 1)
        BY <1>1, <2>2, <3>2, <3>4
      <4>2. ASSUME Len(stream) = 1 PROVE stream[1].area = Areas - 1
        <5>1. Numbered(stream[1], c + 1 - 1, 0)
          BY <2>1, <3>4, <4>2 DEF Chained, InOrder
        <5>2. c + 1 - 1 = Areas - 1 /\ ~(Areas - 1 < 0) /\ Areas - 1 - 0 = Areas - 1
          BY <1>1, <4>1, <4>2
        <5> QED
          BY <5>1, <5>2 DEF Numbered
      <4>3. \A n \in Nat : n <= 1 => ~(n > 0) \/ n = 1
        OBVIOUS
      <4> QED
        BY <1>1, <1>3, <3>3, <4>1, <4>2, <4>3, Zenon DEF LastPacketOnly
    <3>5. CASE off = 1
      <4>1. area <= 1
        BY <1>1, <2>1, <2>5, <3>5, ShiftedResets
      <4>2. Len(stream) = 0
        BY <1>1, <2>2, <3>2, <3>5, <4>1
      <4> QED
        BY <1>3, <3>3, <4>2 DEF LastPacketOnly
    <3> QED
      BY <3>4, <3>5
  <2> QED
    BY <2>4, <2>5
<1>5. CASE \E c \in 0 .. 1 : Stuck(c)
  <2>1. PICK c \in 0 .. 1 : Stuck(c)
    BY <1>5
  <2>2. \/ c + Len(stream) = 0 + area
        \/ area < Areas /\ c + Len(stream) = 0 + area + 1
    BY <2>1 DEF Stuck, InOrder
  <2>3. ReqReset
    BY <2>1, StuckResets
  <2> QED
    BY <1>1, <2>2, <2>3
<1> QED
  BY <1>4, <1>5 DEF PassInv

\* A packet whose content is taken for that of an area is that area of this pass: one
\* that is shifted is of the other kind of area, and garbage.
LEMMA OwnContent ==
    ASSUME PassInv, pc = "evaluate", NEW a \in Area, descriptors[a] # None,
           ContentOf(a) # Garbage
    PROVE  ContentOf(a) = [pass |-> pass, sector |-> SectorOf(a)]
<1> DEFINE packet == descriptors[a]
<1>1. /\ IsAddress(packet.area) = IsAddress(a)
      /\ ContentOf(a) = [pass |-> packet.pass, sector |-> SectorOf(packet.area)]
  BY Zenon DEF ContentOf
<1>2. a \in Nat /\ a < Areas
  BY AreaFacts DEF Area
<1>3. CASE \E c \in 0 .. Areas, off \in 0 .. 1 : Chained(c, off)
  <2>1. PICK c \in 0 .. Areas, off \in 0 .. 1 : Chained(c, off)
    BY <1>3
  <2>2. Numbered(packet, a, off)
    BY <2>1 DEF Chained
  <2>3. CASE off = 0
    <3>1. packet.pass = pass /\ packet.area = a
      BY <1>2, <2>2, <2>3 DEF Numbered
    <3> QED
      BY <1>1, <3>1
  <2>4. CASE off = 1 /\ a = 0
    <3>1. packet.area = Areas - 1
      BY <2>2, <2>4 DEF Numbered
    <3> QED
      BY <1>1, <2>4, <3>1, AreaFacts
  <2>5. CASE off = 1 /\ a > 0
    <3>1. packet.area = a - 1 /\ a - 1 \in Nat /\ (a - 1) + 1 = a
      BY <1>2, <2>2, <2>5 DEF Numbered
    <3>2. IsAddress(a - 1) # IsAddress(a)
      BY <3>1, AreaFacts
    <3> QED
      BY <1>1, <3>1, <3>2, Zenon
  <2> QED
    BY <1>2, <2>3, <2>4, <2>5
<1>4. CASE \E c \in 0 .. 1 : Stuck(c)
  <2>1. PICK c \in 0 .. 1 : Stuck(c)
    BY <1>4
  <2>2. a = Areas - 1
    BY <1>2, <2>1, AreaFacts DEF Stuck
  <2>3. Numbered(packet, 0, 0)
    BY <2>1, <2>2 DEF Stuck
  <2>4. packet.area = 0
    BY <2>3 DEF Numbered
  <2> QED
    BY <1>1, <2>2, <2>4, AreaFacts, Zenon
<1> QED
  BY <1>3, <1>4 DEF PassInv

-----------------------------------------------------------------------------
(* The rest of the invariant.                                               *)

LEMMA ControlNext ==
    ASSUME TypeOK, ControlInv, BeginInv, [Next]_vars
    PROVE  ControlInv'
<1>1. CASE UNCHANGED vars
  BY <1>1 DEF ControlInv, vars, program, disk
<1>2. CASE OpenGate
  BY <1>2, AreaFacts DEF TypeOK, ControlInv, OpenGate, program
<1>3. CASE CloseGate
  BY <1>3 DEF ControlInv, CloseGate, program
<1>4. CASE Receive
  <2>1. dma.current \in Nat /\ dma.tail \in Nat /\ dma.current <= dma.tail
    BY <1>4 DEF TypeOK, ControlInv, Receive
  <2>2. dma'.state = "receiving" => dma'.current = dma.current + 1 /\ dma.current # dma.tail
    BY <1>4 DEF TypeOK, Receive
  <2>3. dma'.tail = dma.tail
    BY <1>4 DEF TypeOK, Receive
  <2> QED
    BY <1>4, <2>1, <2>2, <2>3 DEF ControlInv, Receive, program, disk
<1>5. CASE ResetDatapath
  BY <1>5 DEF ControlInv, ResetDatapath, Goto, disk, Halted
<1>6. CASE Flush
  BY <1>6, AreaFacts DEF ControlInv, Flush, Goto, disk
<1>7. CASE EndFlush
  BY <1>7 DEF TypeOK, ControlInv, EndFlush, StopDma, Goto, disk, Halted
<1>8. CASE Flushed
  BY <1>8 DEF ControlInv, Flushed, Goto, disk, Halted
<1>9. CASE Begin
  BY <1>9 DEF TypeOK, ControlInv, Begin, Goto
<1>10. CASE Start
  BY <1>10 DEF TypeOK, ControlInv, Start, StartDma, Goto, disk, Halted
<1>11. CASE FillChain
  BY <1>11 DEF ControlInv, FillChain, Goto, disk
<1>12. CASE Tailed
  <2>1. dma.current <= Areas - 1
    <3>1. dma.state = "idle" \/ dma.state = "receiving"
      BY <1>12 DEF TypeOK, BeginInv, Tailed, Goto, DmaState
    <3>2. dma.current = 0 \/ dma.current = Areas - 1
      BY <1>12, <3>1 DEF BeginInv, Tailed, Goto
    <3> QED
      BY <3>2, AreaFacts
  <2>2. dma'.current = dma.current /\ dma'.tail = Areas - 1
    BY <1>12 DEF TypeOK, Tailed, SetTail
  <2> QED
    BY <1>12, <2>1, <2>2 DEF ControlInv, Tailed, Goto, disk
<1>13. CASE Queue
  BY <1>13 DEF ControlInv, Queue, Goto
<1>14. CASE EndWait
  BY <1>14 DEF ControlInv, EndWait, Goto, disk
<1>15. CASE StopTimer
  BY <1>15 DEF ControlInv, StopTimer, Goto
<1>16. CASE Halt
  BY <1>16 DEF TypeOK, ControlInv, Halt, StopDma, Goto, disk, Halted
<1>17. CASE Evaluate
  BY <1>17 DEF ControlInv, Evaluate, Goto, disk
<1> QED
  BY <1>1, <1>2, <1>3, <1>4, <1>5, <1>6, <1>7, <1>8, <1>9, <1>10, <1>11, <1>12, <1>13,
     <1>14, <1>15, <1>16, <1>17 DEF Next, Program

LEMMA BeginNext ==
    ASSUME TypeOK, ControlInv, BeginInv, BetweenInv, [Next]_vars
    PROVE  BeginInv'
<1>1. CASE pc' \notin {"start", "fill", "tail"}
  BY <1>1 DEF BeginInv
<1>2. CASE Begin
  <2>1. LastPacketOnly /\ (dma.state # "halted" => dma.current = Areas - 1) /\ dma.state # "idle"
    BY <1>2 DEF BetweenInv, Begin, Goto
  <2> QED
    BY <1>2, <2>1 DEF BeginInv, Begin, Goto, LastPacketOnly
<1>3. CASE Start
  <2>1. /\ dma'.state # "halted"
        /\ dma'.state = "receiving" => dma.state = "receiving" /\ dma'.current = dma.current
        /\ dma'.state = "idle" => dma'.current = 0
    BY <1>3 DEF TypeOK, BeginInv, Start, StartDma, Goto, Halted, DmaState
  <2> QED
    BY <1>3, <2>1 DEF BeginInv, Start, Goto, LastPacketOnly, disk
<1>4. CASE FillChain
  BY <1>4 DEF BeginInv, FillChain, Goto, LastPacketOnly, disk
<1>5. CASE pc' = pc /\ pc' \in {"start", "fill", "tail"} /\ [Next]_vars
  <2>1. ~tasks /\ ~gate
    BY <1>5 DEF ControlInv
  <2>2. ~(dma.state = "receiving" /\ stream # <<>>)
    BY <1>5 DEF BeginInv
  <2>3. UNCHANGED vars
    BY <1>5, <2>1, <2>2
       DEF Next, Program, OpenGate, CloseGate, Receive, ResetDatapath, Flush, EndFlush, Flushed,
           Begin, Start, FillChain, Tailed, Queue, EndWait, StopTimer, Halt, Evaluate, Goto
  <2> QED
    BY <2>3 DEF BeginInv, LastPacketOnly, vars, program, disk
<1>6. CASE pc' # pc /\ pc' \in {"start", "fill", "tail"} /\ [Next]_vars
  <2>1. Begin \/ Start \/ FillChain
    BY <1>6
       DEF Next, Program, OpenGate, CloseGate, Receive, ResetDatapath, Flush, EndFlush, Flushed,
           Begin, Start, FillChain, Tailed, Queue, EndWait, StopTimer, Halt, Evaluate, Goto,
           vars, program
  <2> QED
    BY <1>2, <1>3, <1>4, <2>1
<1> QED
  BY <1>1, <1>5, <1>6

\* The DMA takes a packet between two passes.
LEMMA BetweenReceive ==
    ASSUME TypeOK, ControlInv, BetweenInv, Receive
    PROVE  BetweenInv'
<1>1. /\ Len(stream) \in Nat /\ Len(stream) > 0 /\ Len(stream') = Len(stream) - 1
      /\ (stream' = <<>>) <=> (Len(stream) = 1)
  <2>1. stream \in Seq(Packet) /\ stream # <<>> /\ stream' = Tail(stream)
    BY DEF TypeOK, Receive
  <2>2. Len(stream) \in Nat /\ Len(stream) > 0 /\ Len(stream') = Len(stream) - 1
    BY <2>1
  <2>3. (stream' = <<>>) <=> (Len(stream') = 0)
    <3>1. stream' \in Seq(Packet)
      BY <2>1
    <3>2. \A q \in Seq(Packet) : (q = <<>>) <=> (Len(q) = 0)
      OBVIOUS
    <3> QED
      BY <3>1, <3>2, Zenon
  <2>4. \A n \in Nat : (n - 1 = 0) <=> (n = 1)
    OBVIOUS
  <2> QED
    BY <2>2, <2>3, <2>4, Zenon
<1>2. /\ dma.state = "receiving" /\ dma'.tail = dma.tail
      /\ dma.current \in Nat
      /\ ~dma.run => dma'.state = "halted"
      /\ dma'.state = "idle" => dma.current = dma.tail
      /\ dma'.state = "receiving" => dma'.current = dma.current + 1
  <2>1. /\ dma.state = "receiving" /\ dma.current \in Nat
        /\ dma \in [state : DmaState, current : 0 .. FlushDescriptors - 1,
                    tail : 0 .. FlushDescriptors - 1, run : BOOLEAN]
    BY DEF TypeOK, Receive
  <2>2. dma' = [dma EXCEPT !.state = IF ~dma.run THEN "halted"
                                     ELSE IF dma.current = dma.tail THEN "idle" ELSE @,
                           !.current = IF dma.current = dma.tail THEN 0 ELSE @ + 1]
    BY Zenon DEF Receive
  <2> QED
    BY <2>1, <2>2
<1>3. UNCHANGED <<pc, reset_recommended>>
  BY DEF Receive, program
<1>4. CASE pc \in {"evaluate", "attempt"}
  <2>1. dma'.state = "halted"
    BY <1>2, <1>4 DEF BetweenInv
  <2>2. LastPacketOnly => stream' = <<>>
    BY <1>1 DEF LastPacketOnly, Receive
  <2>3. Len(stream) <= Areas + 1 => Len(stream') <= Areas + 1
    BY <1>1, AreaFacts
  <2> QED
    BY <1>3, <1>4, <2>1, <2>2, <2>3 DEF BetweenInv, LastPacketOnly
<1>5. CASE pc = "drain"
  <2>1. dma.current + Len(stream) <= Areas + 1 /\ dma.tail = FlushDescriptors - 1
    BY <1>2, <1>5 DEF BetweenInv
  <2>2. dma'.state = "receiving" => dma'.current + Len(stream') <= Areas + 1
    <3>1. \A m, n \in Nat : m + n <= Areas + 1 => m + 1 + (n - 1) <= Areas + 1
      BY AreaFacts
    <3> QED
      BY <1>1, <1>2, <2>1, <3>1
  <2>3. dma'.state = "idle" => Len(stream) = 1
    <3>1. dma'.state = "idle" => dma.current = FlushDescriptors - 1
      BY <1>2, <2>1
    <3>2. \A n \in Nat : n > 0 /\ FlushDescriptors - 1 + n <= Areas + 1 => n = 1
      BY AreaFacts
    <3> QED
      BY <1>1, <2>1, <3>1, <3>2, Zenon
  <2> QED
    BY <1>1, <1>2, <1>3, <1>5, <2>1, <2>2, <2>3 DEF BetweenInv
<1>6. CASE pc \in {"flush", "flushed"}
  BY <1>1, <1>2, <1>6 DEF BetweenInv, Receive
<1>7. CASE pc \notin {"attempt", "evaluate", "flush", "drain", "flushed"}
  BY <1>3, <1>7 DEF BetweenInv
<1> QED
  BY <1>4, <1>5, <1>6, <1>7

LEMMA BetweenNext ==
    ASSUME TypeOK, ControlInv, PassInv, BetweenInv, [Next]_vars
    PROVE  BetweenInv'
<1>1. CASE UNCHANGED vars
  BY <1>1 DEF BetweenInv, LastPacketOnly, vars, program, disk
<1>2. CASE OpenGate \/ CloseGate
  <2>1. pc' = pc /\ pc \in {"wait", "stop"}
    BY <1>2 DEF ControlInv, OpenGate, CloseGate, program
  <2> QED
    BY <2>1 DEF BetweenInv
<1>3. CASE Receive
  BY <1>3, BetweenReceive
<1>4. CASE ResetDatapath
  BY <1>4 DEF BetweenInv, ResetDatapath, Goto, disk, Halted
<1>5. CASE Flush
  BY <1>5, AreaFacts DEF TypeOK, BetweenInv, Flush, Goto, disk
<1>6. CASE EndFlush
  BY <1>6 DEF BetweenInv, EndFlush, Goto, disk
<1>7. CASE Flushed
  <2>1. stream' = <<>> /\ Len(stream') = 0
    BY <1>7 DEF BetweenInv, Flushed, Goto
  <2> QED
    BY <1>7, <2>1, AreaFacts DEF BetweenInv, LastPacketOnly, Flushed, Goto, Halted
<1>8. CASE Halt
  <2>1. pc' = "evaluate" /\ dma'.state # "idle" /\ (dma'.state = "receiving" => ~dma'.run)
    BY <1>8 DEF TypeOK, Halt, StopDma, Goto, Halted
  <2> QED
    BY <2>1 DEF BetweenInv
<1>9. CASE Evaluate
  <2>1. pc = "evaluate" /\ pc' = "attempt" /\ UNCHANGED <<stream, dma>>
        /\ reset_recommended' = ReqReset
    BY <1>9 DEF Evaluate, Goto
  <2>2. /\ Len(stream) <= Areas + 1
        /\ ~ReqReset => LastPacketOnly /\ (dma.state # "halted" => dma.current = Areas - 1)
    BY <2>1, Leftovers
  <2>3. dma.state # "idle" /\ (dma.state = "receiving" => ~dma.run)
    BY <2>1 DEF BetweenInv
  <2> QED
    BY <2>1, <2>2, <2>3 DEF BetweenInv, LastPacketOnly
<1>10. CASE Begin \/ Start \/ FillChain \/ Tailed \/ Queue \/ EndWait \/ StopTimer
  <2>1. pc' \in {"start", "fill", "tail", "queue", "wait", "stop", "halt"}
    BY <1>10 DEF Begin, Start, FillChain, Tailed, Queue, EndWait, StopTimer, Goto
  <2> QED
    BY <2>1 DEF BetweenInv
<1> QED
  BY <1>1, <1>2, <1>3, <1>4, <1>5, <1>6, <1>7, <1>8, <1>9, <1>10 DEF Next, Program

\* A packet is put into the stream.
LEMMA ChainAppend ==
    ASSUME NEW c \in 0 .. Areas, NEW off \in 0 .. 1, Chained(c, off),
           pc \notin {"halt", "evaluate"},
           stream \in Seq(Packet), NEW packet \in Packet, stream' = Append(stream, packet),
           area \in Nat, pass' = pass, packet.pass = pass, packet.area = area,
           \/ /\ area' = area + 1
              /\ ~packet.cut /\ packet.length = OwnLength(area)
           \/ /\ area' = area /\ area < Areas
              /\ pc' = "halt",
           UNCHANGED <<dma, descriptors>>
    PROVE  Chained(c, off)'
<1>1. c \in Nat /\ Areas \in Nat /\ \A a \in Area : a \in Nat
  BY AreaFacts DEF Area
<1>2. InOrder(c, off)'
  BY <1>1, OrderAppend, AreaFacts DEF Chained
<1>3. Len(stream) \in Nat /\ c + Len(stream) = off + area
  BY DEF Chained, InOrder
<1>4. ASSUME NEW a \in Area, a < c PROVE Numbered(descriptors[a], a, off)'
  <2>1. Numbered(descriptors[a], a, off) /\ descriptors'[a] = descriptors[a]
    BY <1>4 DEF Chained
  <2>2. a - off < area
    BY <1>1, <1>3, <1>4
  <2> QED
    BY <2>1, <2>2 DEF Numbered
<1> QED
  BY <1>2, <1>4 DEF Chained

LEMMA StuckAppend ==
    ASSUME NEW c \in 0 .. 1, Stuck(c), pc \notin {"halt", "evaluate"},
           stream \in Seq(Packet), NEW packet \in Packet, stream' = Append(stream, packet),
           area \in Nat, pass' = pass, packet.pass = pass, packet.area = area,
           \/ /\ area' = area + 1
              /\ ~packet.cut /\ packet.length = OwnLength(area)
           \/ /\ area' = area /\ area < Areas
              /\ pc' = "halt",
           UNCHANGED <<dma, descriptors>>
    PROVE  Stuck(c)'
<1>1. InOrder(c, 0)'
  <2>1. InOrder(c, 0) /\ c \in Nat /\ 0 \in 0 .. 1
    BY DEF Stuck
  <2> QED
    BY <2>1, OrderAppend
<1>2. Len(stream) \in Nat /\ c + Len(stream) = area
  BY DEF Stuck, InOrder
<1>3. ASSUME c = 1 PROVE Numbered(descriptors[Areas - 1], 0, 0)'
  <2>1. Numbered(descriptors[Areas - 1], 0, 0) /\ 0 - 0 < area
    BY <1>2, <1>3 DEF Stuck
  <2> QED
    BY <2>1 DEF Numbered
<1> QED
  BY <1>1, <1>3 DEF Stuck

\* The DMA takes a packet out of it.
LEMMA PassReceive ==
    ASSUME TypeOK, ControlInv, PassInv, Receive,
           pc \in {"queue", "wait", "stop", "halt", "evaluate"}
    PROVE  PassInv'
<1>1. /\ stream \in Seq(Packet) /\ stream # <<>> /\ stream' = Tail(stream)
      /\ area \in Nat /\ UNCHANGED <<area, pass, pc>>
      /\ Head(stream) \in Packet
  BY DEF TypeOK, Receive, program, disk
<1>2. /\ dma.state = "receiving" /\ dma.tail = Areas - 1 /\ dma.current \in Nat
      /\ dma \in [state : DmaState, current : 0 .. FlushDescriptors - 1,
                  tail : 0 .. FlushDescriptors - 1, run : BOOLEAN]
  BY DEF TypeOK, ControlInv, Receive
<1>3. dma'.state = "receiving" => dma.current # Areas - 1 /\ dma'.current = dma.current + 1
  <2>1. dma' = [dma EXCEPT !.state = IF ~dma.run THEN "halted"
                                     ELSE IF dma.current = dma.tail THEN "idle" ELSE @,
                           !.current = IF dma.current = dma.tail THEN 0 ELSE @ + 1]
    BY Zenon DEF Receive
  <2> QED
    BY <1>2, <2>1
<1>4. Head(stream) # None
  BY <1>1, NoneAssumption
<1>5. descriptors \in [Area -> Packet \cup {None}]
  BY DEF TypeOK
<1>6. ASSUME NEW c \in 0 .. Areas, NEW off \in 0 .. 1, Chained(c, off)
      PROVE  c + 1 \in 0 .. Areas /\ Chained(c + 1, off)'
  <2>1. dma.current = c /\ c < Areas /\ c \in Nat /\ c \in Area
    BY <1>2, <1>6, AreaFacts DEF Chained, Area
  <2>2. InOrder(c + 1, off)' /\ Numbered(Head(stream), c, off)
    BY <1>1, <1>6, <2>1, OrderTail DEF Chained
  <2>3. descriptors' = [descriptors EXCEPT ![c] = Head(stream)]
    BY <2>1 DEF Receive
  <2>4. ASSUME NEW a \in Area
        PROVE  IF a < c + 1 THEN (descriptors[a] # None /\ Numbered(descriptors[a], a, off))'
                            ELSE descriptors'[a] = None
    <3>1. CASE a = c
      <4>1. descriptors'[a] = Head(stream)
        BY <1>5, <2>1, <2>3, <3>1
      <4> QED
        BY <1>1, <1>4, <2>1, <2>2, <3>1, <4>1 DEF Numbered
    <3>2. CASE a # c
      <4>1. descriptors'[a] = descriptors[a]
        BY <1>5, <2>3, <3>2
      <4>2. a < c + 1 <=> a < c
        BY <2>1, <3>2 DEF Area
      <4> QED
        BY <1>1, <1>6, <4>1, <4>2 DEF Chained, Numbered
    <3> QED
      BY <3>1, <3>2
  <2>5. dma'.state = "receiving" => dma'.current = c + 1 /\ c + 1 < Areas
    BY <1>3, <2>1, AreaFacts
  <2> QED
    BY <2>1, <2>2, <2>4, <2>5, AreaFacts DEF Chained
<1>7. ASSUME NEW c \in 0 .. 1, Stuck(c)
      PROVE  Stuck(1)'
  <2>1. dma.current = Areas - 1 /\ c = 0 /\ Areas - 1 \in Area
    BY <1>2, <1>7, AreaFacts DEF Stuck, Area
  <2>2. InOrder(1, 0)' /\ Numbered(Head(stream), 0, 0)
    BY <1>1, <1>7, <2>1, OrderTail DEF Stuck
  <2>3. /\ descriptors'[Areas - 1] = Head(stream)
        /\ \A a \in Area : a < Areas - 1 => descriptors'[a] = None
    BY <1>5, <1>7, <2>1, AreaFacts DEF Receive, Stuck
  <2>4. dma'.state # "receiving"
    BY <1>3, <2>1
  <2> QED
    BY <1>1, <1>4, <2>2, <2>3, <2>4 DEF Stuck, Numbered
<1> QED
  BY <1>6, <1>7 DEF PassInv

\* The tail descriptor is set: this is where a pass begins for the DMA.
LEMMA PassTailed ==
    ASSUME TypeOK, BeginInv, Tailed
    PROVE  PassInv'
<1>1. /\ LastPacketOnly /\ area = 0 /\ pc' = "queue"
      /\ \A a \in Area : descriptors[a] = None
      /\ UNCHANGED <<stream, area, pass, descriptors>>
  BY DEF BeginInv, Tailed, Goto, disk
<1>2. dma'.current = dma.current /\ dma'.state = "receiving"
  BY DEF TypeOK, Tailed, SetTail
<1>3. Len(stream) \in Nat /\ ((stream = <<>>) <=> (Len(stream) = 0))
  BY DEF TypeOK
<1>4. CASE dma.state = "receiving"
  <2>1. dma.current = Areas - 1 /\ Len(stream') = 0
    BY <1>1, <1>3, <1>4 DEF BeginInv, Tailed, Goto
  <2>2. InOrder(0, 0)'
    BY <1>1, <2>1 DEF InOrder
  <2>3. Stuck(0)'
    BY <1>1, <1>2, <2>1, <2>2, AreaFacts DEF Stuck, Area
  <2> QED
    BY <2>3 DEF PassInv
<1>5. CASE dma.state # "receiving"
  <2>1. dma'.current = 0
    BY <1>2, <1>5 DEF TypeOK, BeginInv, Tailed, Goto, DmaState
  <2>2. Len(stream) \in 0 .. 1 /\ (Len(stream) = 1 => stream[1].area = Areas - 1)
    BY <1>1, <1>3 DEF LastPacketOnly
  <2>3. PICK off \in 0 .. 1 : off = Len(stream) /\ off = Len(stream')
    BY <1>1, <2>2
  <2>4. ASSUME NEW n \in 1 .. Len(stream') PROVE Numbered(stream[n], 0 + n - 1, off)'
    <3>1. n \in 1 .. off
      BY <2>3
    <3>2. n = 1 /\ off = 1 /\ 0 + n - 1 < off
      BY <3>1
    <3>3. stream'[n].area = Areas - 1
      BY <1>1, <2>2, <2>3, <3>2
    <3> QED
      BY <3>2, <3>3 DEF Numbered
  <2>5. InOrder(0, off)'
    BY <1>1, <2>4, <2>3 DEF InOrder
  <2>6. Chained(0, off)' /\ 0 \in 0 .. Areas
    BY <1>1, <2>1, <2>5, AreaFacts DEF Chained, Area
  <2> QED
    BY <2>6 DEF PassInv
<1> QED
  BY <1>4, <1>5

LEMMA PassNext ==
    ASSUME TypeOK, ControlInv, PassInv, BeginInv, [Next]_vars
    PROVE  PassInv'
<1> DEFINE Inside == {"queue", "wait", "stop", "halt", "evaluate"}
<1>1. CASE pc' \notin Inside
  BY <1>1 DEF PassInv
<1>2. CASE UNCHANGED vars /\ pc \in Inside
  BY <1>2, SamePass DEF vars, program, disk
<1>3. CASE OpenGate
  <2>1. pc \in Inside /\ UNCHANGED <<stream, area, pass, descriptors, pc, dma>>
    BY <1>3 DEF ControlInv, OpenGate, program
  <2> QED
    BY <2>1, SamePass
<1>4. CASE CloseGate
  <2>1. /\ stream \in Seq(Packet) /\ area \in Nat /\ pc \in {"wait", "stop"}
        /\ area' = area + 1 /\ UNCHANGED <<pc, pass, dma, descriptors>>
    BY <1>4, AreaFacts DEF TypeOK, ControlInv, CloseGate, program
  <2>2. PICK packet \in Packet :
              /\ stream' = Append(stream, packet)
              /\ packet.pass = pass /\ packet.area = area
              /\ ~packet.cut /\ packet.length = OwnLength(area)
    BY <1>4, CloseGatePacket
  <2> QED
    BY <2>1, <2>2, ChainAppend, StuckAppend DEF PassInv
<1>5. CASE Receive /\ pc \in Inside
  BY <1>5, PassReceive
<1>6. CASE Tailed
  BY <1>6, PassTailed
<1>7. CASE Queue \/ EndWait
  <2>1. /\ pc \in {"queue", "wait"} /\ pc' \in {"wait", "stop"}
        /\ UNCHANGED <<stream, area, pass, descriptors, dma>>
    BY <1>7 DEF Queue, EndWait, Goto, disk
  <2> QED
    BY <2>1, SamePass
<1>8. CASE StopTimer
  <2>1. /\ stream \in Seq(Packet) /\ area \in Nat /\ pc = "stop" /\ pc' = "halt"
        /\ UNCHANGED <<area, pass, dma, descriptors>>
    BY <1>8, AreaFacts DEF TypeOK, StopTimer, Goto
  <2>2. CASE gate
    <3>1. PICK packet \in Packet :
                /\ stream' = Append(stream, packet)
                /\ packet.pass = pass /\ packet.area = area
      BY <1>8, <2>2, StopTimerPacket
    <3>2. area < Areas
      BY <2>2 DEF ControlInv
    <3> QED
      BY <2>1, <3>1, <3>2, ChainAppend, StuckAppend DEF PassInv
  <2>3. CASE ~gate
    <3>1. stream' = stream
      BY <1>8, <2>3, StopTimerNoPacket
    <3> QED
      BY <2>1, <3>1, SamePass
  <2> QED
    BY <2>2, <2>3
<1>9. CASE Halt
  <2>1. /\ pc = "halt" /\ pc' = "evaluate" /\ UNCHANGED <<stream, area, pass, descriptors>>
        /\ dma'.state = "receiving" => dma.state = "receiving" /\ dma'.current = dma.current
    BY <1>9 DEF TypeOK, Halt, StopDma, Halted, Goto, disk
  <2> QED
    BY <2>1, SamePass
<1>10. CASE pc' = pc /\ pc \in Inside
  <2>1. OpenGate \/ CloseGate \/ Receive \/ UNCHANGED vars
    BY <1>10
       DEF Next, Program, ResetDatapath, Flush, EndFlush, Flushed, Begin, Start, FillChain,
           Tailed, Queue, EndWait, StopTimer, Halt, Evaluate, Goto
  <2> QED
    BY <1>2, <1>3, <1>4, <1>5, <1>10, <2>1
<1>11. CASE pc' # pc /\ pc' \in Inside
  <2>1. Tailed \/ Queue \/ EndWait \/ StopTimer \/ Halt
    BY <1>11
       DEF Next, Program, OpenGate, CloseGate, Receive, ResetDatapath, Flush, EndFlush, Flushed,
           Begin, Start, FillChain, Evaluate, Goto, vars, program
  <2> QED
    BY <1>6, <1>7, <1>8, <1>9, <2>1
<1> QED
  BY <1>1, <1>10, <1>11

LEMMA NextIInv ==
    ASSUME IInv, [Next]_vars
    PROVE  IInv'
BY TypeNext, ControlNext, BeginNext, BetweenNext, PassNext DEF IInv

-----------------------------------------------------------------------------
(* The theorems.                                                            *)

LEMMA Inductive == Spec => []IInv
<1>1. Init => IInv
  BY InitIInv
<1>2. IInv /\ [Next]_vars => IInv'
  BY NextIInv
<1> QED
  BY <1>1, <1>2, PTL DEF Spec

\* TypeOK: among other things, the DMA never goes past the chain that flush_fifo gives
\* it, and the gate never opens for an area that the track does not have.
THEOREM TypeCorrect == Spec => []TypeOK
<1>1. IInv => TypeOK
  BY DEF IInv
<1> QED
  BY <1>1, Inductive, PTL

\* LeftoverIsLastPacket: read_track_sg, given up at any moment, leaves only a packet
\* of the last area, or the DMA waiting for it, when it recommends no reset.
THEOREM LeftoverCorrect == Spec => []LeftoverIsLastPacket
<1>1. IInv => LeftoverIsLastPacket
  BY DEF IInv, BetweenInv, LastPacketOnly, LeftoverIsLastPacket
<1> QED
  BY <1>1, Inductive, PTL

\* The raw buffers change, and the evaluation happens, in one action only.
LEMMA OnlyEvaluate ==
    ASSUME [Next]_vars, raw' # raw \/ (pc = "evaluate" /\ pc' = "attempt")
    PROVE  Evaluate
BY DEF Next, Program, OpenGate, CloseGate, Receive, ResetDatapath, Flush, EndFlush, Flushed,
       Begin, Start, FillChain, Tailed, Queue, EndWait, StopTimer, Halt, Goto, vars, program

\* What read_track_sg makes of the descriptors is what TrackPass allows.
LEMMA EvaluateIsPassOutcome ==
    ASSUME IInv, Evaluate
    PROVE  raw' = PassOutcome(raw, [s \in Sector |-> [pass |-> pass, sector |-> s]],
                              [s \in Sector |-> Result(2 * s)],
                              [s \in Sector |-> Result(2 * s + 1)])
<1> DEFINE here == [s \in Sector |-> [pass |-> pass, sector |-> s]]
           address == [s \in Sector |-> Result(2 * s)]
           data == [s \in Sector |-> Result(2 * s + 1)]
           broken(s) == \/ address[s] = "incomplete"
                        \/ address[s] \in Delivered /\ data[s] = "incomplete"
           found(s) == (\A r \in 0 .. s - 1 : ~broken(r)) /\ address[s] \in Delivered
<1>1. ASSUME NEW a \in Area
      PROVE  /\ (Result(a) = "incomplete") <=> (Accepts(a) = "incomplete")
             /\ (Result(a) \in Delivered) <=> (Accepts(a) = "found")
             /\ (Result(a) = "good") <=> (Accepts(a) = "found" /\ ContentOf(a) # Garbage)
             /\ (Result(a) = "corrupt") <=> (Accepts(a) = "found" /\ ContentOf(a) = Garbage)
  BY DEF Result, Delivered
<1>2. ASSUME NEW a \in Area, NEW before, Accepts(a) = "found"
      PROVE  Copied(Result(a), [pass |-> pass, sector |-> SectorOf(a)], before) = ContentOf(a)
  <2>1. descriptors[a] # None
    BY <1>2 DEF Accepts
  <2>2. CASE ContentOf(a) = Garbage
    BY <1>1, <1>2, <2>2 DEF Copied
  <2>3. CASE ContentOf(a) # Garbage
    <3>1. ContentOf(a) = [pass |-> pass, sector |-> SectorOf(a)]
      BY <2>1, <2>3, OwnContent DEF IInv, Evaluate, Goto
    <3>2. Result(a) = "good"
      BY <1>1, <1>2, <2>3
    <3> QED
      BY <3>1, <3>2 DEF Copied
  <2> QED
    BY <2>2, <2>3
<1>3. ASSUME NEW a \in Area, NEW before, NEW position, Accepts(a) # "found"
      PROVE  Copied(Result(a), position, before) = before
  BY <1>1, <1>3 DEF Copied
<1>4. ASSUME NEW s \in Sector
      PROVE  /\ 2 * s \in Area /\ 2 * s + 1 \in Area
             /\ SectorOf(2 * s) = s /\ SectorOf(2 * s + 1) = s
             /\ address[s] = Result(2 * s) /\ data[s] = Result(2 * s + 1)
             /\ here[s] = [pass |-> pass, sector |-> s]
  BY SectorFacts
<1>5. ASSUME NEW s \in Sector PROVE broken(s) <=> Breaks(s)
  BY <1>1, <1>4 DEF Breaks
<1>6. ASSUME NEW s \in Sector PROVE found(s) <=> AddressFound(s)
  <2>1. \A r \in 0 .. s - 1 : r \in Sector
    BY TrackAssumption DEF Sector
  <2>2. (\A r \in 0 .. s - 1 : ~broken(r)) <=> Reached(s)
    BY <1>5, <2>1 DEF Reached
  <2>3. (address[s] \in Delivered) <=> (Accepts(2 * s) = "found")
    BY <1>1, <1>4
  <2> QED
    BY <2>2, <2>3 DEF AddressFound
<1> DEFINE outcome(s) ==
              [addr |-> IF found(s) THEN Copied(address[s], here[s], Missing) ELSE Missing,
               data |-> IF found(s) THEN Copied(data[s], here[s], raw[s].data) ELSE raw[s].data,
               data_read_ok |-> found(s) /\ data[s] \in Delivered]
           result(s) ==
              [addr |-> IF AddressFound(s) THEN ContentOf(2 * s) ELSE Missing,
               data |-> IF DataFound(s) THEN ContentOf(2 * s + 1) ELSE raw[s].data,
               data_read_ok |-> DataFound(s)]
<1>7. ASSUME NEW s \in Sector PROVE outcome(s) = result(s)
  <2>1. AddressFound(s) => Copied(address[s], here[s], Missing) = ContentOf(2 * s)
    BY <1>2, <1>4 DEF AddressFound
  <2>2. (found(s) /\ data[s] \in Delivered) <=> DataFound(s)
    BY <1>1, <1>4, <1>6 DEF DataFound
  <2>3. AddressFound(s) => Copied(data[s], here[s], raw[s].data)
                            = IF DataFound(s) THEN ContentOf(2 * s + 1) ELSE raw[s].data
    BY <1>2, <1>3, <1>4 DEF DataFound
  <2>4. DataFound(s) => AddressFound(s)
    BY DEF DataFound
  <2>5. outcome(s).addr = result(s).addr
    BY <1>6, <2>1
  <2>6. outcome(s).data = result(s).data
    BY <1>6, <2>3, <2>4
  <2>7. outcome(s).data_read_ok = result(s).data_read_ok
    <3>1. DataFound(s) \in BOOLEAN
      BY DEF DataFound, AddressFound, Reached
    <3>2. (found(s) /\ data[s] \in Delivered) = DataFound(s)
      BY <2>2, <3>1
    <3> QED
      BY <3>2, Zenon
  <2> QED
    BY <2>5, <2>6, <2>7
<1>8. raw' = [s \in Sector |-> result(s)]
  BY DEF Evaluate
<1>9. PassOutcome(raw, here, address, data) = [s \in Sector |-> outcome(s)]
  BY DEF PassOutcome
<1> QED
  BY <1>7, <1>8, <1>9, Zenon

\* ImplementsPass: what reaches the buffers that main works on is what TrackPass
\* promises, whatever earlier passes left in the stream.
THEOREM KeepsPromise == Spec => ImplementsPass
<1> DEFINE Allowed == raw' = PassOutcome(raw, [s \in Sector |-> [pass |-> pass, sector |-> s]],
                                         [s \in Sector |-> Result(2 * s)],
                                         [s \in Sector |-> Result(2 * s + 1)])
<1>1. IInv /\ [Next]_vars => [Allowed]_raw
  BY OnlyEvaluate, EvaluateIsPassOutcome
<1> QED
  BY <1>1, Inductive, PTL DEF Spec, ImplementsPass

\* Resynchronises: a shift of the chain that reaches a second area is noticed.
THEOREM ShiftIsNoticed == Spec => Resynchronises
<1> DEFINE Noticed == pc = "evaluate" /\ pc' = "attempt" /\ area > 1
                         /\ (\E a \in Area : Misplaced(a))
                      => reset_recommended'
<1>1. ASSUME IInv, Evaluate, area > 1, NEW a \in Area, Misplaced(a) PROVE ReqReset
  <2> SUFFICES ASSUME ~ReqReset PROVE FALSE
    OBVIOUS
  <2>1. area \in Nat /\ PassInv /\ pc = "evaluate"
    BY <1>1, AreaFacts DEF IInv, TypeOK, Evaluate, Goto
  <2>2. PICK c \in 0 .. Areas, off \in 0 .. 1 : Chained(c, off)
    BY <2>1, StuckResets DEF PassInv
  <2>3. off = 0
    BY <1>1, <2>1, <2>2, ShiftedResets
  <2>4. Numbered(descriptors[a], a, 0)
    BY <1>1, <2>2, <2>3 DEF Misplaced, Chained
  <2>5. descriptors[a].pass = pass /\ descriptors[a].area = a
    BY <2>4, AreaFacts DEF Numbered, Area
  <2> QED
    BY <1>1, <2>5 DEF Misplaced
<1>2. ASSUME IInv, [Next]_vars PROVE [Noticed]_vars
  <2> SUFFICES ASSUME pc = "evaluate", pc' = "attempt", area > 1, \E a \in Area : Misplaced(a)
               PROVE  reset_recommended'
    OBVIOUS
  <2>1. Evaluate
    BY <1>2, OnlyEvaluate
  <2>2. ReqReset
    BY <1>1, <1>2, <2>1
  <2> QED
    BY <2>1, <2>2, Zenon DEF Evaluate
<1> QED
  BY <1>2, Inductive, PTL DEF Spec, Resynchronises
=============================================================================
