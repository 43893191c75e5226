---------------------------- MODULE ReadDatapath ----------------------------
(***************************************************************************)
(* hdl/axi_esdi_read_datapath.v: the bits that the drive delivers while    *)
(* the read gate is open become a stream of bytes, one packet for each     *)
(* opening of the gate.  A byte is held back until it is known whether it  *)
(* is the last of its packet.                                              *)
(*                                                                         *)
(* One step is one clock.  Its inputs are the edge of the read clock, if   *)
(* one is seen, and whether the stream's consumer takes a byte.  The model *)
(* runs as datapath_start leaves the registers: enabled, the gate heeded,  *)
(* the drive's clock used; and within one pass, so overflow is not         *)
(* cleared.                                                                *)
(***************************************************************************)
EXTENDS BitAlign

CONSTANTS
    MaxBytes,           \* MAX_BYTES_PER_PACKET
    MinGap,             \* the gate stays closed for at least so many clocks
    Openings, MaxBits,  \* bound: openings of the gate and bits in them
    None

StreamByte == [data : Byte, last : BOOLEAN]

ASSUME DatapathAssumption ==
    /\ {MaxBytes, MinGap, Openings, MaxBits} \subseteq Nat
    /\ MaxBytes > 0
    /\ None \notin Bit \cup StreamByte

\* The sector timer closes the gate for longer than this: AddressDeassert and
\* DataAssert lie at least 59 clocks apart in all five controllers.
ASSUME GapAssumption == MinGap >= 2

VARIABLES
    esdi_read_gate,     \* input
    closedFor,          \* clocks since the gate closed, to MinGap
    new_bit,            \* the bit sampled on the last clock, or None
    data_in, bit_count, \* shift register, bits in it that belong to no byte yet
    new_byte,           \* the byte completed on the last clock, or None
    pending,            \* the byte held back, or None
    byte_count,         \* bytes sent of this packet
    parallel,           \* the byte offered to the stream (parallel_t*), or None
    overflow,
    openings,           \* history: what data_in held at first, then each opening's bits
    delivered           \* history: the bytes the stream took

registers == <<new_bit, data_in, bit_count, new_byte, pending, byte_count, parallel, overflow>>
vars == <<esdi_read_gate, closedFor, registers, openings, delivered>>

TypeOK ==
    /\ esdi_read_gate \in BOOLEAN
    /\ closedFor \in 0 .. MinGap
    /\ new_bit \in Bit \cup {None}
    /\ data_in \in Byte
    /\ bit_count \in 0 .. ByteBits - 1
    /\ {new_byte, pending, parallel} \subseteq StreamByte \cup {None}
    /\ byte_count \in 0 .. MaxBytes - 1
    /\ overflow \in BOOLEAN

Init ==
    /\ esdi_read_gate = FALSE
    /\ closedFor = MinGap
    /\ new_bit = None
    /\ data_in \in Byte
    /\ bit_count = 0
    /\ new_byte = None
    /\ pending = None
    /\ byte_count = 0
    /\ parallel = None
    /\ overflow = FALSE
    /\ openings = <<data_in>>
    /\ delivered = <<>>

-----------------------------------------------------------------------------
(* Sampling, at the edges of the read clock while the gate is open.  No two *)
(* edges follow one another: an edge is a 1 in the synchroniser and then 0. *)

Sampled == Len(FlattenSeq(Tail(openings)))

Sample(pulse) ==
    /\ pulse # None => new_bit = None /\ Sampled < MaxBits
    /\ new_bit' = IF esdi_read_gate THEN pulse ELSE None

-----------------------------------------------------------------------------
(* Deserialising.                                                           *)

Shifted == Append(Tail(data_in), new_bit)

\* "If after read gate is deasserted, bit_count has *settled* at a non zero number,
\* then push those bits through": not while a sampled bit is on its way.
\* (Seeded fault: SettledAtOnce overlooks that bit.)
SettledAtOnce == ~esdi_read_gate
Settled == ~esdi_read_gate /\ new_bit = None

Deserialise ==
    /\ data_in' = IF new_bit # None THEN Shifted ELSE data_in
    /\ bit_count' = IF Settled THEN 0
                    ELSE IF new_bit # None THEN (bit_count + 1) % ByteBits ELSE bit_count
    /\ new_byte' = IF Settled /\ bit_count # 0 THEN [data |-> data_in, last |-> TRUE]
                   ELSE IF new_bit # None /\ bit_count = ByteBits - 1
                   THEN [data |-> Shifted, last |-> FALSE] ELSE None

-----------------------------------------------------------------------------
(* Sending.                                                                 *)

Sends == pending # None /\ (new_byte # None \/ pending.last)
IsLast == byte_count = MaxBytes - 1 \/ pending.last

\* The completed byte takes the place of the one sent; when the gate has closed and
\* no bits are left over, the byte held back is the last one.
\* (Seeded fault: HoldFullByte only knows the end of a packet from a partial byte.)
HoldFullByte == pending' = IF new_byte # None THEN new_byte ELSE IF Sends THEN None ELSE pending
Hold ==
    LET kept == IF new_byte # None THEN new_byte ELSE IF Sends THEN None ELSE pending
    IN  pending' = IF kept # None /\ Settled /\ bit_count = 0
                   THEN [kept EXCEPT !.last = TRUE] ELSE kept

\* (Seeded fault: CountToLast does not restart at MaxBytes.)
CountToLast ==
    byte_count' = IF ~Sends THEN byte_count ELSE IF pending.last THEN 0 ELSE byte_count + 1
Count == byte_count' = IF ~Sends THEN byte_count ELSE IF IsLast THEN 0 ELSE byte_count + 1

Send(ready) ==
    /\ parallel' = IF Sends THEN [data |-> pending.data, last |-> IsLast]
                   ELSE IF ready THEN None ELSE parallel
    /\ overflow' = (overflow \/ (Sends /\ parallel # None /\ ~ready))

-----------------------------------------------------------------------------
(* The gate: the sector timer's, for the next clock.                        *)

Gate ==
    /\ esdi_read_gate' \in BOOLEAN
    /\ esdi_read_gate' /\ ~esdi_read_gate => closedFor = MinGap /\ Len(openings) <= Openings
    /\ closedFor' = IF esdi_read_gate' THEN 0
                    ELSE IF closedFor < MinGap THEN closedFor + 1 ELSE closedFor

Recorded(ready) ==
    /\ openings' =
          LET grown == IF new_bit' = None THEN openings
                       ELSE [openings EXCEPT ![Len(openings)] = Append(@, new_bit')]
          IN  IF esdi_read_gate' /\ ~esdi_read_gate THEN Append(grown, <<>>) ELSE grown
    /\ delivered' = IF parallel # None /\ ready THEN Append(delivered, parallel) ELSE delivered

Clock(ready) ==
    /\ \E pulse \in Bit \cup {None} : Sample(pulse)
    /\ Deserialise
    /\ Hold
    /\ Count
    /\ Send(ready)
    /\ Gate
    /\ Recorded(ready)

Next == \E ready \in BOOLEAN : Clock(ready)

Spec == Init /\ [][Next]_vars

\* The stream FIFO and the DMA behind it take a byte now and then.
FairSpec == Spec /\ WF_vars(Clock(TRUE))

-----------------------------------------------------------------------------
(* What the DMA descriptors rely on.                                        *)

\* The packet of the n-th opening.
Packet(n) ==
    LET before == FlattenSeq(SubSeq(openings, 1, n))
        bytes == BytesOf(before, openings[n + 1])
    IN  [i \in 1 .. Len(bytes) |->
            [data |-> bytes[i], last |-> i = Len(bytes) \/ i % MaxBytes = 0]]
StreamOf(n) == FlattenSeq([i \in 1 .. n |-> Packet(i)])

\* As long as no overflow is reported, the stream is exactly what passed under the
\* gate: no bit lost, doubled or moved to another packet, a packet ending with each
\* opening (and at MaxBytes), however the last bits, the closing of the gate and a
\* slow consumer fall together.  If bytes were lost, the flag says so.
StreamIsWhatPassed == ~overflow => IsPrefix(delivered, StreamOf(Len(openings) - 1))

\* The end of a packet is only known after its last bit: it must still come out,
\* without another opening of the gate to push it.
EveryPacketEnds ==
    \A n \in 1 .. Openings :
        Len(openings) = n + 1 /\ ~esdi_read_gate
            ~> overflow \/ (Len(openings) > n /\ IsPrefix(StreamOf(n), delivered))
=============================================================================
