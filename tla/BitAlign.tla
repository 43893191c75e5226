------------------------------ MODULE BitAlign ------------------------------
(***************************************************************************)
(* Bits and bytes: how hdl/axi_esdi_read_datapath.v cuts the bits that     *)
(* pass under the gate into bytes, and how software/datapath.c and util.c  *)
(* find an area among them again, whose bytes begin at any bit.            *)
(*                                                                         *)
(* A byte is a sequence of ByteBits bits, the most significant first; a    *)
(* buffer is a sequence of bytes.  Offsets count from 0 as in the code.    *)
(***************************************************************************)
EXTENDS Integers, SequencesExt

CONSTANT ByteBits       \* 8

ASSUME ByteAssumption == ByteBits \in Nat /\ ByteBits > 1

Bit == {0, 1}
Byte == [1 .. ByteBits -> Bit]
Zeros(n) == [i \in 1 .. n |-> 0]
Bits(bytes) == [n \in 1 .. ByteBits * Len(bytes) |->
                  bytes[(n - 1) \div ByteBits + 1][((n - 1) % ByteBits) + 1]]

\* The bytes of an opening of the gate.  The shift register is not cleared between
\* two bytes: the last byte, if it is not full, holds its bits on the right and on
\* the left what was shifted in before them.
\* (Seeded fault: BytesOfUnfilled leaves the last byte short.)
BytesOfUnfilled(before, bits) ==
    [i \in 1 .. (Len(bits) + ByteBits - 1) \div ByteBits |->
        SubSeq(bits, (i - 1) * ByteBits + 1,
               IF i * ByteBits <= Len(bits) THEN i * ByteBits ELSE Len(bits))]
BytesOf(before, bits) ==
    LET all == before \o bits IN
    [i \in 1 .. (Len(bits) + ByteBits - 1) \div ByteBits |->
        IF i * ByteBits <= Len(bits)
        THEN SubSeq(bits, (i - 1) * ByteBits + 1, i * ByteBits)
        ELSE SubSeq(all, Len(all) - ByteBits + 1, Len(all))]

\* findbyte: every place where the pattern occurs, at whatever bit, in bits from
\* the start.  The one found is the first.
Places(buffer, pattern) ==
    LET bits == Bits(buffer) IN
    {p \in 0 .. (Len(buffer) - 1) * ByteBits : \A j \in 1 .. ByteBits : bits[p + j] = pattern[j]}
First(places) == CHOOSE p \in places : \A q \in places : p <= q
Offset(place) == place \div ByteBits
BitOf(place) == place % ByteBits

\* copy_buff_start_at: the bytes of the buffer's first length bytes from that bit
\* on, the last one filled up with zeros.
\* (Seeded fault: CopyWithoutCarry forgets the bits of the next byte.)
CopyWithoutCarry(buffer, length, offset, bit) ==
    [i \in 1 .. length - offset |->
        SubSeq(buffer[offset + i], bit + 1, ByteBits) \o Zeros(bit)]
CopyStartAt(buffer, length, offset, bit) ==
    LET stream == Bits(SubSeq(buffer, 1, length)) \o Zeros(ByteBits) IN
    [i \in 1 .. length - offset |->
        SubSeq(stream, (offset + i - 1) * ByteBits + bit + 1, (offset + i) * ByteBits + bit)]

\* copy_buff_to_offset: the inverse, zeros around what is not aligned.
CopyToOffset(dest, src, offset, bit) ==
    LET shifted == Zeros(bit) \o Bits(src) \o Zeros(ByteBits - bit) IN
    [i \in DOMAIN dest |->
        IF i > offset /\ i <= offset + Len(src) + (IF bit = 0 THEN 0 ELSE 1)
        THEN SubSeq(shifted, (i - offset - 1) * ByteBits + 1, (i - offset) * ByteBits)
        ELSE dest[i]]

\* How read_track_sg and main take an area of so many bytes out of a packet or of
\* a window of an emulation slot: what went wrong, or where it began and all that
\* the copy wrote, which is a byte more than the area if it began between two bytes.
\* (Seeded fault: SpareAlways asks for that byte of every area.)
SpareAlways(place) == 1
Spare(place) == IF BitOf(place) = 0 THEN 0 ELSE 1
Fits(buffer, place, length) == Offset(place) + Spare(place) + length <= Len(buffer)

Area(buffer, sync, length) ==
    LET places == Places(buffer, sync)
        place == First(places)
        copied == CopyStartAt(buffer, Offset(place) + Spare(place) + length,
                              Offset(place), BitOf(place))
    IN  IF places = {} THEN [status |-> "noSync"]
        ELSE IF ~Fits(buffer, place, length) THEN [status |-> "notEnough"]
        ELSE [status |-> "found", bytes |-> copied, place |-> place]
=============================================================================
