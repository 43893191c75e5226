----------------------------- MODULE SectorPath -----------------------------
(***************************************************************************)
(* One sector's way from the disk into the image: the bits that pass in    *)
(* its two windows, the bytes the read datapath makes of them, the areas   *)
(* that read_track_sg finds in these, the block that the controller's      *)
(* process_sector makes of the areas, and back into and out of the slot of *)
(* an emulation file.                                                      *)
(*                                                                         *)
(* Each step is a step of the code on the results of the step before.      *)
(* Where the sector is, what it holds, where the areas begin in their      *)
(* windows, which bits are damaged and whether the heads are where the     *)
(* program sent them is chosen; at most one thing is wrong with a sector.  *)
(***************************************************************************)
EXTENDS Formats

CONSTANTS
    Controllers,    \* those that take part
    Positions,      \* bound: <<cylinder, head, sector>> looked at
    Probes,         \* bound: the positions where damage is tried
    Leads,          \* bound: bits in a window before its area
    Lateness,       \* bound: bits by which an area may come too late
    Bursts,         \* bound: patterns of damaged bits
    SlotBytes       \* emu_header.sector_size_in_image

ASSUME PathAssumption ==
    /\ Controllers \subseteq Controller
    /\ Positions \subseteq (0 .. Cylinders - 1) \X (0 .. Heads - 1) \X (0 .. Sectors - 1)
    /\ Probes \subseteq Positions
    /\ Leads \subseteq Nat /\ \E last \in Leads : \A lead \in Leads : lead <= last
    /\ Lateness \in Nat
    /\ Bursts \subseteq Seq(Bit)

\* Its headers cannot number more cylinders.
ASSUME UltrastorAssumption == "ULTRASTOR_12F" \in Controllers => Cylinders <= 7 * 256

\* A slot has a byte more than a sector has unformatted: the windows lie in it.
ASSUME SlotAssumption ==
    /\ SlotBytes \in Nat \ {0}
    /\ \A k \in Controllers : /\ controllers[k].addrWindow[2] \div 80 + 2 <= SlotBytes
                              /\ controllers[k].dataWindow[2] \div 80 + 2 - LeftOut(k) <= SlotBytes

VARIABLES
    stage,          \* how far the sector has come
    sector,         \* history: its controller, position and kind
    disk,           \* history: its two areas as they were written
    fault,          \* history: "none", "damage", "late" or "misseek"
    at,             \* raw->cylinder, raw->head
    packets,        \* the two buffers the DMA filled
    raw,            \* the two areas of raw_sector, with where they began
    saved,          \* history: what they were when the slot was written
    processed,      \* processed_sector and the decode status
    slot            \* the sector's slot in the emulation file

vars == <<stage, sector, disk, fault, at, packets, raw, saved, processed, slot>>

Part == {"address", "data"}

-----------------------------------------------------------------------------
(* The formatter: what a controller wrote.                                  *)

\* The kinds of sectors of a position.  The PS/2 leaves four sectors of a cylinder's
\* last head without a block, the 5364 one of each track.
Kinds(k, p) ==
    (IF (k = "IBM_5364" /\ p[3] = Sectors - 1)
        \/ (k = "IBM_PS2" /\ p[2] = Heads - 1 /\ p[3] >= Sectors - 4) THEN {} ELSE {"good"})
    \cup (IF k \in {"IBM_5364", "IBM_PS2"} THEN {"spare"} ELSE {})
    \cup (IF k \in {"ADAPTEC_ACB2322", "IBM_PS2", "IBM_RT_ENHANCED"} THEN {"bad"} ELSE {})

BlockNumber(k, p) == CylinderSize(k) * p[1] + TrackSize(k) * p[2] + p[3]

AddressBytes(k, p, kind) ==
    LET high == p[1] \div 256
        low == p[1] % 256
        flag == IF kind = "bad" THEN 128 ELSE 0
        n == IF kind = "spare" THEN 260013951 ELSE BlockNumber(k, p)    \* 0x0F7F7F7F
    IN  CASE k = "ADAPTEC_ACB2322" -> <<254, high, low, p[2], p[3] + 1, flag>>
          [] k = "IBM_5364" ->
                <<254, high, low, p[2], IF kind = "spare" THEN 255 ELSE p[3], 0>>
          [] k = "IBM_PS2" -> <<161, n % 256, (n \div 256) % 256, (n \div 65536) % 256,
                                n \div 16777216 + flag, 0>>
          [] k = "IBM_RT_ENHANCED" -> <<254, high, low, p[2] + flag, p[3] + 1>>
          [] k = "ULTRASTOR_12F" ->
                <<161, cylinder_high_byte_map[high + 1], low, p[2], p[3] + 1, 0, 0>>

DataBytes(k) ==
    LET f == controllers[k] IN
    <<f.dataSync>> \o Zeros(f.dataAt - 1) \o [i \in 1 .. SectorSize |-> 37 * i]

WithCheck(numbers, check) ==
    LET bytes == [i \in DOMAIN numbers |-> ByteOf(numbers[i])]
        bits == Remainder(bytes, check)
    IN  bytes \o [i \in 1 .. Len(bits) \div 8 |-> SubSeq(bits, 8 * i - 7, 8 * i)]

Formatted(k, p, kind) ==
    [address |-> WithCheck(AddressBytes(k, p, kind), controllers[k].addrCheck),
     data |-> WithCheck(DataBytes(k), controllers[k].dataCheck)]

Format == controllers[sector.controller]
SyncOf(part) == ByteOf(IF part = "address" THEN Format.addrSync ELSE Format.dataSync)
LengthOf(part) == IF part = "address" THEN Format.addrLength ELSE DataLength(sector.controller)
AssertAt(part) == IF part = "address" THEN Format.addrWindow[1] ELSE Format.dataWindow[1]
DeassertAt(part) == IF part = "address" THEN Format.addrWindow[2] ELSE Format.dataWindow[2]
Shortened(part) == IF part = "address" THEN 0 ELSE LeftOut(sector.controller)

\* What a reader of an area's buffer takes from it: as many bytes as it was allocated
\* with.  area.bytes is what was last copied there, and may end behind it.
InBuffer(area, part) == SubSeq(area.bytes, 1, LengthOf(part))

\* Buffers of fresh memory.
Empty == [part \in Part |-> [found |-> FALSE, bytes |-> [i \in 1 .. LengthOf(part) |-> Zeros(8)],
                             location |-> 0]]

TypeOK ==
    /\ stage \in {"formatted", "delivered", "taken", "processed", "saved", "reread", "done",
                  "skipped"}
    /\ fault \in {"none", "damage", "late", "misseek"}
    /\ \A part \in Part :
          /\ \A n \in DOMAIN packets[part] : packets[part][n] \in Byte
          /\ \A areas \in {raw, saved} :
                \A n \in DOMAIN areas[part].bytes : areas[part].bytes[n] \in Byte
    /\ processed.status \in {0, -1, -2, -3, -4}
    /\ Len(slot) \in {0, SlotBytes}

Init ==
    /\ stage = "formatted"
    /\ \E k \in Controllers, p \in Positions : \E kind \in Kinds(k, p) :
          /\ p[1] < DataCylinders(k)
          /\ sector = [controller |-> k, position |-> p, kind |-> kind]
    /\ disk = Formatted(sector.controller, sector.position, sector.kind)
    /\ fault = "none"
    /\ at = SubSeq(sector.position, 1, 2)
    /\ packets = [part \in Part |-> <<>>]
    /\ raw = Empty
    /\ saved = Empty
    /\ processed = [status |-> -1, marked_bad |-> FALSE, marked_spare |-> FALSE,
                    lba |-> -1, data |-> <<>>]
    /\ slot = <<>>

-----------------------------------------------------------------------------
(* Under the heads.                                                         *)

\* The drives of the ULTRASTOR_12F deliver 15 Mbit/s, the others 10.
BitRate == IF sector.controller = "ULTRASTOR_12F" THEN 15 ELSE 10
WindowBits(part) == ((DeassertAt(part) - AssertAt(part)) * BitRate) \div 100 - 8 * Shortened(part)

\* Zeros before and after the area; the window closes after so many bits.
Window(part, lead, bits) ==
    SubSeq(Zeros(lead) \o bits \o Zeros(WindowBits(part)), 1, WindowBits(part))
Deliver(lead, bits) ==
    packets' = [part \in Part |-> BytesOf(Zeros(8), Window(part, lead[part], bits[part]))]

OnDisk == [part \in Part |-> Bits(disk[part])]
Damaged(bits, burst, from) ==
    [i \in DOMAIN bits |-> IF i - from \in DOMAIN burst THEN (bits[i] + burst[i - from]) % 2
                           ELSE bits[i]]

\* The last lead at which an area still ends in a whole byte of its window.
LastLead(part) == 8 * (WindowBits(part) \div 8 - LengthOf(part))
Both(lead) == [part \in Part |-> lead]
Early == Both(Max(Leads))

PassWell ==
    /\ \E lead \in [Part -> Leads] : /\ \A part \in Part : lead[part] <= LastLead(part)
                                    /\ Deliver(lead, OnDisk)
    /\ UNCHANGED <<fault, at>>

PassLate ==
    /\ sector.position \in Probes
    /\ \E part \in Part, n \in 1 .. Lateness :
          Deliver([Early EXCEPT ![part] = LastLead(part) + n], OnDisk)
    /\ fault' = "late"
    /\ UNCHANGED at

PassDamaged ==
    /\ sector.position \in Probes
    /\ \E lead \in Leads, part \in Part, burst \in Bursts :
       \E from \in 0 .. 8 * LengthOf(part) - Len(burst) :
          Deliver(Both(lead), [OnDisk EXCEPT ![part] = Damaged(@, burst, from)])
    /\ fault' = "damage"
    /\ UNCHANGED at

PassElsewhere ==
    /\ \E lead \in Leads : Deliver(Both(lead), OnDisk)
    /\ at' \in {<<at[1] + 1, at[2]>>, <<at[1], at[2] + 1>>}
    /\ fault' = "misseek"

Pass ==
    /\ stage = "formatted"
    /\ stage' = "delivered"
    /\ PassWell \/ PassLate \/ PassDamaged \/ PassElsewhere
    /\ UNCHANGED <<sector, disk, raw, saved, processed, slot>>

-----------------------------------------------------------------------------
(* The program.                                                             *)

\* An area out of a packet or a window of a slot; before is what its buffer held.
Taken(part, buffer, before) ==
    LET area == Area(buffer, SyncOf(part), LengthOf(part)) IN
    IF area.status = "found"
    THEN [found |-> TRUE, bytes |-> area.bytes, location |-> AssertAt(part) \div 10 + area.place]
    ELSE [before EXCEPT !.found = FALSE]

\* The data area is only looked for once the address area has been found.
BothTaken(buffer, before) ==
    LET address == Taken("address", buffer["address"], before["address"]) IN
    [address |-> address,
     data |-> IF address.found THEN Taken("data", buffer["data"], before["data"])
              ELSE before["data"]]

\* read_track_sg, after the lengths have been checked.
ReadTrackSg ==
    /\ stage = "delivered"
    /\ stage' = "taken"
    /\ raw' = BothTaken(packets, raw)
    /\ UNCHANGED <<sector, disk, fault, at, packets, saved, processed, slot>>

\* main passes over a sector without an address area.
Skip ==
    /\ stage \in {"taken", "reread"} /\ ~raw["address"].found
    /\ stage' = "skipped"
    /\ UNCHANGED <<sector, disk, fault, at, packets, raw, saved, processed, slot>>

ProcessSector ==
    /\ stage \in {"taken", "reread"} /\ raw["address"].found
    /\ stage' = IF stage = "taken" THEN "processed" ELSE "done"
    /\ processed' = Process(sector.controller, at, InBuffer(raw["address"], "address"),
                            InBuffer(raw["data"], "data"), processed)
    /\ UNCHANGED <<sector, disk, fault, at, packets, raw, saved, slot>>

\* The areas go to where they began, but to a whole byte.
\* (Seeded fault: SlotWithoutNumber forgets the byte before the sector's bits.)
SlotWithoutNumber(part) == raw[part].location \div 8
SlotPlace(part) == raw[part].location \div 8 + 1

WriteSlot ==
    /\ stage = "processed"
    /\ stage' = "saved"
    /\ LET blank == <<ByteOf(sector.position[3])>> \o [i \in 1 .. SlotBytes - 1 |-> Zeros(8)]
           address == CopyToOffset(blank, InBuffer(raw["address"], "address"),
                                     SlotPlace("address"), 0)
       IN  slot' = IF raw["data"].found
                   THEN CopyToOffset(address, InBuffer(raw["data"], "data"), SlotPlace("data"), 0)
                   ELSE address
    /\ saved' = raw
    /\ UNCHANGED <<sector, disk, fault, at, packets, raw, processed>>

\* Another run of the program, from the file; windows in bytes, at 10 Mbit/s.
SlotWindow(part) ==
    SubSeq(slot, AssertAt(part) \div 80 + 2,
           DeassertAt(part) \div 80 + 2 - Shortened(part))
ReadSlot ==
    /\ stage = "saved"
    /\ stage' = "reread"
    /\ raw' = BothTaken([part \in Part |-> SlotWindow(part)], Empty)
    /\ UNCHANGED <<sector, disk, fault, at, packets, saved, processed, slot>>

Next == Pass \/ ReadTrackSg \/ Skip \/ ProcessSector \/ WriteSlot \/ ReadSlot

Spec == Init /\ [][Next]_vars

-----------------------------------------------------------------------------
(* What the image is worth.                                                 *)

Decoded == stage \in {"processed", "done"}
Written == processed.status = 0 /\ ~processed.marked_bad /\ ~processed.marked_spare

\* A block goes into the image only if it is, bit for bit, the block that the
\* controller wrote, at its own number: whatever bit the areas began at, however the
\* gate cut them, with any burst of damage in them, after a mis-seek, and by way of
\* the emulation file.  (Sectors whose data area was not found are the business of
\* Imager's ImageMatchesHeader.)
WrittenIsOwn ==
    Decoded /\ Written /\ raw["data"].found =>
        /\ sector.kind = "good"
        /\ processed.lba = BlockNumber(sector.controller, sector.position)
        /\ processed.data = SubSeq(disk["data"], Format.dataAt + 1, Format.dataAt + SectorSize)

\* Every good sector that passes well is written, and its block is one that
\* get_expected_lbas lists for this track and for no track nearby.
NearbyTracks(p) == {t \in ((p[1] - 1) .. (p[1] + 1)) \X (0 .. Heads - 1) :
                        t[1] >= 0 /\ t # SubSeq(p, 1, 2)}
ExpectedOnce ==
    stage = "processed" /\ fault = "none" /\ sector.kind = "good" =>
        /\ Written
        /\ processed.lba \in ExpectedLbas(sector.controller, at[1], at[2])
        /\ \A track \in NearbyTracks(sector.position) :
              processed.lba \notin ExpectedLbas(sector.controller, track[1], track[2])

\* What went into an emulation slot comes out of it again, area for area, wherever
\* the areas were in their windows; for controllers whose areas fit the windows
\* that the file is read with.
WindowsHold == \A part \in Part : Len(SlotWindow(part)) >= LengthOf(part)
SlotRoundTrip ==
    stage = "reread" /\ WindowsHold =>
        \A part \in Part : /\ raw[part].found = saved[part].found
                           /\ raw[part].found => InBuffer(raw[part], part) = InBuffer(saved[part], part)

\* A copy writes behind the end of the buffer that was allocated for its area exactly
\* if the area began between two bytes, and then one byte and no more, whether it comes
\* from a packet or from a slot.
EndsIn(area, part) ==
    /\ Len(area.bytes) \in LengthOf(part) .. LengthOf(part) + 1
    /\ area.found =>
          (Len(area.bytes) > LengthOf(part) <=> (area.location - AssertAt(part) \div 10) % 8 # 0)
OneBytePast == \A part \in Part : EndsIn(raw[part], part) /\ EndsIn(saved[part], part)

\* The remainders are those of the division of polynomials, whatever passed.
CheckOf(part) == IF part = "address" THEN Format.addrCheck ELSE Format.dataCheck
Polynomials == {f.addrCheck.poly : f \in Range(controllers)}
               \cup {f.dataCheck.poly : f \in Range(controllers)}
PowersOf == [poly \in Polynomials |-> Powers(poly, 8 * (SectorSize + 16))]
CrcIsDivision ==
    stage = "taken" =>
        \A part \in Part :
            LET check == CheckOf(part)
                area == InBuffer(raw[part], part)
                covered == SubSeq(area, check.skip + 1, LengthOf(part))
            IN  Remainder(area, check)
                    = Division(Bits(covered), check.init, PowersOf[check.poly])
=============================================================================
