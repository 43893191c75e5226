------------------------------ MODULE Formats ------------------------------
(***************************************************************************)
(* The formats of the five controllers: their records of struct            *)
(* esdi_controller (where the areas lie, how they begin, how long they     *)
(* are), which LBAs a track holds, and how an address area and a data area *)
(* are turned into a block.                                                *)
(*                                                                         *)
(* Everything is as in the source except the number of data bytes of a     *)
(* sector, which is SectorSize for 512 or 256: the windows and the lengths *)
(* are shorter by the difference.                                          *)
(***************************************************************************)
EXTENDS Crc

CONSTANTS
    SectorSize,                 \* sector_size
    Cylinders, Heads, Sectors   \* drive_params

ASSUME FormatAssumption ==
    /\ {SectorSize, Cylinders, Heads, Sectors} \subseteq Nat \ {0}
    /\ Sectors > 4
    /\ ByteBits = 8

\* drive_seek sends 12 bits, the heads have 4 select lines, and the drive's number of
\* sectors is taken from one byte.
ASSUME AddressAssumption == Cylinders <= 4096 /\ Heads <= 16 /\ Sectors <= 255

Word(nibbles) ==
    [n \in 1 .. 4 * Len(nibbles) |-> (nibbles[(n + 3) \div 4] \div 2 ^ ((4 * Len(nibbles) - n) % 4)) % 2]
ByteOf(n) == [j \in 1 .. 8 |-> (n \div 2 ^ (8 - j)) % 2]
Value(byte) == 128 * byte[1] + 64 * byte[2] + 32 * byte[3] + 16 * byte[4]
               + 8 * byte[5] + 4 * byte[6] + 2 * byte[7] + byte[8]
Ones(n) == [i \in 1 .. n |-> 1]

Ccitt == Word(<<1, 0, 2, 1>>)
Ibm32 == Word(<<4, 1, 0, 4, 4, 1, 8, 5>>)

\* Positions in clocks of 10 ns; a check has its polynomial, initial value and the
\* bytes before the first one it covers; dataAt is where the block begins.
adaptec_acb2322 ==
    [addrWindow |-> <<1308, 3180>>, dataWindow |-> <<3300, 45940>>, size |-> 512, dataAt |-> 1,
     addrSync |-> 254, dataSync |-> 254, addrLength |-> 8,
     addrCheck |-> [poly |-> Ccitt, init |-> Zeros(16), skip |-> 0],
     dataCheck |-> [poly |-> Word(<<1, 8, 1, 8, 1, 4, 5, 0, 3, 0, 1, 1>>),
                    init |-> Zeros(48), skip |-> 0]]
ibm_5364 ==
    [addrWindow |-> <<242, 2182>>, dataWindow |-> <<2270, 24408>>, size |-> 256, dataAt |-> 1,
     addrSync |-> 254, dataSync |-> 248, addrLength |-> 8,
     addrCheck |-> [poly |-> Ccitt, init |-> Ones(16), skip |-> 1],
     dataCheck |-> [poly |-> Word(<<1, 0, 0, 11, 0, 0, 0, 1, 1, 0, 0, 11>>),
                    init |-> Ones(48), skip |-> 1]]
ibm_ps2 ==
    [addrWindow |-> <<408, 2280>>, dataWindow |-> <<2540, 45176>>, size |-> 512, dataAt |-> 1,
     addrSync |-> 161, dataSync |-> 161, addrLength |-> 10,
     addrCheck |-> [poly |-> Ibm32, init |-> Zeros(32), skip |-> 0],
     dataCheck |-> [poly |-> Ibm32, init |-> Zeros(32), skip |-> 0]]
ibm_rt_enhanced ==
    [addrWindow |-> <<242, 2182>>, dataWindow |-> <<2270, 45036>>, size |-> 512, dataAt |-> 1,
     addrSync |-> 254, dataSync |-> 254, addrLength |-> 9,
     addrCheck |-> [poly |-> Ibm32, init |-> Zeros(32), skip |-> 0],
     dataCheck |-> [poly |-> Ibm32, init |-> Zeros(32), skip |-> 0]]
ultrastor_12f ==
    [addrWindow |-> <<661, 1954>>, dataWindow |-> <<2013, 30683>>, size |-> 512, dataAt |-> 2,
     addrSync |-> 161, dataSync |-> 161, addrLength |-> 9,
     addrCheck |-> [poly |-> Ccitt, init |-> Ones(16), skip |-> 0],
     dataCheck |-> [poly |-> Word(<<1, 4, 0, 10, 0, 4, 4, 5, 0, 0, 0, 1, 0, 1>>),
                    init |-> Ones(56), skip |-> 0]]

controllers ==
    [ADAPTEC_ACB2322 |-> adaptec_acb2322, IBM_5364 |-> ibm_5364, IBM_PS2 |-> ibm_ps2,
     IBM_RT_ENHANCED |-> ibm_rt_enhanced, ULTRASTOR_12F |-> ultrastor_12f]
Controller == DOMAIN controllers

LeftOut(k) == controllers[k].size - SectorSize
DataLength(k) == LET f == controllers[k]
                 IN  f.dataAt + SectorSize + Len(f.dataCheck.poly) \div ByteBits

-----------------------------------------------------------------------------
(* get_expected_lbas.                                                       *)

\* Sectors with a block: on a full track, in a cylinder, on this track, and the
\* cylinders that have any.
TrackSize(k) == IF k = "IBM_5364" THEN Sectors - 1 ELSE Sectors
CylinderSize(k) == IF k = "IBM_PS2" THEN Heads * Sectors - 4 ELSE Heads * TrackSize(k)
BlocksOnTrack(k, h) == IF k = "IBM_PS2" /\ h >= 6 THEN Sectors - 4 ELSE TrackSize(k)
DataCylinders(k) == CASE k = "ADAPTEC_ACB2322" -> Cylinders - 2
                      [] k = "IBM_PS2" -> Cylinders - 4
                      [] OTHER -> Cylinders

FirstLba(k, c, h) == CylinderSize(k) * c + TrackSize(k) * h
ExpectedLbas(k, c, h) ==
    IF c >= DataCylinders(k) THEN {}
    ELSE {FirstLba(k, c, h) + i : i \in 0 .. BlocksOnTrack(k, h) - 1}

-----------------------------------------------------------------------------
(* process_sector.                                                          *)

\* uint32_t header_check, data_check: of a longer remainder the low 32 bits.
\* (Seeded fault: Truncated8 keeps 8 bits.)
Truncated8(check) == LowBits(check, 8)
Truncated(check) == IF Len(check) > 32 THEN LowBits(check, 32) ELSE check
WordWidth(n) == IF n > 32 THEN 64 ELSE n
Remainder(area, check) ==
    CrcMsb(SubSeq(area, check.skip + 1, Len(area)), check.poly, check.init,
           WordWidth(Len(check.poly)))
Passes(area, check) == 1 \notin Range(Truncated(Remainder(area, check)))

\* The address area as numbers; a[i] is address_area[i].
Header(area) == [i \in 0 .. Len(area) - 1 |-> Value(area[i + 1])]

cylinder_high_byte_map == <<254, 255, 252, 253, 246, 247, 244>>
HighByte(a) == {i \in 1 .. 7 : cylinder_high_byte_map[i] = a[1]}

\* A header that says its sector holds no block.
MarksSpare(k, a) ==
    \/ k = "IBM_5364" /\ a[4] = 255
    \/ k = "IBM_PS2" /\ <<a[1], a[2], a[3], a[4] % 16>> = <<127, 127, 127, 15>>
MarksBad(k, a) ==
    \/ k = "ADAPTEC_ACB2322" /\ a[5] >= 128
    \/ k = "IBM_PS2" /\ a[4] >= 128
    \/ k = "IBM_RT_ENHANCED" /\ a[3] >= 128

HasCylinder(k, a) == k = "ULTRASTOR_12F" => HighByte(a) # {}
Chs(k, a) ==
    CASE k = "ADAPTEC_ACB2322" -> <<256 * a[1] + a[2], a[3], a[4] - 1>>
      [] k = "IBM_5364" -> <<256 * a[1] + a[2], a[3], a[4]>>
      [] k = "IBM_RT_ENHANCED" -> <<256 * (a[1] % 16) + a[2], a[3] % 16, a[4] - 1>>
      [] k = "ULTRASTOR_12F" ->
            <<256 * ((CHOOSE i \in HighByte(a) : TRUE) - 1) + a[2], a[3] % 32, a[4] - 1>>

\* Only two controllers compare the header with where the heads were sent.
OnTrack(k, a, at) ==
    k \in {"IBM_RT_ENHANCED", "ULTRASTOR_12F"} => at = SubSeq(Chs(k, a), 1, 2)

Lba(k, a) ==
    IF k = "IBM_PS2" THEN a[1] + 256 * a[2] + 65536 * a[3] + 16777216 * (a[4] % 16)
    ELSE FirstLba(k, Chs(k, a)[1], Chs(k, a)[2]) + Chs(k, a)[3]

\* The marks that a controller does not assign are as they were before.
Marked(k, a, before) ==
    [before EXCEPT
        !.marked_spare = CASE k \in {"IBM_5364", "IBM_PS2"} -> MarksSpare(k, a)
                           [] k = "IBM_RT_ENHANCED" -> FALSE
                           [] OTHER -> @,
        !.marked_bad = IF k \in {"ADAPTEC_ACB2322", "IBM_RT_ENHANCED"}
                          \/ (k = "IBM_PS2" /\ ~MarksSpare(k, a))
                       THEN MarksBad(k, a) ELSE @]

\* at is <<raw->cylinder, raw->head>>.
Process(k, at, address, data, before) ==
    LET f == controllers[k]
        a == Header(address)
        marked == Marked(k, a, before)
    IN  IF ~Passes(address, f.addrCheck) 
        THEN [before EXCEPT !.status = -1,
                            !.marked_spare = IF k = "IBM_RT_ENHANCED" THEN FALSE ELSE @]
        ELSE IF MarksSpare(k, a) \/ MarksBad(k, a) THEN [marked EXCEPT !.status = 0]
        ELSE IF ~HasCylinder(k, a) THEN [marked EXCEPT !.status = -4]
        ELSE IF ~OnTrack(k, a, at) THEN [marked EXCEPT !.status = -2]
        ELSE IF ~Passes(data, f.dataCheck) THEN [marked EXCEPT !.status = -3]
        ELSE [marked EXCEPT !.status = 0, !.lba = Lba(k, a),
                            !.data = SubSeq(data, f.dataAt + 1, f.dataAt + SectorSize)]
=============================================================================
