------------------------------ MODULE Imager ------------------------------
(***************************************************************************)
(* software/main.c: the loop that images a drive.  Cylinder by cylinder    *)
(* and head by head it reads every sector of the track (read_track_sg),    *)
(* decodes each one (the controller's process_sector), writes what decodes *)
(* into the image and tries again what did not, until the track is         *)
(* accounted for, the attempts are used up or the user interrupts.         *)
(*                                                                         *)
(* A position <<c, h, s>> names a physical sector of the disk, and stands  *)
(* for what its address area and its data area hold.  The raw buffers are  *)
(* allocated once per physical sector and outlive passes and tracks.       *)
(***************************************************************************)
EXTENDS TrackPass, FiniteSets

CONSTANTS
    Cylinders, Heads,           \* drive_params (Sectors: TrackPass)
    StartingCylinder,           \* --starting-cylinder
    MaxAttempts,                \* --max-attempts
    Lba,                        \* the LBA that each position's header encodes
    Marked,                     \* positions whose header is flagged bad or spare
    Unexpected,                 \* positions get_expected_lbas leaves out
    ChecksPosition,             \* process_sector returns -2 on another track's header
    Residues,                   \* what a mark reads as that process_sector never assigns
    Modes,                      \* what main is run for, see mode
    MayMisSeek,                 \* a seek may fail: serial_command has no way to tell
    Blank                       \* memory never written whose CRC happens to be zero

Cylinder == 0 .. Cylinders - 1
Head == 0 .. Heads - 1
Position == Cylinder \X Head \X Sector
LBA == {Lba[p] : p \in Position}

ASSUME GeometryAssumption ==
    /\ Cylinders \in Nat /\ Heads \in Nat /\ Sectors \in Nat
    /\ StartingCylinder \in Nat
    /\ MaxAttempts \in Nat
    /\ Lba \in [Position -> Nat]
ASSUME LayoutAssumption ==
    /\ Marked \subseteq Position
    /\ Unexpected \subseteq Position
    /\ \A p, q \in Position \ (Marked \cap Unexpected) : Lba[p] = Lba[q] => p = q
ASSUME ModeAssumption ==
    /\ {ChecksPosition, MayMisSeek} \subseteq BOOLEAN
    /\ Residues \subseteq BOOLEAN
    /\ Modes \subseteq {"image", "emulate", "file"}
    /\ Garbage \notin Position /\ Blank \notin Position /\ Missing \notin Position
    /\ Garbage # Blank /\ Garbage # Missing /\ Blank # Missing

VARIABLES
    pc,             \* which loop of main is about to test its condition
    j, k, i,        \* cylinder, head and sector loop counters
    attempt,        \* passes over the current track so far
    at,             \* the cylinder the heads are really over
    raw,            \* raw_sectors: addr, data and data_read_ok of each sector
    residue,        \* processed_sectors[].marked_*: what malloc left there
    mode,           \* from a drive, with an emulation file besides, or from such a file
    statuses,       \* physical_sector_statuses
    processed,      \* processed_lbas of the current track
    stop,           \* set by the SIGINT handler
    image,          \* the extracted data file: LBA -> data
    slots,          \* the emulation file: position -> address and data areas
    reported,       \* LBAs printed as not read
    stale,          \* history: LBAs last written from a pass that read no data area
    closed          \* history: tracks that went through the report uninterrupted

settings == <<residue, mode>>
control == <<pc, j, k, i, attempt, stop>>
files == <<image, slots, reported, stale, closed>>
vars == <<control, files, at, raw, settings, statuses, processed>>

-----------------------------------------------------------------------------
\* emulation_fd and input_fd are open.
Emulation == mode = "emulate"
FromFile == mode = "file"

\* Reading a file again would not help.
Attempts == IF MaxAttempts < 1 \/ FromFile THEN 1 ELSE MaxAttempts

Track(c, h) == {<<c, h, s>> : s \in Sector}

\* get_expected_lbas
Expected(c, h) == {Lba[p] : p \in Track(c, h) \ Unexpected}

\* raw_sectors[s].address_read_ok: the pass found this sector's address area.
AddressReadOk(s) == raw[s].addr # Missing

RawContent == Position \cup {Garbage, Blank}
RawSector == [addr : Position \cup {Garbage, Missing}, data : RawContent, data_read_ok : BOOLEAN]
Slot == [addr : Position \cup {Garbage}, data : RawContent \cup {Missing}]

TypeOK ==
    /\ pc \in {"cylinder", "head", "attempt", "process", "done"}
    /\ j \in Nat /\ k \in 0 .. Heads /\ i \in 0 .. Sectors
    /\ attempt \in 0 .. Attempts
    /\ pc \in {"attempt", "process"} => j \in Cylinder /\ k \in Head
    /\ pc = "process" => attempt < Attempts
    /\ pc = "head" => j \in Cylinder
    /\ at \in Cylinder \cup {Missing}
    /\ pc \in {"attempt", "process", "head"} => at \in Cylinder
    /\ raw \in [Sector -> RawSector]
    /\ residue \in [Sector -> BOOLEAN]
    /\ mode \in Modes
    /\ statuses \in [Sector -> {"UNREAD", "READ_OK", "READ_WITH_ERRORS"}]
    /\ processed \subseteq LBA
    /\ stop \in BOOLEAN
    /\ image \in [LBA -> RawContent \cup {Missing}]
    /\ slots \in [Position -> Slot \cup {Missing}]
    /\ reported \subseteq LBA
    /\ stale \subseteq LBA
    /\ closed \subseteq Cylinder \X Head

\* The buffers come from malloc: an unread data area may pass its CRC (all
\* zeroes do, with the CRCs that start from zero) or not, and a mark that the
\* controller's decoder never assigns may read as either value.
Init ==
    /\ pc = "cylinder"
    /\ j = StartingCylinder /\ k = 0 /\ i = 0
    /\ attempt = 0
    /\ at = Missing
    /\ \E content \in [Sector -> {Garbage, Blank}] :
          raw = [s \in Sector |-> [addr |-> Missing, data |-> content[s],
                                   data_read_ok |-> FALSE]]
    /\ residue \in [Sector -> Residues]
    /\ mode \in Modes
    /\ statuses = [s \in Sector |-> "UNREAD"]
    /\ processed = {}
    /\ stop = FALSE
    /\ image = [l \in LBA |-> Missing]
    /\ slots = [p \in Position |-> Missing]
    /\ reported = {}
    /\ stale = {}
    /\ closed = {}

-----------------------------------------------------------------------------
(* The cylinder and head loops.                                            *)

\* drive_seek only hands the command over; nothing reports whether the drive
\* received it, so the heads may stay where they are or land elsewhere.
SeekCylinder ==
    /\ pc = "cylinder"
    /\ j < Cylinders /\ ~stop
    /\ IF FromFile \/ ~MayMisSeek THEN at' = j ELSE at' \in Cylinder
    /\ k' = 0
    /\ pc' = "head"
    /\ UNCHANGED <<j, i, attempt, stop, files, raw, settings,
                   statuses, processed>>

Finish ==
    /\ pc = "cylinder"
    /\ j >= Cylinders \/ stop
    /\ pc' = "done"
    /\ UNCHANGED <<j, k, i, attempt, stop, files, at, raw,
                   settings, statuses, processed>>

BeginTrack ==
    /\ pc = "head"
    /\ k < Heads /\ ~stop
    /\ statuses' = [s \in Sector |-> "UNREAD"]
    /\ processed' = {}
    /\ attempt' = 0
    /\ pc' = "attempt"
    /\ UNCHANGED <<j, k, i, stop, files, at, raw, settings>>

EndCylinder ==
    /\ pc = "head"
    /\ k >= Heads \/ stop
    /\ j' = j + 1
    /\ pc' = "cylinder"
    /\ UNCHANGED <<k, i, attempt, stop, files, at, raw, settings,
                   statuses, processed>>

-----------------------------------------------------------------------------
(* One pass over the track.                                                *)

\* all_sectors_accounted_for
AllReadOk == \A s \in Sector : statuses[s] = "READ_OK"
AccountedFor == AllReadOk \/ (~Emulation /\ Expected(j, k) \subseteq processed)

\* Seeded fault: one attempt too many.
MoreAttemptsOffByOne == attempt <= Attempts /\ ~AccountedFor /\ ~stop

MoreAttempts == attempt < Attempts /\ ~AccountedFor /\ ~stop

ReadTrackSg(address, data) ==
    raw' = PassOutcome(raw, [s \in Sector |-> <<at, k, s>>], address, data)

\* Reads the drive.  The datapath reset that a pass may recommend to the next one
\* empties the stream between the two and leaves no trace in the state kept here.
ReadTrack ==
    /\ pc = "attempt"
    /\ MoreAttempts
    /\ ~FromFile
    /\ \E address, data \in [Sector -> AreaResult] : ReadTrackSg(address, data)
    /\ i' = 0
    /\ pc' = "process"
    /\ UNCHANGED <<j, k, attempt, stop, files, at, settings, statuses, processed>>

\* Reads the slots of an emulation file instead: no descriptors, so an area is
\* either found or not.
ReadTrackFromFile ==
    /\ pc = "attempt"
    /\ MoreAttempts
    /\ FromFile
    /\ \E address, data \in [Sector -> Delivered \cup {"absent"}] : ReadTrackSg(address, data)
    /\ i' = 0
    /\ pc' = "process"
    /\ UNCHANGED <<j, k, attempt, stop, files, at, settings, statuses, processed>>

-----------------------------------------------------------------------------
(* Processing the sectors of a pass.                                       *)

OnTrack(p, c, h) == p[1] = c /\ p[2] = h

\* Seeded fault: the data area's CRC is not checked.
DecodeSkipsDataCrc(s) ==
    LET header == raw[s].addr IN
    CASE header = Garbage -> "badAddressCrc"
      [] header \in Marked -> "marked"
      [] header \in Position \ Marked -> IF ChecksPosition /\ ~OnTrack(header, j, k)
                                          THEN "wrongTrack" ELSE "decoded"

\* process_sector on raw buffer s.  A flagged header is accepted before its
\* position and its data are looked at.
DecodeStatus(s) ==
    LET header == raw[s].addr IN
    CASE header = Garbage -> "badAddressCrc"
      [] header \in Marked -> "marked"
      [] header \in Position \ Marked /\ ChecksPosition /\ ~OnTrack(header, j, k) -> "wrongTrack"
      [] header \in Position \ Marked /\ (ChecksPosition => OnTrack(header, j, k))
            -> IF raw[s].data = Garbage THEN "badDataCrc" ELSE "decoded"

\* Seeded fault: a bad data area is not counted as an error.
DecodedOkLenient(s) == DecodeStatus(s) \in {"marked", "decoded", "badDataCrc"}

DecodedOk(s) == DecodeStatus(s) \in {"marked", "decoded"}

\* Neither marked bad nor marked spare.
HoldsBlock(s) == DecodeStatus(s) = "decoded" /\ ~residue[s]

\* Seeded fault: a sector is saved on every pass.
SaveAlways(s) == TRUE

\* Determine if the data should be saved from this pass.
Save(s) == \/ statuses[s] # "READ_OK" /\ DecodedOk(s)
           \/ statuses[s] = "UNREAD"

\* The image takes the first copy of each LBA of the track.
WriteImage(s) ==
    LET lba == Lba[raw[s].addr] IN
    IF HoldsBlock(s) /\ lba \notin processed
    THEN /\ processed' = processed \cup {lba}
         /\ image' = [image EXCEPT ![lba] = raw[s].data]
         /\ stale' = IF raw[s].data_read_ok THEN stale \ {lba} ELSE stale \cup {lba}
    ELSE UNCHANGED <<processed, image, stale>>

\* Seeded fault: a slot is filled by the first attempt only.
WriteSlotOnce(s) ==
    slots' = IF Emulation /\ slots[<<j, k, s>>] = Missing
             THEN [slots EXCEPT ![<<j, k, s>>] =
                      [addr |-> raw[s].addr,
                       data |-> IF raw[s].data_read_ok THEN raw[s].data ELSE Missing]]
             ELSE slots

WriteSlot(s) ==
    slots' = IF Emulation
             THEN [slots EXCEPT ![<<j, k, s>>] =
                      [addr |-> raw[s].addr,
                       data |-> IF raw[s].data_read_ok THEN raw[s].data ELSE Missing]]
             ELSE slots

ProcessSector ==
    /\ pc = "process"
    /\ i < Sectors
    /\ IF AddressReadOk(i) /\ Save(i)
       THEN /\ statuses' = [statuses EXCEPT ![i] =
                               IF DecodedOk(i) THEN "READ_OK" ELSE "READ_WITH_ERRORS"]
            /\ WriteImage(i)
            /\ WriteSlot(i)
       ELSE UNCHANGED <<statuses, processed, image, stale, slots>>
    /\ i' = i + 1
    /\ UNCHANGED <<pc, j, k, attempt, stop, at, raw, settings,
                   reported, closed>>

\* Seeded fault: a pass that extracted nothing does not use up an attempt.
EndPassForgives ==
    /\ pc = "process"
    /\ i = Sectors
    /\ attempt' = IF processed = {} THEN attempt ELSE attempt + 1
    /\ pc' = "attempt"
    /\ UNCHANGED <<j, k, i, stop, files, at, raw, settings, statuses, processed>>

EndPass ==
    /\ pc = "process"
    /\ i = Sectors
    /\ attempt' = attempt + 1
    /\ pc' = "attempt"
    /\ UNCHANGED <<j, k, i, stop, files, at, raw, settings,
                   statuses, processed>>

\* Seeded fault: a single missing LBA goes unreported.
ReportToleratesOne == Cardinality(processed) + 1 < Cardinality(Expected(j, k)) /\ ~stop

\* Report what could not be read in the allotted attempts.
ReportIsDue == Cardinality(processed) < Cardinality(Expected(j, k)) /\ ~stop

CloseTrack ==
    /\ pc = "attempt"
    /\ ~MoreAttempts
    /\ reported' = IF ReportIsDue THEN reported \cup (Expected(j, k) \ processed) ELSE reported
    /\ closed' = IF stop THEN closed ELSE closed \cup {<<j, k>>}
    /\ k' = k + 1
    /\ pc' = "head"
    /\ UNCHANGED <<j, i, attempt, stop, image, slots, stale, at,
                   raw, settings, statuses, processed>>

\* SIGINT: the loops notice the flag when they next test their conditions.
Interrupt ==
    /\ pc # "done"
    /\ ~stop
    /\ stop' = TRUE
    /\ UNCHANGED <<pc, j, k, i, attempt, files, at, raw, settings,
                   statuses, processed>>

MainLoop == SeekCylinder \/ Finish \/ BeginTrack \/ EndCylinder \/ ReadTrack
            \/ ReadTrackFromFile \/ ProcessSector \/ EndPass \/ CloseTrack

Next == MainLoop \/ Interrupt

Spec == Init /\ [][Next]_vars
FairSpec == Spec /\ WF_vars(MainLoop)

-----------------------------------------------------------------------------
(* What the image and the report promise.                                  *)

\* Whatever was written from data read in the same pass as its header is the
\* block that the header names: no pairing of one sector's header with another
\* sector's data, across attempts, tracks, mis-seeks and reused buffers.
ImageFaithful ==
    \A l \in LBA : image[l] # Missing /\ l \notin stale
                  => image[l] \in Position /\ Lba[image[l]] = l

\* "Report what we could not read in the alloted attempts" (main.c:712): a track
\* that is left without an interrupt has every expected LBA in the image or in
\* the report, although the report is triggered by comparing two counts.
NoSilentLoss ==
    \A t \in closed : \A l \in Expected(t[1], t[2]) : image[l] # Missing \/ l \in reported

\* A sector that counts as READ_OK is not retried, so its block must have reached
\* the image: a status never claims more than the image holds, provided the heads
\* are on the track and a mark that the decoder never assigns does not read as set.
OkMeansExtracted ==
    pc \in {"attempt", "process"} /\ at = j =>
        \A s \in Sector : statuses[s] = "READ_OK" /\ <<j, k, s>> \notin Marked /\ ~residue[s]
                         => Lba[<<j, k, s>>] \in processed

\* The emulation file's slot of a sector that counts as READ_OK holds that very
\* sector, address and data, even if an earlier attempt filled the slot with
\* something worse; exempt are flagged headers (their data is not looked at) and
\* slots whose pass found no data area.
SlotFaithful ==
    pc \in {"attempt", "process"} /\ Emulation /\ ChecksPosition =>
        \A s \in Sector :
            LET slot == slots[<<j, k, s>>] IN
            statuses[s] = "READ_OK" =>
                \/ slot = [addr |-> <<j, k, s>>, data |-> <<j, k, s>>]
                \/ slot.addr \in Marked
                \/ slot.data = Missing

\* Later attempts on a track never take back a good copy: the status stays, the
\* emulation slot stays, and the image keeps the first copy of each LBA.
KeepsGoodCopies ==
    pc \in {"attempt", "process"} =>
        /\ \A s \in Sector : statuses[s] = "READ_OK" =>
              statuses'[s] = "READ_OK" /\ slots'[<<j, k, s>>] = slots[<<j, k, s>>]
        /\ \A l \in processed : image'[l] = image[l]
GoodCopyKept == [][KeepsGoodCopies]_vars

\* However the drive behaves, the run ends: attempts are bounded.
Terminates == <>(pc = "done")

\* main.c:619 "Move on if there was a problem reading this sector": every block in
\* the image was read together with the header that placed it.
ImageMatchesHeader ==
    \A l \in LBA : image[l] \in Position => Lba[image[l]] = l
=============================================================================
