--------------------------- MODULE ImagerProofs ---------------------------
(***************************************************************************)
(* What the imaging loop guarantees for every geometry, every number of    *)
(* attempts, every kind of controller and every behaviour of the drive.    *)
(***************************************************************************)
EXTENDS Imager, FiniteSetTheorems, TLAPS

\* A position on the track under the heads is a position of the disk.
LEMMA PositionIntro ==
    ASSUME NEW c \in Cylinder, NEW h \in Head, NEW s \in Sector
    PROVE  <<c, h, s>> \in Position
BY DEF Position

LEMMA ExpectedIsLBA ==
    ASSUME NEW c \in Cylinder, NEW h \in Head
    PROVE  Expected(c, h) \subseteq LBA
BY PositionIntro DEF Expected, Track, LBA

\* What one pass leaves in the raw buffers: contents of the right kind, and data
\* that was read belongs to the header that was read, or is garbage.
PassOK(r) ==
    /\ r \in [Sector -> RawSector]
    /\ \A s \in Sector : r[s].data_read_ok =>
          /\ r[s].data \in Position \cup {Garbage}
          /\ r[s].addr \in Position /\ r[s].data \in Position => r[s].data = r[s].addr

LEMMA PassReads ==
    ASSUME raw \in [Sector -> RawSector], at \in Cylinder, k \in Head,
           NEW address \in [Sector -> AreaResult], NEW data \in [Sector -> AreaResult],
           ReadTrackSg(address, data)
    PROVE  PassOK(raw')
<1> DEFINE here == [s \in Sector |-> <<at, k, s>>]
           addressOk(s) == address[s] \in Delivered
           breaks(s) == \/ address[s] = "incomplete"
                        \/ addressOk(s) /\ data[s] = "incomplete"
           reached(s) == \A r \in 0 .. s - 1 : ~breaks(r)
           found(s) == reached(s) /\ addressOk(s)
           new(s) == [addr |-> IF found(s) THEN Copied(address[s], here[s], Missing)
                                           ELSE Missing,
                      data |-> IF found(s) THEN Copied(data[s], here[s], raw[s].data)
                                           ELSE raw[s].data,
                      data_read_ok |-> found(s) /\ data[s] \in Delivered]
<1>1. raw' = [s \in Sector |-> new(s)]
  BY DEF ReadTrackSg, PassOutcome
<1> HIDE DEF found, here
<1>2. ASSUME NEW s \in Sector
      PROVE  /\ new(s) \in RawSector
             /\ new(s).data_read_ok =>
                   /\ new(s).data \in Position \cup {Garbage}
                   /\ new(s).addr \in Position /\ new(s).data \in Position
                         => new(s).data = new(s).addr
  <2>1. here[s] \in Position
    BY PositionIntro DEF here
  <2>2. raw[s].data \in RawContent
    BY DEF RawSector
  <2>3. found(s) => address[s] \in Delivered
    BY DEF found
  <2>4. found(s) \in BOOLEAN
    BY DEF found
  <2>5. Copied(address[s], here[s], Missing) \in Position \cup {Garbage, Missing}
    BY <2>1 DEF Copied
  <2>6. Copied(data[s], here[s], raw[s].data) \in RawContent
    BY <2>1, <2>2 DEF Copied, RawContent
  <2>7. new(s) \in RawSector
    BY <2>2, <2>4, <2>5, <2>6 DEF RawSector
  <2>8. ASSUME new(s).data_read_ok
        PROVE  /\ new(s).data \in {here[s], Garbage}
               /\ new(s).addr \in {here[s], Garbage}
    BY <2>3, <2>8 DEF Delivered, Copied
  <2> QED BY <2>1, <2>7, <2>8, ModeAssumption
<1> QED BY <1>1, <1>2 DEF PassOK

\* Both ways of reading a track leave such buffers.
LEMMA ReadingPasses ==
    ASSUME TypeOK, ReadTrack \/ ReadTrackFromFile
    PROVE  PassOK(raw')
<1>1. at \in Cylinder /\ k \in Head /\ raw \in [Sector -> RawSector]
  BY DEF TypeOK, ReadTrack, ReadTrackFromFile
<1>2. PICK address \in [Sector -> AreaResult], data \in [Sector -> AreaResult] :
         ReadTrackSg(address, data)
  <2>1. CASE ReadTrack
    BY <2>1 DEF ReadTrack
  <2>2. CASE ReadTrackFromFile
    <3>1. [Sector -> Delivered \cup {"absent"}] \subseteq [Sector -> AreaResult]
      BY DEF Delivered, AreaResult
    <3> QED BY <2>2, <3>1 DEF ReadTrackFromFile
  <2> QED BY <2>1, <2>2
<1> QED BY <1>1, <1>2, PassReads

\* The statuses and the two files keep their types when a sector is saved.
LEMMA SaveTypes ==
    ASSUME TypeOK, ProcessSector
    PROVE  /\ statuses' \in [Sector -> {"UNREAD", "READ_OK", "READ_WITH_ERRORS"}]
           /\ processed' \subseteq LBA
           /\ image' \in [LBA -> RawContent \cup {Missing}]
           /\ stale' \subseteq LBA
           /\ slots' \in [Position -> Slot \cup {Missing}]
<1>1. CASE ~(AddressReadOk(i) /\ Save(i))
  BY <1>1 DEF ProcessSector, TypeOK
<1>2. CASE AddressReadOk(i) /\ Save(i)
  <2>1. i \in Sector /\ j \in Cylinder /\ k \in Head
    BY GeometryAssumption DEF ProcessSector, TypeOK, Sector
  <2>2. raw[i] \in RawSector /\ raw[i].addr \in Position \cup {Garbage}
    BY <1>2, <2>1 DEF TypeOK, RawSector, AddressReadOk
  <2>3. statuses' = [statuses EXCEPT ![i] =
                        IF DecodedOk(i) THEN "READ_OK" ELSE "READ_WITH_ERRORS"]
        /\ WriteImage(i) /\ WriteSlot(i)
    BY <1>2 DEF ProcessSector
  <2>4. ASSUME HoldsBlock(i)
        PROVE  Lba[raw[i].addr] \in LBA
    <3>1. raw[i].addr \in Position
      BY <2>2, <2>4 DEF HoldsBlock, DecodeStatus
    <3> QED BY <3>1 DEF LBA
  <2>5. statuses' \in [Sector -> {"UNREAD", "READ_OK", "READ_WITH_ERRORS"}]
    BY <2>3 DEF TypeOK
  <2>6. raw[i].data \in RawContent
    BY <2>2 DEF RawSector
  <2>7. /\ processed' \subseteq LBA
        /\ image' \in [LBA -> RawContent \cup {Missing}]
        /\ stale' \subseteq LBA
    BY <2>3, <2>4, <2>6 DEF WriteImage, TypeOK
  <2>8. slots' \in [Position -> Slot \cup {Missing}]
    BY <2>2, <2>3, <2>6 DEF WriteSlot, TypeOK, Slot
  <2> QED BY <2>5, <2>7, <2>8
<1> QED BY <1>1, <1>2

\* Every variable keeps its type, and the loop counters stay inside the geometry
\* wherever the loops use them as indices.
LEMMA TypeStep == TypeOK /\ [Next]_vars => TypeOK'
<1> SUFFICES ASSUME TypeOK, [Next]_vars PROVE TypeOK'
  OBVIOUS
<1> USE GeometryAssumption
<1>1. CASE SeekCylinder
  <2>1. j \in Cylinder /\ at' \in Cylinder
    BY <1>1 DEF SeekCylinder, TypeOK, Cylinder
  <2> QED BY <1>1, <2>1 DEF SeekCylinder, TypeOK, files, settings, Attempts, FromFile
<1>2. CASE Finish
  BY <1>2 DEF Finish, TypeOK, files, settings, Attempts, FromFile
<1>3. CASE BeginTrack
  BY <1>3 DEF BeginTrack, TypeOK, files, Head, settings, Attempts, FromFile
<1>4. CASE EndCylinder
  BY <1>4 DEF EndCylinder, TypeOK, files, settings, Attempts, FromFile
<1>5. CASE ReadTrack \/ ReadTrackFromFile
  <2>1. raw' \in [Sector -> RawSector]
    <3>1. PassOK(raw')
      BY <1>5, ReadingPasses
    <3> QED BY <3>1 DEF PassOK
  <2>2. /\ pc = "attempt" /\ pc' = "process" /\ i' = 0 /\ attempt < Attempts
        /\ UNCHANGED <<j, k, attempt, stop, files, at, settings, statuses, processed>>
    BY <1>5 DEF ReadTrack, ReadTrackFromFile, MoreAttempts
  <2> QED BY <2>1, <2>2 DEF TypeOK, files, settings, Attempts, FromFile
<1>6. CASE ProcessSector
  <2>1. i' \in 0 .. Sectors
    BY <1>6 DEF ProcessSector, TypeOK
  <2>2. UNCHANGED <<pc, j, k, attempt, stop, at, raw, settings, reported, closed>>
    BY <1>6 DEF ProcessSector
  <2>3. /\ statuses' \in [Sector -> {"UNREAD", "READ_OK", "READ_WITH_ERRORS"}]
        /\ processed' \subseteq LBA
        /\ image' \in [LBA -> RawContent \cup {Missing}]
        /\ stale' \subseteq LBA
        /\ slots' \in [Position -> Slot \cup {Missing}]
    BY <1>6, SaveTypes
  <2> QED BY <2>1, <2>2, <2>3 DEF TypeOK, settings, Attempts, FromFile
<1>7. CASE EndPass
  BY <1>7 DEF EndPass, TypeOK, files, settings, Attempts, FromFile
<1>8. CASE CloseTrack
  <2>1. j \in Cylinder /\ k \in Head /\ Expected(j, k) \subseteq LBA
    BY <1>8, ExpectedIsLBA DEF CloseTrack, TypeOK
  <2>2. reported' \subseteq LBA /\ closed' \subseteq Cylinder \X Head
    BY <1>8, <2>1 DEF CloseTrack, TypeOK
  <2>3. k' \in 0 .. Heads
    BY <1>8, <2>1 DEF CloseTrack, Head
  <2> QED BY <1>8, <2>1, <2>2, <2>3 DEF CloseTrack, TypeOK, settings, Attempts, FromFile
<1>9. CASE Interrupt
  BY <1>9 DEF Interrupt, TypeOK, files, settings, Attempts, FromFile
<1>10. CASE UNCHANGED vars
  BY <1>10 DEF vars, control, files, settings, TypeOK, Attempts, FromFile
<1> QED BY <1>1, <1>2, <1>3, <1>4, <1>5, <1>6, <1>7, <1>8, <1>9, <1>10 DEF Next, MainLoop

LEMMA TypeInit == Init => TypeOK
<1> SUFFICES ASSUME Init PROVE TypeOK
  OBVIOUS
<1> USE GeometryAssumption
<1>1. raw \in [Sector -> RawSector]
  BY DEF Init, RawSector, RawContent
<1>2. residue \in [Sector -> BOOLEAN] /\ mode \in Modes
  BY ModeAssumption DEF Init
<1>3. /\ statuses \in [Sector -> {"UNREAD", "READ_OK", "READ_WITH_ERRORS"}]
      /\ image \in [LBA -> RawContent \cup {Missing}]
      /\ slots \in [Position -> Slot \cup {Missing}]
      /\ processed = {} /\ reported = {} /\ stale = {} /\ closed = {}
  BY DEF Init
<1>4. /\ pc = "cylinder" /\ j = StartingCylinder /\ k = 0 /\ i = 0 /\ attempt = 0
      /\ at = Missing /\ stop = FALSE
  BY DEF Init
<1>5. j \in Nat /\ k \in 0 .. Heads /\ i \in 0 .. Sectors /\ attempt \in 0 .. Attempts
  BY <1>4 DEF Attempts
<1> QED BY <1>1, <1>2, <1>3, <1>4, <1>5 DEF TypeOK

\* Type correctness of the imaging loop.
THEOREM TypeCorrect == Spec => []TypeOK
BY TypeInit, TypeStep, PTL DEF Spec

-----------------------------------------------------------------------------
(* The image is faithful.                                                  *)

\* Strengthening: the buffers never pair fresh data with another sector's header.
FaithfulInv == TypeOK /\ PassOK(raw) /\ ImageFaithful

LEMMA FaithfulStep == FaithfulInv /\ [Next]_vars => FaithfulInv'
<1> SUFFICES ASSUME FaithfulInv, [Next]_vars PROVE FaithfulInv'
  OBVIOUS
<1> USE DEF FaithfulInv
<1>1. TypeOK'
  BY TypeStep
<1>2. PassOK(raw')
  <2>1. CASE ReadTrack \/ ReadTrackFromFile
    BY <2>1, ReadingPasses
  <2>2. CASE raw' = raw
    BY <2>2
  <2>3. ReadTrack \/ ReadTrackFromFile \/ raw' = raw
    BY DEF Next, MainLoop, SeekCylinder, Finish, BeginTrack, EndCylinder, ProcessSector,
           EndPass, CloseTrack, Interrupt, vars
  <2> QED BY <2>1, <2>2, <2>3
<1>3. ImageFaithful'
  <2>1. CASE UNCHANGED <<image, stale>>
    BY <2>1 DEF ImageFaithful
  <2>2. CASE ProcessSector /\ ~UNCHANGED <<image, stale>>
    <3>1. i \in Sector
      BY <2>2, GeometryAssumption DEF ProcessSector, TypeOK, Sector
    <3>2. AddressReadOk(i) /\ HoldsBlock(i) /\ WriteImage(i)
      BY <2>2 DEF ProcessSector, WriteImage
    <3>3. raw[i] \in RawSector
      BY <3>1 DEF TypeOK
    <3>4. raw[i].addr \in Position /\ raw[i].data # Garbage
      BY <3>2, <3>3, ModeAssumption DEF HoldsBlock, DecodeStatus, AddressReadOk, RawSector
    <3> DEFINE lba == Lba[raw[i].addr]
    <3>5. /\ image' = [image EXCEPT ![lba] = raw[i].data]
          /\ stale' = IF raw[i].data_read_ok THEN stale \ {lba} ELSE stale \cup {lba}
      BY <2>2, <3>2 DEF WriteImage
    <3>6. raw[i].data_read_ok => raw[i].data = raw[i].addr
      BY <3>1, <3>4 DEF PassOK
    <3> SUFFICES ASSUME NEW l \in LBA, image'[l] # Missing, l \notin stale'
                 PROVE  image'[l] \in Position /\ Lba[image'[l]] = l
      BY DEF ImageFaithful
    <3>7. CASE l = lba
      <4>1. raw[i].data_read_ok
        BY <3>5, <3>7
      <4>2. image'[l] = raw[i].data
        BY <3>5, <3>7 DEF TypeOK
      <4> QED BY <3>4, <3>6, <3>7, <4>1, <4>2
    <3>8. CASE l # lba
      <4>1. image'[l] = image[l] /\ l \notin stale
        BY <3>5, <3>8 DEF TypeOK
      <4> QED BY <4>1 DEF ImageFaithful
    <3> QED BY <3>7, <3>8
  <2>3. ProcessSector \/ UNCHANGED <<image, stale>>
    BY DEF Next, MainLoop, SeekCylinder, Finish, BeginTrack, EndCylinder, ReadTrack,
           ReadTrackFromFile, EndPass, CloseTrack, Interrupt, vars, files
  <2> QED BY <2>1, <2>2, <2>3
<1> QED BY <1>1, <1>2, <1>3

\* Every block in the image that was read together with its header is the block
\* the header names: for every drive, controller, geometry and retry pattern.
THEOREM ImageIsFaithful == Spec => []ImageFaithful
<1>1. Init => FaithfulInv
  <2> SUFFICES ASSUME Init PROVE FaithfulInv
    OBVIOUS
  <2>1. TypeOK
    BY TypeInit
  <2>2. \A s \in Sector : ~raw[s].data_read_ok
    BY DEF Init
  <2>3. ImageFaithful
    BY DEF Init, ImageFaithful
  <2> QED BY <2>1, <2>2, <2>3 DEF FaithfulInv, PassOK, TypeOK
<1> QED BY <1>1, FaithfulStep, PTL DEF Spec, FaithfulInv

-----------------------------------------------------------------------------
(* No expected LBA is lost without a report.                               *)

\* The headers that are decoded come from the track the loop believes it is on:
\* the decoder checks them, or the drive never mis-seeks, or there is no drive.
PositionKnown == ChecksPosition \/ ~MayMisSeek \/ Modes = {"file"}

\* On a track that holds user blocks, a sector that is not expected is flagged.
UnexpectedAreMarked ==
    \A c \in Cylinder, h \in Head :
        Expected(c, h) = {} \/ Track(c, h) \cap Unexpected \subseteq Marked

\* Strengthening: the heads are where the loop believes (unless they may not be),
\* the buffers hold headers of the track under the heads, and every processed LBA
\* is an expected one that the image holds.
AtTrack ==
    ~MayMisSeek \/ FromFile => (pc \in {"head", "attempt", "process"} => at = j)
HeadersOfTrack ==
    pc = "process" => \A s \in Sector : raw[s].addr \in {<<at, k, s>>, Garbage, Missing}
ProcessedAreExpected ==
    /\ pc \in {"attempt", "process"} =>
          processed \subseteq Expected(j, k) \/ Expected(j, k) = {}
    /\ pc \in {"attempt", "process"} => \A l \in processed : image[l] # Missing
LossInv == TypeOK /\ AtTrack /\ HeadersOfTrack /\ ProcessedAreExpected /\ NoSilentLoss

LEMMA ExpectedIsFinite ==
    ASSUME NEW c \in Cylinder, NEW h \in Head
    PROVE  IsFiniteSet(Expected(c, h))
<1> DEFINE f == [s \in Sector |-> Lba[<<c, h, s>>]]
           T == {f[s] : s \in Sector}
<1>1. IsFiniteSet(Sector)
  BY GeometryAssumption, FS_Interval DEF Sector
<1>2. f \in Surjection(Sector, T)
  BY DEF Surjection
<1>3. IsFiniteSet(T)
  BY <1>1, <1>2, FS_Surjection
<1>4. Expected(c, h) \in SUBSET T
  BY DEF Expected, Track
<1> QED BY <1>3, <1>4, FS_Subset

\* A pass reads headers of the track under the heads.
LEMMA PassHeaders ==
    ASSUME TypeOK, ReadTrack \/ ReadTrackFromFile
    PROVE  \A s \in Sector : raw'[s].addr \in {<<at, k, s>>, Garbage, Missing}
<1>1. PICK address, data : ReadTrackSg(address, data)
  BY DEF ReadTrack, ReadTrackFromFile
<1> QED BY <1>1 DEF ReadTrackSg, PassOutcome, Copied

\* A sector that is written to the image holds a block expected on this track.
LEMMA WrittenIsExpected ==
    ASSUME PositionKnown, UnexpectedAreMarked, LossInv, ProcessSector,
           AddressReadOk(i), HoldsBlock(i)
    PROVE  Lba[raw[i].addr] \in Expected(j, k) \/ Expected(j, k) = {}
<1>1. i \in Sector /\ j \in Cylinder /\ k \in Head /\ pc = "process" /\ at \in Cylinder
  BY GeometryAssumption DEF ProcessSector, LossInv, TypeOK, Sector
<1>2. raw[i].addr = <<at, k, i>> /\ <<at, k, i>> \in Position
  <2>1. raw[i].addr # Garbage /\ raw[i].addr # Missing
    BY LayoutAssumption, ModeAssumption DEF HoldsBlock, DecodeStatus, AddressReadOk
  <2> QED BY <1>1, <2>1, PositionIntro DEF LossInv, HeadersOfTrack
<1>3. at = j /\ raw[i].addr \notin Marked
  <2>1. raw[i].addr \notin Marked /\ (ChecksPosition => OnTrack(raw[i].addr, j, k))
    <3>1. raw[i].addr \in Position /\ raw[i].addr # Garbage
      BY <1>2, ModeAssumption
    <3> QED BY <3>1 DEF HoldsBlock, DecodeStatus
  <2>2. ASSUME ChecksPosition PROVE at = j
    BY <1>2, <2>1, <2>2 DEF OnTrack
  <2>3. ASSUME ~MayMisSeek \/ FromFile PROVE at = j
    BY <1>1, <2>3 DEF LossInv, AtTrack
  <2>4. ChecksPosition \/ ~MayMisSeek \/ FromFile
    BY DEF PositionKnown, LossInv, TypeOK, FromFile
  <2> QED BY <2>1, <2>2, <2>3, <2>4
<1>4. <<j, k, i>> \in Track(j, k)
  BY <1>1 DEF Track
<1>5. Expected(j, k) = {} \/ <<j, k, i>> \notin Unexpected
  BY <1>1, <1>2, <1>3, <1>4 DEF UnexpectedAreMarked
<1> QED BY <1>2, <1>3, <1>4, <1>5 DEF Expected

\* A track whose report is not due has all its expected LBAs in the image: the
\* two counts stand for the two sets because one set includes the other.
LEMMA CountsSuffice ==
    ASSUME LossInv, CloseTrack, ~stop
    PROVE  \A l \in Expected(j, k) : image[l] # Missing \/ l \in reported'
<1>1. j \in Cylinder /\ k \in Head /\ pc = "attempt"
  BY DEF CloseTrack, LossInv, TypeOK
<1> DEFINE E == Expected(j, k)
<1>2. IsFiniteSet(E)
  BY <1>1, ExpectedIsFinite
<1> HIDE DEF E
<1>3. CASE Cardinality(processed) < Cardinality(E)
  <2>1. reported' = reported \cup (E \ processed)
    BY <1>3 DEF CloseTrack, ReportIsDue, E
  <2> QED BY <1>1, <2>1 DEF LossInv, ProcessedAreExpected, E
<1>4. CASE ~(Cardinality(processed) < Cardinality(E))
  <2>1. CASE E = {}
    BY <2>1 DEF E
  <2>2. CASE processed \subseteq E
    <3>1. Cardinality(processed) <= Cardinality(E) /\ IsFiniteSet(processed)
          /\ (Cardinality(E) = Cardinality(processed) => E = processed)
      BY <1>2, <2>2, FS_Subset
    <3>2. Cardinality(processed) \in Nat /\ Cardinality(E) \in Nat
      BY <1>2, <3>1, FS_CardinalityType
    <3>3. E = processed
      BY <1>4, <3>1, <3>2
    <3> QED BY <1>1, <3>3 DEF LossInv, ProcessedAreExpected, E
  <2> QED BY <1>1, <2>1, <2>2 DEF LossInv, ProcessedAreExpected, E
<1> QED BY <1>3, <1>4 DEF E

LEMMA LossStep ==
    ASSUME PositionKnown, UnexpectedAreMarked, LossInv, [Next]_vars
    PROVE  LossInv'
<1> USE DEF LossInv
<1>1. TypeOK'
  BY TypeStep
<1>2. CASE SeekCylinder \/ Finish \/ EndCylinder \/ BeginTrack \/ Interrupt \/ UNCHANGED vars
  <2>1. UNCHANGED <<image, reported, closed, raw>>
    BY <1>2 DEF SeekCylinder, Finish, EndCylinder, BeginTrack, Interrupt, vars, files
  <2>2. AtTrack' /\ HeadersOfTrack'
    BY <1>2 DEF SeekCylinder, Finish, EndCylinder, BeginTrack, Interrupt, vars, control,
                settings, AtTrack, HeadersOfTrack, FromFile
  <2>3. ProcessedAreExpected'
    BY <1>2, <2>1 DEF SeekCylinder, Finish, EndCylinder, BeginTrack, Interrupt, vars, control,
                      ProcessedAreExpected, Expected, Track
  <2> QED BY <1>1, <2>1, <2>2, <2>3 DEF NoSilentLoss, Expected, Track
<1>3. CASE ReadTrack \/ ReadTrackFromFile
  <2>1. /\ UNCHANGED <<j, k, at, image, reported, closed, processed, mode>>
        /\ pc = "attempt" /\ pc' = "process"
    BY <1>3 DEF ReadTrack, ReadTrackFromFile, files, settings
  <2>2. HeadersOfTrack'
    BY <1>3, <2>1, PassHeaders DEF HeadersOfTrack
  <2> QED BY <1>1, <2>1, <2>2
          DEF AtTrack, FromFile, ProcessedAreExpected, NoSilentLoss, Expected, Track
<1>4. CASE ProcessSector
  <2>1. UNCHANGED <<pc, j, k, at, raw, reported, closed, mode>> /\ pc = "process"
    BY <1>4 DEF ProcessSector, settings
  <2>2. AtTrack' /\ HeadersOfTrack'
    BY <2>1 DEF AtTrack, FromFile, HeadersOfTrack
  <2>3. CASE UNCHANGED <<processed, image>>
    BY <1>1, <2>1, <2>2, <2>3 DEF ProcessedAreExpected, NoSilentLoss, Expected, Track
  <2>4. CASE ~UNCHANGED <<processed, image>>
    <3>1. AddressReadOk(i) /\ HoldsBlock(i) /\ WriteImage(i)
      BY <1>4, <2>4 DEF ProcessSector, WriteImage
    <3> DEFINE lba == Lba[raw[i].addr]
    <3>2. processed' = processed \cup {lba} /\ image' = [image EXCEPT ![lba] = raw[i].data]
      BY <2>4, <3>1 DEF WriteImage
    <3>3. lba \in Expected(j, k) \/ Expected(j, k) = {}
      BY <1>4, <3>1, WrittenIsExpected
    <3>4. lba \in LBA /\ raw[i].data # Missing
      <4>1. i \in Sector
        BY <1>4, GeometryAssumption DEF ProcessSector, TypeOK, Sector
      <4>2. raw[i] \in RawSector /\ raw[i].addr \in Position
        BY <3>1, <4>1, ModeAssumption
        DEF TypeOK, RawSector, HoldsBlock, DecodeStatus, AddressReadOk
      <4> QED BY <4>2, ModeAssumption DEF RawSector, RawContent, LBA
    <3> HIDE DEF lba
    <3>5. \A l \in LBA : image[l] # Missing \/ l = lba => image'[l] # Missing
      BY <3>2, <3>4 DEF TypeOK
    <3>6. ProcessedAreExpected'
      BY <2>1, <3>2, <3>3, <3>4, <3>5 DEF ProcessedAreExpected, TypeOK, Expected, Track
    <3>7. NoSilentLoss'
      <4> SUFFICES ASSUME NEW t \in closed, NEW l \in Expected(t[1], t[2])
                   PROVE  image'[l] # Missing \/ l \in reported
        BY <2>1 DEF NoSilentLoss, Expected, Track
      <4>1. l \in LBA
        BY ExpectedIsLBA DEF TypeOK
      <4> QED BY <3>5, <4>1 DEF NoSilentLoss
    <3> QED BY <1>1, <2>2, <3>6, <3>7
  <2> QED BY <2>3, <2>4
<1>5. CASE EndPass
  <2>1. /\ UNCHANGED <<j, k, at, image, reported, closed, processed, mode>>
        /\ pc = "process" /\ pc' = "attempt"
    BY <1>5 DEF EndPass, files, settings
  <2> QED BY <1>1, <2>1
          DEF AtTrack, FromFile, HeadersOfTrack, ProcessedAreExpected, NoSilentLoss, Expected, Track
<1>6. CASE CloseTrack
  <2>1. /\ UNCHANGED <<j, at, image, mode>>
        /\ pc = "attempt" /\ pc' = "head"
        /\ reported \subseteq reported'
        /\ closed' = IF stop THEN closed ELSE closed \cup {<<j, k>>}
    BY <1>6 DEF CloseTrack, settings
  <2>2. NoSilentLoss'
    <3> SUFFICES ASSUME NEW t \in closed', NEW l \in Expected(t[1], t[2])
                 PROVE  image[l] # Missing \/ l \in reported'
      BY <2>1 DEF NoSilentLoss, Expected, Track
    <3>1. CASE t \in closed
      BY <2>1, <3>1 DEF NoSilentLoss
    <3>2. CASE ~stop /\ t = <<j, k>>
      BY <1>6, <3>2, CountsSuffice
    <3> QED BY <2>1, <3>1, <3>2
  <2> QED BY <1>1, <2>1, <2>2 DEF AtTrack, FromFile, HeadersOfTrack, ProcessedAreExpected
<1> QED BY <1>2, <1>3, <1>4, <1>5, <1>6 DEF Next, MainLoop

\* When the position of every header is known, a track that is left without an
\* interrupt has each of its expected LBAs in the image or in the report.
THEOREM NothingIsLostSilently ==
    ASSUME PositionKnown, UnexpectedAreMarked
    PROVE  Spec => []NoSilentLoss
<1>1. Init => LossInv
  <2> SUFFICES ASSUME Init PROVE LossInv
    OBVIOUS
  <2>1. TypeOK
    BY TypeInit
  <2> QED BY <2>1 DEF Init, LossInv, AtTrack, HeadersOfTrack, ProcessedAreExpected, NoSilentLoss
<1>2. LossInv /\ [Next]_vars => LossInv'
  BY LossStep
<1>3. LossInv => NoSilentLoss
  BY DEF LossInv
<1> QED BY <1>1, <1>2, <1>3, PTL DEF Spec

-----------------------------------------------------------------------------
(* Retries keep what is good, and claim no more.                            *)

\* Saving a sector: what it leaves alone, and that it is a sector not yet read well.
LEMMA Saving ==
    ASSUME TypeOK, ProcessSector
    PROVE  /\ i \in Sector /\ j \in Cylinder /\ k \in Head /\ pc = "process"
           /\ UNCHANGED <<pc, j, k, at, raw, residue, mode>>
           /\ \A s \in Sector : s # i => /\ statuses'[s] = statuses[s]
                                        /\ slots'[<<j, k, s>>] = slots[<<j, k, s>>]
           /\ statuses'[i] # statuses[i] \/ slots'[<<j, k, i>>] # slots[<<j, k, i>>]
                 => statuses[i] # "READ_OK"
           /\ statuses'[i] = "READ_OK" /\ statuses[i] # "READ_OK"
                 => AddressReadOk(i) /\ DecodedOk(i) /\ WriteImage(i) /\ WriteSlot(i)
           /\ processed \subseteq processed'
           /\ \A l \in processed : image'[l] = image[l]
<1>1. i \in Sector /\ j \in Cylinder /\ k \in Head /\ pc = "process"
  BY GeometryAssumption DEF ProcessSector, TypeOK, Sector
<1>2. UNCHANGED <<pc, j, k, at, raw, residue, mode>>
  BY DEF ProcessSector, settings
<1>3. CASE ~(AddressReadOk(i) /\ Save(i))
  <2>1. UNCHANGED <<statuses, processed, image, slots>>
    BY <1>3 DEF ProcessSector
  <2> QED BY <1>1, <1>2, <2>1
<1>4. CASE AddressReadOk(i) /\ Save(i)
  <2>1. /\ statuses' = [statuses EXCEPT ![i] =
                           IF DecodedOk(i) THEN "READ_OK" ELSE "READ_WITH_ERRORS"]
        /\ WriteImage(i) /\ WriteSlot(i)
    BY <1>4 DEF ProcessSector
  <2>2. \A s \in Sector : s # i => statuses'[s] = statuses[s]
    BY <2>1 DEF TypeOK
  <2>3. statuses[i] # "READ_OK"
    BY <1>4 DEF Save
  <2>4. statuses'[i] = "READ_OK" => DecodedOk(i)
    BY <1>1, <2>1 DEF TypeOK
  <2>5. \A s \in Sector : s # i => slots'[<<j, k, s>>] = slots[<<j, k, s>>]
    BY <2>1 DEF WriteSlot
  <2>6. processed \subseteq processed' /\ \A l \in processed : image'[l] = image[l]
    BY <2>1 DEF WriteImage, TypeOK
  <2> QED BY <1>1, <1>2, <1>4, <2>1, <2>2, <2>3, <2>4, <2>5, <2>6
<1> QED BY <1>3, <1>4

\* The steps that are neither a save nor the beginning of something else.
LEMMA KeepsTrack ==
    ASSUME [Next]_vars, ~ProcessSector, pc' \in {"attempt", "process"}, ~BeginTrack
    PROVE  /\ pc \in {"attempt", "process"}
           /\ UNCHANGED <<j, k, at, residue, mode, statuses, processed, image, slots>>
BY DEF Next, MainLoop, SeekCylinder, Finish, EndCylinder, ReadTrack, ReadTrackFromFile, EndPass,
       CloseTrack, Interrupt, vars, control, files, settings

\* GoodCopyKept: no later attempt takes back a good copy.
THEOREM GoodCopiesAreKept == Spec => GoodCopyKept
<1>1. ASSUME TypeOK, [Next]_vars, pc \in {"attempt", "process"} PROVE KeepsGoodCopies
  <2>1. CASE ProcessSector
    BY <1>1, <2>1, Saving DEF KeepsGoodCopies
  <2>2. CASE ~ProcessSector
    <3>1. UNCHANGED <<statuses, slots, image>>
      BY <1>1, <2>2
      DEF Next, MainLoop, SeekCylinder, Finish, BeginTrack, EndCylinder, ReadTrack,
          ReadTrackFromFile, EndPass, CloseTrack, Interrupt, vars, files
    <3> QED BY <3>1 DEF KeepsGoodCopies
  <2> QED BY <2>1, <2>2
<1>2. TypeOK /\ [Next]_vars => [KeepsGoodCopies]_vars
  BY <1>1 DEF KeepsGoodCopies
<1> QED BY <1>2, TypeCorrect, PTL DEF Spec, GoodCopyKept

\* Strengthening of OkMeansExtracted and SlotFaithful: what the buffers hold during
\* the loop over the sectors.
RetryInv == TypeOK /\ PassOK(raw) /\ HeadersOfTrack /\ OkMeansExtracted /\ SlotFaithful

\* A sector that decodes was read under its own position if the heads are on the track,
\* and they are if its position is checked.
LEMMA DecodedHeader ==
    ASSUME RetryInv, ProcessSector, AddressReadOk(i), DecodedOk(i)
    PROVE  /\ raw[i].addr = <<at, k, i>> /\ raw[i].addr \in Position
           /\ raw[i].addr \in Marked
              \/ /\ DecodeStatus(i) = "decoded"
                 /\ raw[i].data # Garbage
                 /\ ChecksPosition => at = j
<1>1. i \in Sector /\ k \in Head /\ pc = "process"
  BY Saving DEF RetryInv
<1>2. raw[i].addr # Garbage /\ raw[i].addr # Missing /\ at \in Cylinder
  <2>1. raw[i].addr # Garbage
    BY LayoutAssumption, ModeAssumption DEF DecodedOk, DecodeStatus
  <2>2. raw[i].addr # Missing
    BY DEF AddressReadOk
  <2>3. at \in Cylinder
    BY <1>1 DEF RetryInv, TypeOK
  <2> QED BY <2>1, <2>2, <2>3
<1>3. raw[i].addr = <<at, k, i>> /\ raw[i].addr \in Position
  BY <1>1, <1>2, PositionIntro DEF RetryInv, HeadersOfTrack
<1>4. ASSUME raw[i].addr \notin Marked
      PROVE  /\ DecodeStatus(i) = "decoded" /\ raw[i].data # Garbage
             /\ ChecksPosition => at = j
  <2>1. ChecksPosition => OnTrack(raw[i].addr, j, k)
    BY <1>2, <1>3, <1>4 DEF DecodedOk, DecodeStatus
  <2>2. raw[i].data # Garbage
    BY <1>2, <1>3, <1>4, <2>1 DEF DecodedOk, DecodeStatus
  <2>3. DecodeStatus(i) = "decoded"
    BY <1>2, <1>3, <1>4, <2>1, <2>2 DEF DecodeStatus
  <2> QED BY <1>3, <2>1, <2>2, <2>3 DEF OnTrack
<1> QED BY <1>3, <1>4

LEMMA ExtractedStep ==
    ASSUME RetryInv, [Next]_vars
    PROVE  OkMeansExtracted'
<1> SUFFICES ASSUME pc' \in {"attempt", "process"}, at' = j', NEW s \in Sector,
                    statuses'[s] = "READ_OK", <<j', k', s>> \notin Marked, ~residue'[s]
             PROVE  Lba[<<j', k', s>>] \in processed'
  BY DEF OkMeansExtracted
<1>1. CASE ProcessSector
  <2>1. /\ pc = "process" /\ i \in Sector /\ UNCHANGED <<j, k, at, residue>>
        /\ processed \subseteq processed'
        /\ s # i => statuses'[s] = statuses[s]
    BY <1>1, Saving DEF RetryInv
  <2>2. CASE statuses[s] = "READ_OK"
    BY <2>1, <2>2 DEF RetryInv, OkMeansExtracted
  <2>3. CASE statuses[s] # "READ_OK"
    <3>1. s = i
      BY <2>1, <2>3
    <3>2. AddressReadOk(i) /\ DecodedOk(i) /\ WriteImage(i)
      BY <1>1, <2>3, <3>1, Saving DEF RetryInv
    <3>3. raw[i].addr = <<j, k, i>> /\ DecodeStatus(i) = "decoded"
      BY <1>1, <2>1, <3>1, <3>2, DecodedHeader
    <3> QED BY <2>1, <3>1, <3>2, <3>3 DEF WriteImage, HoldsBlock
  <2> QED BY <2>2, <2>3
<1>2. CASE BeginTrack
  BY <1>2 DEF BeginTrack
<1>3. CASE ~ProcessSector /\ ~BeginTrack
  BY <1>3, KeepsTrack DEF RetryInv, OkMeansExtracted
<1> QED BY <1>1, <1>2, <1>3

LEMMA SlotStep ==
    ASSUME RetryInv, [Next]_vars
    PROVE  SlotFaithful'
<1> SUFFICES ASSUME pc' \in {"attempt", "process"}, Emulation', ChecksPosition,
                    NEW s \in Sector, statuses'[s] = "READ_OK"
             PROVE  LET slot == slots'[<<j', k', s>>] IN
                    \/ slot = [addr |-> <<j', k', s>>, data |-> <<j', k', s>>]
                    \/ slot.addr \in Marked
                    \/ slot.data = Missing
  BY DEF SlotFaithful
<1>1. CASE ProcessSector
  <2>1. /\ pc = "process" /\ i \in Sector /\ UNCHANGED <<j, k, at, mode>>
        /\ j \in Cylinder /\ k \in Head
        /\ s # i => statuses'[s] = statuses[s] /\ slots'[<<j, k, s>>] = slots[<<j, k, s>>]
        /\ statuses[i] = "READ_OK" => slots'[<<j, k, i>>] = slots[<<j, k, i>>]
    BY <1>1, Saving DEF RetryInv
  <2>2. CASE statuses[s] = "READ_OK"
    <3>1. slots'[<<j, k, s>>] = slots[<<j, k, s>>]
      BY <2>1, <2>2
    <3> QED BY <2>1, <2>2, <3>1 DEF RetryInv, SlotFaithful, Emulation
  <2>3. CASE statuses[s] # "READ_OK"
    <3>1. s = i
      BY <2>1, <2>3
    <3>2. AddressReadOk(i) /\ DecodedOk(i) /\ WriteSlot(i)
      BY <1>1, <2>3, <3>1, Saving DEF RetryInv
    <3>3. slots'[<<j, k, i>>] = [addr |-> raw[i].addr,
                                 data |-> IF raw[i].data_read_ok THEN raw[i].data ELSE Missing]
      <4>1. slots \in [Position -> Slot \cup {Missing}] /\ <<j, k, i>> \in Position
        BY <2>1, PositionIntro DEF RetryInv, TypeOK
      <4> QED BY <2>1, <3>2, <4>1 DEF WriteSlot, Emulation
    <3>4. raw[i].addr \in Marked
          \/ (raw[i].addr = <<j, k, i>> /\ raw[i].addr \in Position /\ raw[i].data # Garbage)
      BY <1>1, <2>1, <3>2, DecodedHeader
    <3>5. raw[i].data_read_ok => /\ raw[i].data \in Position \cup {Garbage}
                                 /\ raw[i].addr \in Position /\ raw[i].data \in Position
                                       => raw[i].data = raw[i].addr
      BY <2>1 DEF RetryInv, PassOK
    <3> QED BY <2>1, <3>1, <3>3, <3>4, <3>5
  <2> QED BY <2>2, <2>3
<1>2. CASE BeginTrack
  BY <1>2 DEF BeginTrack
<1>3. CASE ~ProcessSector /\ ~BeginTrack
  BY <1>3, KeepsTrack DEF RetryInv, SlotFaithful, Emulation
<1> QED BY <1>1, <1>2, <1>3

LEMMA RetryStep == RetryInv /\ [Next]_vars => RetryInv'
<1> SUFFICES ASSUME RetryInv, [Next]_vars PROVE RetryInv'
  OBVIOUS
<1>1. TypeOK' /\ PassOK(raw')
  <2>1. TypeOK' BY TypeStep DEF RetryInv
  <2>2. CASE ReadTrack \/ ReadTrackFromFile
    BY <2>1, <2>2, ReadingPasses DEF RetryInv
  <2>3. CASE raw' = raw
    BY <2>1, <2>3 DEF RetryInv
  <2>4. ReadTrack \/ ReadTrackFromFile \/ raw' = raw
    BY DEF Next, MainLoop, SeekCylinder, Finish, BeginTrack, EndCylinder, ProcessSector,
           EndPass, CloseTrack, Interrupt, vars
  <2> QED BY <2>2, <2>3, <2>4
<1>2. HeadersOfTrack'
  <2>1. CASE ReadTrack \/ ReadTrackFromFile
    <3>1. UNCHANGED <<at, k>>
      BY <2>1 DEF ReadTrack, ReadTrackFromFile
    <3> QED BY <2>1, <3>1, PassHeaders DEF RetryInv, HeadersOfTrack
  <2>2. CASE ~(ReadTrack \/ ReadTrackFromFile) /\ pc' = "process"
    <3>1. pc = "process" /\ UNCHANGED <<raw, at, k>>
      BY <2>2 DEF Next, MainLoop, SeekCylinder, Finish, BeginTrack, EndCylinder, ProcessSector,
                  EndPass, CloseTrack, Interrupt, vars, control
    <3> QED BY <3>1 DEF RetryInv, HeadersOfTrack
  <2> QED BY <2>1, <2>2 DEF HeadersOfTrack
<1> QED BY <1>1, <1>2, ExtractedStep, SlotStep DEF RetryInv

LEMMA RetryCorrect == Spec => []RetryInv
<1>1. ASSUME Init PROVE RetryInv
  <2>1. TypeOK
    BY <1>1, TypeInit
  <2>2. \A s \in Sector : ~raw[s].data_read_ok
    BY <1>1 DEF Init
  <2> QED BY <1>1, <2>1, <2>2
          DEF Init, RetryInv, PassOK, TypeOK, HeadersOfTrack, OkMeansExtracted, SlotFaithful
<1>2. Init => RetryInv
  BY <1>1
<1> QED BY <1>2, RetryStep, PTL DEF Spec

\* OkMeansExtracted: main never counts a sector as read, and gives up retrying it,
\* without its block being in the image.
THEOREM OkIsExtracted == Spec => []OkMeansExtracted
<1>1. RetryInv => OkMeansExtracted
  BY DEF RetryInv
<1> QED BY <1>1, RetryCorrect, PTL

\* SlotFaithful: the emulation file holds every sector that counts as read.
THEOREM SlotsAreFaithful == Spec => []SlotFaithful
<1>1. RetryInv => SlotFaithful
  BY DEF RetryInv
<1> QED BY <1>1, RetryCorrect, PTL
=============================================================================
