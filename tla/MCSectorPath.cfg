\* The five formats on a drive of seven heads, for which the PS/2's rule was written.
SPECIFICATION Spec
CONSTANTS
    ByteBits = 8
    SectorSize = 2
    Cylinders = 1792
    Heads = 7
    Sectors = 6
    Controllers <- AllControllers
    Positions <- SomePositions
    Probes <- OneProbe
    Leads = {0, 13, 24}
    Lateness = 9
    Bursts <- SomeBursts
    SlotBytes = 72
CHECK_DEADLOCK FALSE
INVARIANTS
    TypeOK
    WrittenIsOwn
    ExpectedOnce
    SlotRoundTrip
    CrcIsDivision
    OneBytePast
