\* The PS/2 format on a drive of eight heads: Notes.md says that the last head's track
\* is the short one, ibm_ps2.c takes every track from head 6 on.
SPECIFICATION Spec
CONSTANTS
    ByteBits = 8
    SectorSize = 2
    Cylinders = 8
    Heads = 8
    Sectors = 6
    Controllers <- Ps2Only
    Positions <- LastHeads
    Probes = {}
    Leads = {13}
    Lateness = 0
    Bursts = {}
    SlotBytes = 72
CHECK_DEADLOCK FALSE
INVARIANT ExpectedOnce
