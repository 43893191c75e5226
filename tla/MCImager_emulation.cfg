\* The same drive and controller while an emulation file is written, and the decoding of
\* such a file.
SPECIFICATION FairSpec
CONSTANTS
    garbage = garbage
    blank = blank
    missing = missing
    Garbage = garbage
    Blank = blank
    Missing = missing
    Cylinders = 2
    Heads = 1
    Sectors = 2
    StartingCylinder = 1
    MaxAttempts = 2
    Lba <- MCLba
    Marked <- LastSector
    Unexpected = {}
    ChecksPosition = TRUE
    Residues = {FALSE}
    Modes = {"emulate", "file"}
    MayMisSeek = TRUE
CHECK_DEADLOCK FALSE
INVARIANT SlotFaithful
PROPERTIES
    GoodCopyKept
    Terminates
