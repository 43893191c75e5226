\* Finding: a data area that is not read leaves the previous track's data in its buffer.
SPECIFICATION Spec
CONSTANTS
    garbage = garbage
    blank = blank
    missing = missing
    Garbage = garbage
    Blank = blank
    Missing = missing
    Cylinders = 2
    Heads = 1
    Sectors = 2
    StartingCylinder = 0
    MaxAttempts = 2
    Lba <- MCLba
    Marked <- LastSector
    Unexpected = {}
    ChecksPosition = TRUE
    Residues = {FALSE}
    Modes = {"image"}
    MayMisSeek = FALSE
CHECK_DEADLOCK FALSE
INVARIANT ImageMatchesHeader
