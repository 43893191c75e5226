\* Finding: a controller that does not check the position (ADAPTEC_ACB2322) on a drive
\* whose seek failed.
SPECIFICATION Spec
CONSTANTS
    garbage = garbage
    blank = blank
    missing = missing
    Garbage = garbage
    Blank = blank
    Missing = missing
    Cylinders = 2
    Heads = 1
    Sectors = 2
    StartingCylinder = 0
    MaxAttempts = 2
    Lba <- MCLba
    Marked = {}
    Unexpected = {}
    ChecksPosition = FALSE
    Residues = {FALSE}
    Modes = {"image"}
    MayMisSeek = TRUE
CHECK_DEADLOCK FALSE
INVARIANT NoSilentLoss
