\* A controller that checks the header's position on a drive that may mis-seek, with one
\* sector flagged bad, and marks it may leave unassigned: what IBM_RT_ENHANCED and
\* ULTRASTOR_12F do is among it.
SPECIFICATION Spec
CONSTANTS
    garbage = garbage
    blank = blank
    missing = missing
    Garbage = garbage
    Blank = blank
    Missing = missing
    Cylinders = 2
    Heads = 1
    Sectors = 2
    StartingCylinder = 0
    MaxAttempts = 2
    Lba <- MCLba
    Marked <- LastSector
    Unexpected = {}
    ChecksPosition = TRUE
    Residues = {FALSE, TRUE}
    Modes = {"image"}
    MayMisSeek = TRUE
CHECK_DEADLOCK FALSE
INVARIANTS
    TypeOK
    ImageFaithful
    NoSilentLoss
    OkMeansExtracted
PROPERTY GoodCopyKept
