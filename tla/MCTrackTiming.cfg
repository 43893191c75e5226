\* Hard- and soft-sectored drives on a spindle that varies; the first pass may be given
\* up anywhere, and the task FIFO is so small that the program may find it full.
SPECIFICATION FairSpec
CONSTANTS
    AddressAssert = 1
    AddressDeassert = 2
    DataAssert = 3
    DataDeassert = 4
    SoftSectors = {FALSE, TRUE}
    CounterMod = 32
    TaskSlots = 1
    Sleep = 10
    Sectors = 4
    MinLength = 7
    MaxLength = 8
    IndexGap = 1
    Passes = 2
    Timeouts = 1
INVARIANTS
    TypeOK
    PacketsInOrder
    GateInsideWindow
    SearchOrRead
    TwoTurnsSuffice
PROPERTY EveryPassCompletes
