\* Two openings of the gate, any number of bits in each, a consumer that may be slow.
SPECIFICATION FairSpec
CONSTANTS
    None = None
    ByteBits = 3
    MaxBytes = 2
    MinGap = 2
    Openings = 2
    MaxBits = 7
INVARIANTS
    TypeOK
    StreamIsWhatPassed
PROPERTY EveryPacketEnds
