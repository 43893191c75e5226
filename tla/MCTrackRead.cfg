\* Passes that are given up at any moment, one after the other.
SPECIFICATION Spec
CONSTANTS
    Sectors = 2
    Garbage = Garbage
    Missing = Missing
    None = None
    FlushDescriptors = 6
    Passes = 3
CHECK_DEADLOCK FALSE
INVARIANTS
    TypeOK
    LeftoverIsLastPacket
PROPERTIES
    ImplementsPass
    Resynchronises
