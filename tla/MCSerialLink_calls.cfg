\* Three calls, retries, one wrong bit, a drive that may be slow or stop at any bit.
SPECIFICATION Spec
CONSTANTS
    WordLength = 1
    DataSetup = 1
    AckToNreq = 1
    BitTimeout = 4
    MaxCalls = 3
    Retries = 2
    MaxFlips = 1
INVARIANTS
    TypeOK
    DriveGetsWords
    AnswerIsOwn
