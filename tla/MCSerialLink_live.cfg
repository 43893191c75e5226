\* The same link with two calls, for liveness.
SPECIFICATION FairSpec
CONSTANTS
    WordLength = 1
    DataSetup = 1
    AckToNreq = 1
    BitTimeout = 4
    MaxCalls = 2
    Retries = 2
    MaxFlips = 1
PROPERTY EveryCallReturns
