SPECIFICATION FairSpec
CONSTANTS
    Room = 1
    MaxInput = 2
    MaxOutput = 2
    MaxWork = 3
    LossWork = 2
INVARIANTS
    TypeOK
    OutputComplete
    KilledOnRequest
PROPERTIES
    SessionReturns
    PumpReturns
CHECK_DEADLOCK FALSE
