SPECIFICATION FairSpec
CONSTANTS
    InitialFlowWindow = 2
    BufferLimit = 2
    MaxPayload = 2
    MaxWrites = 3
    MaxFaults = 1
INVARIANTS
    TypeOK
    WithinCredit
    CreditOnItsWay
PROPERTIES
    StreamEnds
CHECK_DEADLOCK FALSE
