SPECIFICATION FairSpec
CONSTANTS
    Width = 8
    BufferLimit = 3
    OpenedHere = TRUE
    Writes <- OneClosedWrite
    ReadSizes = {4}
    Rooms = {2, 4}
    Cwnd = 2
    MaxBytes = 4
    MaxRoomChanges = 1
    MaxLosses = 1
    MaxReorders = 1
    MaxTrouble = 2
    MaxSpurious = 0
    MaxPN = 26
    MaxOther = 1
    MaxAcks = 1
    LongGrace = TRUE
INVARIANTS
    InOrder
    EofIsLast
    NothingForgotten
PROPERTIES
    Implements
    FairlyImplements
    EventuallyReaped
CHECK_DEADLOCK FALSE
