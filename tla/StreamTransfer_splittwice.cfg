SPECIFICATION Spec
CONSTANTS
    Width = 6
    BufferLimit = 3
    OpenedHere = FALSE
    Writes <- OneClosedWrite
    ReadSizes = {}
    Rooms = {2, 3, 4}
    Cwnd = 5
    MaxBytes = 4
    MaxRoomChanges = 2
    MaxLosses = 0
    MaxReorders = 9
    MaxTrouble = 9
    MaxSpurious = 4
    MaxPN = 5
    MaxOther = 0
    MaxAcks = 1
    LongGrace = TRUE
INVARIANT
    CompletedHasArrived
CHECK_DEADLOCK FALSE
