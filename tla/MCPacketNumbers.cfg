SPECIFICATION BooksSpec
CONSTANTS
    KeyUpdatePackets = 4
    MinPacketsBetweenUpdates = 3
    CounterWidth = 4
    ReorderWindow = 1
    MaxPN = 5
    MaxReserved = 2
    MaxLosses = 1
    MaxRepeats = 1
    MaxNumber = 5
    Width = 6
    Sizes = {1, 2}
    RTTs = {1, 2}
    maxDeclaredLostTracked = 2
    MaxSent = 3
    MaxTime = 5
INVARIANTS
    ReplayFilterExact
    KeyChosenRight
    NotStranded
    RangesNormal
    AcksExact
    OwedAckWakesLoop
    BooksBalance
    TimerSound
    OneVerdict
CHECK_DEADLOCK FALSE
