SPECIFICATION FairSpec
CONSTANTS
    MsgDepth = 1
    QueueDepth = 1
    LegDepth = 1
    Stream = {"s1", "s2"}
    MaxTicks = 1
    MaxDials = 2
    MaxData = 2
    MaxOther = 2
    MaxMsgs = 3
    MaxWork = 4
    TickWork = 3
INVARIANTS
    TypeOK
    NoSendOnClosed
    RidesPublished
PROPERTIES
    MessagesArrive
    LocksGranted
CHECK_DEADLOCK FALSE
