SPECIFICATION Spec
CONSTANTS
    MsgDepth = 1
    QueueDepth = 1
    LegDepth = 1
    Stream = {"s1", "s2"}
    MaxTicks = 1
    MaxDials = 1
    MaxData = 0
    MaxOther = 0
    MaxMsgs = 0
    MaxWork = 4
    TickWork = 1
PROPERTIES
    ClosesOnlyTheDead
CHECK_DEADLOCK FALSE
