SPECIFICATION FairSpec
CONSTANTS
    Room = 1
    MaxInput = 2
    MaxOutput = 0
    MaxWork = 3
    LossWork = 2
PROPERTIES
    InputHandlerEnds
CHECK_DEADLOCK FALSE
