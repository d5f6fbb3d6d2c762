SPECIFICATION LoopSpec
CONSTANTS
    Streams = {s1}
    none = none
    Cwnd = 1
    DatagramQueue = 2
    MaxData = 1
    MaxDatagrams = 2
    MaxRequests = 2
    MaxProbes = 0
    MaxExpiries = 1
INVARIANTS
    SleepsOnNothing
CHECK_DEADLOCK FALSE
