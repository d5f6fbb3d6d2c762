SPECIFICATION FairLoopSpec
CONSTANTS
    Streams = {s1}
    none = none
    Cwnd = 1
    DatagramQueue = 2
    MaxData = 1
    MaxDatagrams = 2
    MaxRequests = 2
    MaxProbes = 1
    MaxExpiries = 1
INVARIANTS
    NothingStranded
PROPERTIES
    StreamsFinish
    ComesToRest
CHECK_DEADLOCK FALSE
