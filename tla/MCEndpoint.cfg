SPECIFICATION FairSpec
CONSTANTS
    Side <- MCSide
    Far <- MCFar
    Beside <- MCBeside
    Dialers = {"a"}
    Responders = {"r", "q", "b"}
    MaxHellos = 2
    MaxConns = 3
    MaxTicks = 1
    MaxExchanges = 2
    MaxFaults = 1
INVARIANTS
    TypeOK
    EndsOnce
    ExpiresOnlyRefused
PROPERTY
    GhostsCollected
