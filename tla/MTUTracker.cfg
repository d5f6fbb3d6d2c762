SPECIFICATION FairSpec
CONSTANTS
    MinMTU = 1
    MaxMTU = 4
    MaxFlight = 2
    MaxLosses = 3
    MaxChanges = 1
INVARIANTS
    SearchRangeSound
    KeepsProbing
PROPERTIES
    RisesToProvenSize
    SettlesOnPath
