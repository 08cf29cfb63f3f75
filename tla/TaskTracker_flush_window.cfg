SPECIFICATION FairSpec
CONSTANTS
    Keys = {k1}
    Clients = {c1, c2}
    Nobody = Nobody
    NoFile = NoFile
    MaxRuns = 1
    BufferCap = 1
    MaxCompleted = 1
    MaxEvents = 1
    MaxStops = 0
    MaxFaults = 0
    MaxCrashes = 0
    TTLElapses = FALSE
PROPERTIES
    EveryStreamEnds
CHECK_DEADLOCK FALSE
