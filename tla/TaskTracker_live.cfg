SPECIFICATION FairSpec
CONSTANTS
    Keys = {k1}
    Clients = {c1, c2}
    Nobody = Nobody
    NoFile = NoFile
    MaxRuns = 2
    BufferCap = 1
    MaxCompleted = 1
    MaxEvents = 1
    MaxStops = 1
    MaxFaults = 1
    MaxCrashes = 0
    TTLElapses = FALSE
PROPERTIES
    StopEnds
    EarlySubscriberEnds
    LockIsServed
CHECK_DEADLOCK FALSE
