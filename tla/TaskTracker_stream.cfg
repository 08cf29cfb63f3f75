SPECIFICATION Spec
CONSTANTS
    Keys = {k1}
    Clients = {c1, c2}
    Nobody = Nobody
    NoFile = NoFile
    MaxRuns = 2
    BufferCap = 1
    MaxCompleted = 1
    MaxEvents = 3
    MaxStops = 1
    MaxFaults = 0
    MaxCrashes = 0
    TTLElapses = TRUE
SYMMETRY ClientSymmetry
INVARIANTS
    LiveRunIsRegistered
    Contiguous
    NothingAfterSentinel
CHECK_DEADLOCK FALSE
