SPECIFICATION Spec
CONSTANTS
    Keys = {k1, k2}
    Clients = {c1, c2}
    Nobody = Nobody
    NoFile = NoFile
    MaxRuns = 2
    BufferCap = 1
    MaxCompleted = 1
    MaxEvents = 1
    MaxStops = 2
    MaxFaults = 0
    MaxCrashes = 1
    TTLElapses = FALSE
SYMMETRY ClientSymmetry
INVARIANTS
    NoStaleReplay
    ReplayIsDurable
PROPERTIES
    RecentRunsStay
CHECK_DEADLOCK FALSE
