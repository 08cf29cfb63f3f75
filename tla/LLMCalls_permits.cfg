SPECIFICATION FairSpec
CONSTANTS
    c1 = c1
    c2 = c2
    Calls = {c1, c2}
    Streamers = {c1}
    MaxConcurrent = 1
    MaxQpm = 2
    MaxAttempts = 2
INVARIANTS
    PermitsConserved
    PauseIsServed
    RequestsBounded
PROPERTIES
    HoldIsKept
    CallsEnd
CHECK_DEADLOCK FALSE
