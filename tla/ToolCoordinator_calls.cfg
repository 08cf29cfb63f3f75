SPECIFICATION FairSpec
CONSTANTS
    c1 = c1
    c2 = c2
    s1 = s1
    Calls = {c1}
    Sessions = {s1}
    SessionOf <- MCSessionOf
    Capped = {}
    MaxChunks = 1
    MaxAsks = 2
INVARIANTS
    CallerIsWoken
    HintOnce
PROPERTIES
    OneOutcome
    StopsAreServed
    BackgroundReports
CHECK_DEADLOCK FALSE
