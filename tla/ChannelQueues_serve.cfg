SPECIFICATION FirstSpec
CONSTANTS
    Sessions = {s1, s2}
    First = s1
    NumMsgs = 3
    MaxSize = 1
    LongRuns = TRUE
    MaxStops = 1
INVARIANTS
    RegisteredIsServed
    OneConsumer
    InOrder
PROPERTIES
    OnlyEndedRunsRefuse
    EveryMessageIsHandled
CHECK_DEADLOCK FALSE
