SPECIFICATION Spec
CONSTANTS
    r1 = r1
    r2 = r2
    main = main
    child = child
    t1 = t1
    NoCall = NoCall
    Requests = {r1, r2}
    Sessions = {main, child}
    ToolCalls = {t1}
    RootOf <- MCRootOf
    MaxLimit = 2
INVARIANTS
    OnlyWhatWasGranted
    StillAnswerable
    OneRecordPerCall
    PromisesKept
PROPERTIES
    FirstDecisionStands
CHECK_DEADLOCK FALSE
