SPECIFICATION FairSpec
CONSTANTS
    w1 = w1
    w2 = w2
    Nobody = Nobody
    Workers = {w1, w2}
    Ids = {"a"}
    IdOf <- SharedId
    NumDocs = 1
    MaxAttempts = 2
    Deletable = {1}
    Restarted = {w2}
    SlowStages = TRUE
    MaxCrashes = 1
    MaxFaults = 1
    MaxOutages = 1
    MaxReprocesses = 1
INVARIANTS
    ContentFollowsDocument
PROPERTIES
    EveryDocumentSettles
