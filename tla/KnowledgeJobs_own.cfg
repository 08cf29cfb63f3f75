SPECIFICATION Spec
CONSTANTS
    w1 = w1
    w2 = w2
    Nobody = Nobody
    Workers = {w1, w2}
    Ids = {"a", "b"}
    IdOf <- OwnIds
    NumDocs = 2
    MaxAttempts = 2
    Deletable = {1}
    Restarted = {}
    SlowStages = FALSE
    MaxCrashes = 1
    MaxFaults = 1
    MaxOutages = 0
    MaxReprocesses = 0
INVARIANTS
    OneWorkerPerDocument
    AttemptsAreBounded
PROPERTIES
    KeepsPromise
