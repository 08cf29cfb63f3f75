SPECIFICATION RestoreSpec
CONSTANTS
    r1 = r1
    r2 = r2
    h1 = h1
    x1 = x1
    n = n
    Runs = {r1, r2}
    Callers = {h1}
    Autos = {x1}
    NoActor = n
    MaxSaves = 1
    MaxStops = 1
INVARIANTS
    OneJob
    RestoreAlone
    AllOrNothing
    GateIsHeld
PROPERTIES
    SafetyNet
    OperationsEnd
CHECK_DEADLOCK FALSE
