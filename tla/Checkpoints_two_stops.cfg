SPECIFICATION Spec
CONSTANTS
    r1 = r1
    r2 = r2
    h1 = h1
    x1 = x1
    n = n
    Runs = {r1}
    Callers = {h1}
    Autos = {}
    NoActor = n
    MaxSaves = 1
    MaxStops = 2
INVARIANT OneJob
CHECK_DEADLOCK FALSE
