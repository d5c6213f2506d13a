CONSTANTS
    Readers = {r1}
    Entries = {e1, e2}
    Callers = {c1, c2}
    Kinds <- Pushes
    Path <- OnePath
    MaxCalls = 2
    MaxQueue = 1
    MaxPanics <- NoPanic
SPECIFICATION Spec
INVARIANT OneWorkerPerDatabase
CHECK_DEADLOCK FALSE
