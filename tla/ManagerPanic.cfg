CONSTANTS
    Readers = {r1}
    Entries = {e1}
    Callers = {c1, c2}
    Kinds <- AllKinds
    Path <- OnePath
    MaxCalls = 2
    MaxQueue = 1
    MaxPanics <- OnePanic
SPECIFICATION LiveSpec
PROPERTY SleepReleasesAnyway
CHECK_DEADLOCK FALSE
