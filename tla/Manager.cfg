CONSTANTS
    Readers = {r1}
    Entries = {e1}
    Callers = {c1, c2}
    Kinds <- AllKinds
    Path <- OnePath
    MaxCalls = 2
    MaxQueue = 1
    MaxPanics <- OnePanic
SPECIFICATION LiveSpec
INVARIANTS NoPoison NeverRepainted LastSeenIsStatus NoLostWakeup NoStrandedEvent LocksReleased ApplyExclusive
PROPERTIES SleepReleases EndReturns LockServed
CHECK_DEADLOCK FALSE
