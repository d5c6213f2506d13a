CONSTANTS
    SNAPSHOT_LEVEL = 2
    TxidBound = 3
    MaxGen = 2
    MaxFails = 1
    MaxMutations = 3
    Found <- SomeBuckets
SPECIFICATION LiveSpec
INVARIANTS NoFalseReset
PROPERTIES Delivers Stops
CHECK_DEADLOCK FALSE
