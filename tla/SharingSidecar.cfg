CONSTANTS
    SNAPSHOT_LEVEL = 2
    TxidBound = 3
    MaxGen = 2
    Pages = {"a", "b"}
    WritesOf <- Writes
    Cases <- OneCrash
SPECIFICATION Spec
INVARIANT ResumesComplete
CONSTRAINT OnlyPushes
