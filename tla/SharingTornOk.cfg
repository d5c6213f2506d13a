CONSTANTS
    SNAPSHOT_LEVEL = 2
    TxidBound = 4
    MaxGen = 1
    Pages = {"a", "b"}
    WritesOf <- Writes
    Cases <- OneFail
SPECIFICATION Spec
INVARIANT OkIsCommitted
