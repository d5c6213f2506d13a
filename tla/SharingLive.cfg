CONSTANTS
    SNAPSHOT_LEVEL = 2
    TxidBound = 2
    MaxGen = 2
    Pages = {"a", "b"}
    WritesOf <- Writes
    Cases <- LiveCases
SPECIFICATION LiveSpec
PROPERTY CatchesUp
