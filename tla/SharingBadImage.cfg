CONSTANTS
    SNAPSHOT_LEVEL = 2
    TxidBound = 2
    MaxGen = 2
    Pages = {"a", "b"}
    WritesOf <- Writes
    Cases <- OneBad
SPECIFICATION Spec
PROPERTY StaysReadable
