CONSTANTS
    SNAPSHOT_LEVEL = 2
    TxidBound = 3
    MaxGen = 1
    Pages = {"a", "b"}
    WritesOf <- Writes
    Cases <- RaceCases
SPECIFICATION Spec
INVARIANTS NothingMissing NoFalseDivergence
