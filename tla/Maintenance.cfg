\* Snapshots outlive every level interval, as they do by default.
CONSTANTS
    SNAPSHOT_LEVEL = 3
    TxidBound = 4
    MaxClock = 3
    MaxGen = 2
    LevelInterval <- Intervals
    SnapshotInterval = 3
    SnapshotRetention = 1
    L0Retention = 0
INIT MaintInit
NEXT MaintNext
INVARIANTS LevelsContiguous Restorable ChainAboveFloor
PROPERTY ImplementsUpkeep
