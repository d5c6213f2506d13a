\* Snapshots that expire sooner than level 2 is merged.
CONSTANTS
    SNAPSHOT_LEVEL = 3
    TxidBound = 4
    MaxClock = 2
    MaxGen = 1
    LevelInterval <- SlowLevels
    SnapshotInterval = 0
    SnapshotRetention = 0
    L0Retention = 0
INIT MaintInit
NEXT MaintNext
INVARIANT LevelsContiguous
