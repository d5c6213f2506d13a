\* Every listing of levels 0 to 2 and of snapshots over three transactions.
CONSTANTS
    SNAPSHOT_LEVEL = 3
    ListBound = 3
SPECIFICATION Spec
INVARIANTS PlanExact CursorsAgree
CHECK_DEADLOCK FALSE
