CONSTANTS
    SNAPSHOT_LEVEL = 2
    Handlers = {h1, h2}
    Ids = {"a", "b"}
    Requests <- SomeRequests
    MaxRequests = 5
    MaxEvents = 2
SPECIFICATION FenceLiveSpec
INVARIANTS NoOverlap NothingBeyond
PROPERTIES NeverReplaced OwnerExclusive GateServed
CHECK_DEADLOCK FALSE
