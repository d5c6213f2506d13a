CONSTANTS
    Peers = {p1, p2}
    MaxShutdowns = 2
SPECIFICATION ServerLiveSpec
INVARIANTS DownIsDown
PROPERTIES ShutdownEnds KeepsAccepting
\* A server that was shut down has nothing left to do.
CHECK_DEADLOCK FALSE
