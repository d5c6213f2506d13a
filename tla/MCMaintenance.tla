--------------------------- MODULE MCMaintenance ---------------------------
(* Instances of Maintenance for TLC. *)
EXTENDS Maintenance

INSTANCE MaintenanceUpkeep

\* Every level waits a tick.
Intervals == [l \in MergedLevels |-> 1]

\* Level 1 merges at once, the levels above it only every second tick.
SlowLevels == [l \in MergedLevels |-> IF l = 1 THEN 0 ELSE 2]
=============================================================================
