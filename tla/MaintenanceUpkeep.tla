------------------------- MODULE MaintenanceUpkeep -------------------------
(***************************************************************************)
(* The refinement mapping from Maintenance to Upkeep: the same bucket       *)
(* without the files' timestamps, the rest as it is.                        *)
(***************************************************************************)
CONSTANTS SNAPSHOT_LEVEL, TxidBound, MaxGen
VARIABLES bucket, head, gen, lost

U == INSTANCE Upkeep WITH
        bucket <- {[lvl |-> f.lvl, min |-> f.min, max |-> f.max, gen |-> f.gen] : f \in bucket}

\* Every step of maintain, whatever it lists, skips or leaves undone, is one of
\* the steps readers must reckon with, or none: it implements Upkeep.
ImplementsUpkeep == U!UpkeepSpec
=============================================================================
