------------------------------- MODULE Upkeep -------------------------------
(***************************************************************************)
(* What the device promises the readers of its bucket, whatever it pushes, *)
(* merges or deletes and wherever it is interrupted: the abstract          *)
(* specification of module Maintenance.  One mutation of the bucket is one *)
(* step; when mutations happen is left open.                               *)
(***************************************************************************)
EXTENDS Bucket

CONSTANTS
    TxidBound,   \* bound: transactions in the life of one lineage
    MaxGen       \* bound: lineages that use the bucket one after another

ASSUME UpkeepAssumption == TxidBound \in Nat /\ MaxGen \in Nat

VARIABLES
    head,    \* last transaction pushed
    gen,     \* the lineage that uses the bucket
    lost     \* the newest snapshot that was deleted, 0 when none was

upkeepVars == <<bucket, head, gen, lost>>

At(level) == ltx_files(bucket, level, 0)

\* The files, without the time in their headers.
File(level, min, max) == [lvl |-> level, min |-> min, max |-> max, gen |-> gen]

\* A push uploads the next transaction to level 0.
Push ==
    /\ head < TxidBound
    /\ bucket' = bucket \cup {File(0, head + 1, head + 1)}
    /\ head' = head + 1
    /\ UNCHANGED <<gen, lost>>

\* The files of the level below that a level does not have yet.
Sources(level) ==
    ltx_files(bucket, level - 1,
              IF At(level) = {} THEN 0 ELSE max_ltx_file_info(bucket, level).max + 1)

Merge(level) ==
    /\ Sources(level) # {} /\ Mergeable(Sources(level))
    /\ bucket' = write_ltx_file(bucket,
                    File(level, First(Sources(level)).min, MaxTxid(Sources(level))))
    /\ UNCHANGED <<head, gen, lost>>

\* A snapshot of everything pushed.
PutSnapshot ==
    /\ head > 0
    /\ bucket' = write_ltx_file(bucket, File(SNAPSHOT_LEVEL, 1, head))
    /\ UNCHANGED <<head, gen, lost>>

\* The oldest file of level 0 goes when level 1 has it and it is not the newest.
DropL0 ==
    LET f == First(At(0))
    IN /\ At(0) # {} /\ f.max <= MaxTxid(At(1)) /\ f.max < MaxTxid(At(0))
       /\ bucket' = bucket \ {f}
       /\ UNCHANGED <<head, gen, lost>>

\* The oldest snapshot goes when there is a newer one.
DropSnapshot ==
    LET f == First(At(SNAPSHOT_LEVEL))
    IN /\ At(SNAPSHOT_LEVEL) # {} /\ f.max < MaxTxid(At(SNAPSHOT_LEVEL))
       /\ bucket' = bucket \ {f}
       /\ lost' = IF f.max > lost THEN f.max ELSE lost
       /\ UNCHANGED <<head, gen>>

\* The oldest file of a merged level goes when it ends below a deleted
\* snapshot, unless it is the only one.
DropMerged(level) ==
    LET f == First(At(level))
    IN /\ At(level) # {} /\ f # Last(At(level)) /\ f.max < lost
       /\ bucket' = bucket \ {f}
       /\ UNCHANGED <<head, gen, lost>>

\* The bucket is wiped; the writer, or another one, seeds it from the start.
Wipe ==
    /\ gen < MaxGen /\ head > 0
    /\ bucket' = {} /\ head' = 0 /\ gen' = gen + 1 /\ lost' = 0

UpkeepInit == bucket = {} /\ head = 0 /\ gen = 1 /\ lost = 0

UpkeepNext ==
    \/ Push \/ PutSnapshot \/ DropL0 \/ DropSnapshot \/ Wipe
    \/ \E l \in MergedLevels : Merge(l) \/ DropMerged(l)

UpkeepSpec == UpkeepInit /\ [][UpkeepNext]_upkeepVars

----------------------------------------------------------------------------
(* Properties. *)

LtxFile == [lvl : Levels, min : Nat \ {0}, max : Nat \ {0}, gen : Nat]

UpkeepTypeOK ==
    /\ \A f \in bucket : f \in LtxFile /\ f.min <= f.max /\ f.max <= head
    /\ head \in Nat /\ gen \in Nat /\ lost \in 0..head

\* Whatever was merged and deleted so far, a restore of the latest state finds
\* a plan that starts from nothing and reaches the last transaction pushed.
Restorable ==
    bucket # {} => LET plan == calc_restore_plan(bucket, 0)
                   IN /\ plan.res = "ok"
                      /\ plan.infos[1].min = 1 /\ EndOf(plan.infos) = head

\* A restore planned on a snapshot that retention then deletes still finds its
\* chain, and so does a follower at that snapshot or later: from every such
\* position a file of levels 0 to 8 goes on.
ChainAboveFloor ==
    \A p \in lost..(head - 1) :
        \E f \in bucket : f.lvl < SNAPSHOT_LEVEL /\ is_contiguous(p, f)
=============================================================================
