---------------------------- MODULE Maintenance ----------------------------
(***************************************************************************)
(* The device's side of its bucket: pushes, and Writer::maintain of        *)
(* crates/liters/src/compaction.rs, which merges level n-1 into level n,   *)
(* writes snapshots and deletes what retention allows.                     *)
(*                                                                         *)
(* The device is the sole writer of the bucket, so a step here is one      *)
(* mutation of the bucket together with the listings that led to it; what  *)
(* readers can see, and where a crash, an error or a cancelled token can   *)
(* leave the bucket, is the state between two mutations.  A push is one    *)
(* file of level 0 with the next transaction (module Writer has the push   *)
(* itself).  Time is a counter that passes between steps.  A file also     *)
(* records the lineage it belongs to and the time in its header, which the *)
(* directory backend lists it with.  Retention is enabled.                 *)
(***************************************************************************)
EXTENDS Bucket

CONSTANTS
    TxidBound,          \* bound: transactions in the life of one lineage
    MaxClock,           \* bound on time
    MaxGen,             \* bound: lineages that use the bucket one after another
    LevelInterval,      \* MaintenanceOptions::level_intervals, by level
    SnapshotInterval, SnapshotRetention, L0Retention

ASSUME MaintenanceAssumption ==
    /\ TxidBound \in Nat /\ MaxClock \in Nat /\ MaxGen \in Nat
    /\ LevelInterval \in [MergedLevels -> Nat]
    /\ SnapshotInterval \in Nat /\ SnapshotRetention \in Nat /\ L0Retention \in Nat

VARIABLES
    head,      \* last transaction pushed
    gen,       \* the lineage that uses the bucket
    clock,     \* the time
    mpc,       \* where maintain is
    mlvl,      \* the level it is at
    mnow,      \* the time it took at its start
    doomed,    \* the files it is deleting
    after,     \* where it goes when they are deleted
    floor,     \* the floor of this run's cascade
    lost       \* the newest snapshot deleted (ghost, see Upkeep)

maintVars == <<bucket, head, gen, clock, mpc, mlvl, mnow, doomed, after, floor, lost>>

At(level) == ltx_files(bucket, level, 0)

\* A push uploads the next transaction.
Pushed(F, n) ==
    F \cup {[lvl |-> 0, min |-> t, max |-> t, gen |-> gen, at |-> clock] : t \in (head + 1)..(head + n)}

Push ==
    /\ mpc = "idle" /\ head < TxidBound
    /\ bucket' = Pushed(bucket, 1)
    /\ head' = head + 1
    /\ UNCHANGED <<gen, clock, mpc, mlvl, mnow, doomed, after, floor, lost>>

\* Time passes.  Within maintain only the snapshot reads the clock again, so
\* it need not pass elsewhere.
Tick ==
    /\ clock < MaxClock
    /\ mpc \in {"idle", "snapshot", "put"}
    /\ clock' = clock + 1
    /\ UNCHANGED <<bucket, head, gen, mpc, mlvl, mnow, doomed, after, floor, lost>>

\* The bucket is wiped; the writer, or another one, seeds it from the start.
Wipe ==
    /\ mpc = "idle" /\ gen < MaxGen /\ head > 0
    /\ bucket' = {} /\ head' = 0 /\ gen' = gen + 1 /\ lost' = 0
    /\ UNCHANGED <<clock, mpc, mlvl, mnow, doomed, after, floor>>

----------------------------------------------------------------------------
(* maintain *)

MaintainStart ==
    /\ mpc = "idle" /\ head > 0
    /\ mpc' = "compact" /\ mlvl' = 1 /\ mnow' = clock
    /\ UNCHANGED <<bucket, head, gen, clock, doomed, after, floor, lost>>

\* maintain returns, whatever the reason.
Return == mpc' = "idle" /\ mlvl' = 0 /\ mnow' = 0 /\ doomed' = {} /\ after' = "idle" /\ floor' = 0

\* A token is cancelled, a storage call fails, the compactor refuses its inputs
\* or the process dies.
Abandon ==
    /\ mpc # "idle"
    /\ Return
    /\ UNCHANGED <<bucket, head, gen, clock, lost>>

\* delete_ltx_files deletes D one by one, then maintain is at pc next.
DeleteThen(D, next) ==
    /\ doomed' = D
    /\ mpc' = IF D = {} THEN next ELSE "delete"
    /\ after' = next

\* level_due and snapshot_due: no file yet, or the newest is old enough.
Due(level, interval) ==
    At(level) # {} => mnow - max_ltx_file_info(bucket, level).at >= interval

\* Mutant: the sources start at the last transaction of the level, not after it.
SourcesInclusive(level) ==
    ltx_files(bucket, level - 1,
              IF At(level) = {} THEN 0 ELSE max_ltx_file_info(bucket, level).max)

\* The files of the level below that the level does not have yet.
Sources(level) ==
    ltx_files(bucket, level - 1,
              IF At(level) = {} THEN 0 ELSE max_ltx_file_info(bucket, level).max + 1)

\* The merged file: the timestamp is the last input's.
Merged(level, srcs) ==
    [lvl |-> level, min |-> First(srcs).min, max |-> MaxTxid(srcs), gen |-> gen, at |-> Last(srcs).at]

\* Mutant: what is old enough goes, whether level 1 has it or not.
L0DeletableUncovered(F) ==
    LET l0     == ltx_files(F, 0, 0)
        old(f) == /\ f.max # MaxTxid(l0)
                  /\ f.at <= mnow - L0Retention
    IN {f \in l0 : \A g \in l0 : Before(g, f) \/ g = f => old(g)}

\* enforce_l0_retention: files level 1 covers and that are old enough, up to
\* the first that is not, never the newest.
L0Deletable(F) ==
    LET l0     == ltx_files(F, 0, 0)
        max_l1 == MaxTxid(ltx_files(F, 1, 0))
        old(f) == /\ f.max <= max_l1
                  /\ f.max # MaxTxid(l0)
                  /\ f.at <= mnow - L0Retention
    IN {f \in l0 : \A g \in l0 : Before(g, f) \/ g = f => old(g)}

\* Where maintain goes after a level: the next one, then the snapshot.
PastLevel(level) == IF level + 1 \in MergedLevels THEN "compact" ELSE "snapshot"

CompactSkip ==
    /\ mpc = "compact"
    /\ ~Due(mlvl, LevelInterval[mlvl]) \/ Sources(mlvl) = {}
    /\ mpc' = PastLevel(mlvl) /\ mlvl' = mlvl + 1
    /\ UNCHANGED <<bucket, head, gen, clock, mnow, doomed, after, floor, lost>>

\* compact_level merges the sources and puts the file; a merge into level 1 is
\* followed by the deletion of files of level 0.
CompactLevel ==
    /\ mpc = "compact"
    /\ Due(mlvl, LevelInterval[mlvl]) /\ Sources(mlvl) # {}
    /\ Mergeable(Sources(mlvl))
    /\ bucket' = write_ltx_file(bucket, Merged(mlvl, Sources(mlvl)))
    /\ mlvl' = mlvl + 1
    /\ DeleteThen(IF mlvl = 1 THEN L0Deletable(bucket') ELSE {}, PastLevel(mlvl))
    /\ UNCHANGED <<head, gen, clock, mnow, floor, lost>>

Delete ==
    LET f == First(doomed)
    IN /\ mpc = "delete"
       /\ bucket' = bucket \ {f}
       /\ lost' = IF f.lvl = SNAPSHOT_LEVEL /\ f.max > lost THEN f.max ELSE lost
       /\ DeleteThen(doomed \ {f}, after)
       /\ UNCHANGED <<head, gen, clock, mlvl, mnow, floor>>

SnapshotSkip ==
    /\ mpc = "snapshot"
    /\ ~Due(SNAPSHOT_LEVEL, SnapshotInterval)
    /\ mpc' = "retain"
    /\ UNCHANGED <<bucket, head, gen, clock, mlvl, mnow, doomed, after, floor, lost>>

\* snapshot syncs and uploads what was committed since the last push.
SnapshotSync ==
    /\ mpc = "snapshot"
    /\ Due(SNAPSHOT_LEVEL, SnapshotInterval)
    /\ \E n \in 0..1 :
          /\ head + n <= TxidBound
          /\ bucket' = Pushed(bucket, n)
          /\ head' = head + n
    /\ mpc' = "put"
    /\ UNCHANGED <<gen, clock, mlvl, mnow, doomed, after, floor, lost>>

SnapshotPut ==
    /\ mpc = "put"
    /\ bucket' = write_ltx_file(bucket,
                    [lvl |-> SNAPSHOT_LEVEL, min |-> 1, max |-> head, gen |-> gen, at |-> clock])
    /\ mpc' = "retain"
    /\ UNCHANGED <<head, gen, clock, mlvl, mnow, doomed, after, floor, lost>>

\* The snapshots at the front of the listing that are too old, never the newest.
Expired ==
    LET snaps  == At(SNAPSHOT_LEVEL)
        old(f) == f.at < mnow - SnapshotRetention /\ f.max # MaxTxid(snaps)
    IN {f \in snaps : \A g \in snaps : Before(g, f) \/ g = f => old(g)}

\* The floor is the last snapshot that goes.
Floor == MaxTxid(Expired)

\* enforce_retention: it has a snapshot to keep, for the step before put one
\* if there was none.
RetainSnapshots ==
    /\ mpc = "retain"
    /\ DeleteThen(Expired, IF Floor = 0 THEN "l0" ELSE "cascade")
    /\ mlvl' = 1 /\ floor' = Floor
    /\ UNCHANGED <<bucket, head, gen, clock, mnow, lost>>

\* Mutant: files that reach over the floor go too.
BelowFloorOverlapping(level) == {f \in At(level) : f # Last(At(level)) /\ f.min < floor}

\* The files of a level wholly below the floor, all but the last file.
BelowFloor(level) == {f \in At(level) : f # Last(At(level)) /\ f.max < floor}

Cascade ==
    /\ mpc = "cascade"
    /\ DeleteThen(BelowFloor(mlvl), IF mlvl + 1 \in MergedLevels THEN "cascade" ELSE "l0")
    /\ mlvl' = mlvl + 1
    /\ UNCHANGED <<bucket, head, gen, clock, mnow, floor, lost>>

L0Retain ==
    /\ mpc = "l0"
    /\ DeleteThen(L0Deletable(bucket), "done")
    /\ UNCHANGED <<bucket, head, gen, clock, mlvl, mnow, floor, lost>>

MaintainDone ==
    /\ mpc = "done"
    /\ Return
    /\ UNCHANGED <<bucket, head, gen, clock, lost>>

MaintainStep ==
    \/ CompactSkip \/ CompactLevel \/ Delete
    \/ SnapshotSkip \/ SnapshotSync \/ SnapshotPut
    \/ RetainSnapshots \/ Cascade \/ L0Retain \/ MaintainDone

MaintInit ==
    /\ bucket = {} /\ head = 0 /\ gen = 1 /\ clock = 0
    /\ mpc = "idle" /\ mlvl = 0 /\ mnow = 0
    /\ doomed = {} /\ after = "idle" /\ floor = 0 /\ lost = 0

MaintNext == Push \/ Tick \/ Wipe \/ MaintainStart \/ Abandon \/ MaintainStep

MaintSpec == MaintInit /\ [][MaintNext]_maintVars

----------------------------------------------------------------------------
(* Properties. *)

LtxFile == [lvl : Levels, min : Nat \ {0}, max : Nat \ {0}, gen : Nat, at : Nat]

MaintTypeOK ==
    /\ \A f \in bucket : f \in LtxFile /\ f.min <= f.max
    /\ doomed \subseteq bucket
    /\ head \in 0..TxidBound /\ gen \in 1..MaxGen /\ clock \in 0..MaxClock
    /\ mpc \in {"idle", "compact", "delete", "snapshot", "put", "retain", "cascade", "l0", "done"}
    /\ mlvl \in 0..SNAPSHOT_LEVEL /\ mnow \in Nat
    /\ floor \in Nat /\ lost \in Nat

\* Within every merged level the files follow one another without a hole or an
\* overlap.  So no merge meets a hole between its sources (the compactor would
\* refuse them, and every later maintain would fail at that level), although
\* the cascade deletes files the level above may not have merged yet.
LevelsContiguous ==
    \A l \in MergedLevels : \A f \in At(l) :
        LET earlier == {g \in At(l) : Before(g, f)}
        IN earlier # {} => f.min = Last(earlier).max + 1

\* Whatever was merged and deleted so far, and wherever maintain stopped, a
\* restore of the latest state finds a plan that starts from nothing and
\* reaches the last push.
Restorable ==
    bucket # {} => LET plan == calc_restore_plan(bucket, 0)
                   IN /\ plan.res = "ok"
                      /\ plan.infos[1].min = 1 /\ EndOf(plan.infos) = head

\* From the newest snapshot that retention deleted on, every position still
\* has a file of levels 0 to 8 that goes on from it.
ChainAboveFloor ==
    \A p \in lost..(head - 1) :
        \E f \in bucket : f.lvl < SNAPSHOT_LEVEL /\ is_contiguous(p, f)
=============================================================================
