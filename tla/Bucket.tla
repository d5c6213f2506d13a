------------------------------- MODULE Bucket -------------------------------
(***************************************************************************)
(* A replica bucket as its clients see it: a set of LTX files, each in a   *)
(* level and holding the pages of a range of transactions.  The module     *)
(* has the listing and contiguity rules every reader and writer of a       *)
(* bucket shares, and the restore plan (crates/liters/src/plan.rs) as a    *)
(* function of what was listed.                                            *)
(*                                                                         *)
(* A file has at least the fields lvl, min and max.  A key is a level and  *)
(* a range, so a set of files holds at most one file per key.              *)
(***************************************************************************)
EXTENDS Integers, Sequences, FiniteSets

CONSTANT
    SNAPSHOT_LEVEL   \* level of the full snapshots, above every other level

ASSUME SnapshotLevelAssumption == SNAPSHOT_LEVEL \in Nat \ {0, 1}

VARIABLE
    bucket           \* the files in the bucket

Levels == 0..SNAPSHOT_LEVEL

\* The levels maintenance merges into.
MergedLevels == 1..(SNAPSHOT_LEVEL - 1)

\* ltx_files: the files of a level that start at seek or later.
ltx_files(F, level, seek) == {f \in F : f.lvl = level /\ f.min >= seek}

\* A listing is ordered by (min, max): its first file, and its last.
Before(f, g) == f.min < g.min \/ (f.min = g.min /\ f.max < g.max)
First(F) == CHOOSE f \in F : \A g \in F \ {f} : Before(f, g)
Last(F)  == CHOOSE f \in F : \A g \in F \ {f} : Before(g, f)

\* The greatest max of a set of files, zero when it is empty.
MaxTxid(F) ==
    IF F = {} THEN 0 ELSE (CHOOSE f \in F : \A g \in F : g.max <= f.max).max

\* max_ltx_file_info: the file with the greatest max, the last one listed
\* among equals.
max_ltx_file_info(F, level) ==
    Last({f \in ltx_files(F, level, 0) : f.max = MaxTxid(ltx_files(F, level, 0))})

\* The file takes a database at prev to its own max.
is_contiguous(prev, f) == f.min <= prev + 1 /\ f.max > prev

\* The compactor takes only inputs that continue one another.
Mergeable(srcs) ==
    \A f \in srcs :
        LET earlier == {g \in srcs : Before(g, f)}
        IN earlier # {} => is_contiguous(Last(earlier).max, f)

\* A file replaces the one with the same key.
SameKey(f, g) == f.lvl = g.lvl /\ f.min = g.min /\ f.max = g.max
write_ltx_file(F, f) == {g \in F : ~SameKey(f, g)} \cup {f}

----------------------------------------------------------------------------
(* The restore plan. *)

\* next is a better extension of a chain than curr.  Files of one listing
\* never tie on level, min and max.
candidate_better(curr, next) ==
    IF next.max # curr.max THEN next.max > curr.max
    ELSE IF next.min # curr.min THEN next.min < curr.min
    ELSE next.lvl > curr.lvl

Best(F) == CHOOSE f \in F : \A g \in F \ {f} : candidate_better(g, f)

\* The target admits the file; zero asks for the latest state.
Admits(txid, f) == txid = 0 \/ f.max <= txid

\* Mutant: the level below the snapshots is listed for them.
SnapshotOfWrongLevel(F, txid) ==
    LET snaps == {f \in ltx_files(F, SNAPSHOT_LEVEL - 1, 0) : Admits(txid, f)}
    IN IF snaps = {} THEN <<>> ELSE <<Last(snaps)>>

\* The newest eligible snapshot, as a sequence.
SnapshotOf(F, txid) ==
    LET snaps == {f \in ltx_files(F, SNAPSHOT_LEVEL, 0) : Admits(txid, f)}
    IN IF snaps = {} THEN <<>> ELSE <<Last(snaps)>>

\* Where a sequence of files ends.
EndOf(infos) == IF infos = <<>> THEN 0 ELSE infos[Len(infos)].max

\* The files below the snapshots that take a restore at c further.
Extensions(F, txid, c) ==
    {f \in F : f.lvl < SNAPSHOT_LEVEL /\ is_contiguous(c, f) /\ Admits(txid, f)}

\* The greedy chain from cur on through the levels below the snapshots.
Chain(F, txid, cur) ==
    LET chain[c \in Nat] ==
            IF (txid # 0 /\ c >= txid) \/ Extensions(F, txid, c) = {}
              THEN <<>>
              ELSE <<Best(Extensions(F, txid, c))>> \o chain[Best(Extensions(F, txid, c)).max]
    IN chain[cur]

\* calc_restore_plan over what the listings returned.
calc_restore_plan(F, txid) ==
    LET snap  == SnapshotOf(F, txid)
        infos == snap \o Chain(F, txid, EndOf(snap))
        to    == EndOf(infos)
        gap   == \E f \in F : f.lvl < SNAPSHOT_LEVEL /\ f.min > to + 1
    IN CASE infos = <<>>           -> [res |-> "unavailable", infos |-> <<>>]
         [] infos # <<>> /\ txid = 0 /\ gap -> [res |-> "gap", infos |-> <<>>]
         [] infos # <<>> /\ txid # 0 /\ to < txid -> [res |-> "unavailable", infos |-> <<>>]
         [] OTHER                  -> [res |-> "ok", infos |-> infos]
=============================================================================
