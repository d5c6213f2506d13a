------------------------- MODULE MaintenanceProofs -------------------------
(***************************************************************************)
(* Proofs about Maintenance, for every number of levels, every setting of  *)
(* the intervals and retentions, any number of pushes and any interruption *)
(* of maintain: the bucket can be restored and read on from at every step, *)
(* and merged levels have no holes.                                        *)
(***************************************************************************)
EXTENDS Maintenance, BucketProofs

\* The files being deleted are the front of the listing of their level, some
\* file stays behind them, and what they hold is elsewhere.
DoomedIn(D, F, lo, fl) ==
    /\ D \subseteq F
    /\ \A f, g \in D : f.lvl = g.lvl
    /\ \A f \in D, g \in F : g.lvl = f.lvl /\ Before(g, f) => g \in D
    /\ \A f \in D :
          /\ \E g \in F \ D : g.lvl = f.lvl /\ Before(f, g) /\ f.max < g.max
          /\ f.lvl = 0 => \E k \in F : k.lvl = 1 /\ f.max <= k.max
          /\ f.lvl \in MergedLevels => f.max < lo /\ f.max < fl

\* Where maintain is, and what it then knows.
ShapeOK ==
    /\ mpc \in {"idle", "compact", "delete", "snapshot", "put", "retain", "cascade", "l0", "done"}
    /\ mpc # "idle" => head > 0
    /\ mpc \in {"compact", "cascade"} => mlvl \in MergedLevels
    /\ mpc = "delete" => /\ doomed # {}
                         /\ after \in {"compact", "snapshot", "cascade", "l0", "done"}
                         /\ after \in {"compact", "cascade"} => mlvl \in MergedLevels
    /\ mpc # "delete" => doomed = {}
    /\ mpc \in {"idle", "compact", "snapshot", "put", "retain"} => floor = 0
    /\ mpc = "delete" /\ after \in {"compact", "snapshot"} => floor = 0
    /\ floor \in Nat

\* The files maintain is deleting are all ones it may delete.
DoomedOK == DoomedIn(doomed, bucket, lost, floor)

\* The floor is a snapshot that is deleted, or about to be.
FloorOK == floor <= lost \/ \E f \in doomed : f.lvl = SNAPSHOT_LEVEL /\ f.max = floor

\* The inductive invariant: the bucket is sound whatever is merged or
\* deleted, and maintain knows what it must know where it stands.
MaintInv == Sound(bucket, head, lost) /\ ShapeOK /\ DoomedOK /\ FloorOK

----------------------------------------------------------------------------

\* What a merge writes.
LEMMA MergedIs ==
    ASSUME Sound(bucket, head, lost), NEW l \in MergedLevels, Sources(l) # {}
    PROVE  LET x == Merged(l, Sources(l))
               S == Sources(l)
           IN /\ x.lvl = l /\ x.lvl \in Levels \ {0, SNAPSHOT_LEVEL} /\ x.gen = gen
              /\ x.min \in Nat /\ x.max \in Nat /\ 1 <= x.min /\ x.min <= x.max /\ x.max <= head
              /\ \A g \in bucket : g.lvl = l => g.max < x.min
              /\ \A g \in bucket : x.lvl = 1 /\ g.lvl = 0 /\ g.min < x.min => \E k \in bucket : k.lvl = 1 /\ k.max >= g.max
              /\ write_ltx_file(bucket, x) = bucket \cup {x}
              /\ x.min = First(S).min /\ x.max = MaxTxid(S)
              /\ \E a \in bucket : a.lvl = l - 1 /\ a.min = x.min
              /\ \E b \in bucket : b.lvl = l - 1 /\ b.max = x.max /\ b.at = x.at
              /\ \A g \in bucket : g.lvl = l - 1 /\ (\A k \in bucket : k.lvl = l => g.min > k.max)
                    => x.min <= g.min /\ g.max <= x.max
<1> USE SnapshotLevelAssumption
<1> DEFINE S == Sources(l)
           x == Merged(l, S)
<1>1. Proper(bucket) /\ head \in Nat /\ \A f \in bucket : f.max <= head
    BY DEF Sound
<1>2. S = SourcesOf(bucket, l)
    BY DEF Sources, SourcesOf, At
<1>3. \A f : f \in S <=> f \in bucket /\ f.lvl = l - 1 /\ \A g \in bucket : g.lvl = l => f.min > g.max
    BY <1>1, <1>2, SourcesAre
<1>4. l \in Nat /\ 1 <= l /\ l < SNAPSHOT_LEVEL /\ l - 1 \in 0..(SNAPSHOT_LEVEL - 1) /\ l \in Levels \ {0, SNAPSHOT_LEVEL}
    BY DEF MergedLevels, Levels
<1>5. /\ x.lvl = l /\ x.min = First(S).min /\ x.max = MaxTxid(S) /\ x.gen = gen /\ x.at = Last(S).at
    BY DEF Merged
<1> HIDE DEF S, x
<1>6. /\ First(S) \in S /\ Last(S) \in S
      /\ \A g \in S : First(S).min <= g.min /\ g.max <= Last(S).max
      /\ MaxTxid(S) = Last(S).max
    <2>1. S \subseteq bucket /\ S # {} /\ \A f \in S : f.lvl = l - 1
        BY <1>3 DEF S
    <2>2. QED BY <1>4, <2>1, RangeOf
<1>7. /\ x.min \in Nat /\ x.max \in Nat /\ 1 <= x.min /\ x.min <= x.max /\ x.max <= head
    BY <1>1, <1>3, <1>5, <1>6 DEF Proper
<1>8. \A g \in bucket : g.lvl = l => g.max < x.min
    BY <1>1, <1>3, <1>5, <1>6 DEF Proper
<1>9. ASSUME NEW g \in bucket, x.lvl = 1, g.lvl = 0, g.min < x.min
      PROVE  \E k \in bucket : k.lvl = 1 /\ k.max >= g.max
    <2>1. g \notin S
        BY <1>1, <1>5, <1>6, <1>7, <1>9 DEF Proper
    <2>2. PICK k \in bucket : k.lvl = 1 /\ ~(g.min > k.max)
        BY <1>3, <1>5, <1>9, <2>1
    <2>3. g.min = g.max
        BY <1>9 DEF Sound
    <2>4. QED BY <1>1, <2>2, <2>3 DEF Proper
<1>10. write_ltx_file(bucket, x) = bucket \cup {x}
    <2>1. \A g \in bucket : ~SameKey(x, g)
        BY <1>1, <1>5, <1>7, <1>8 DEF SameKey, Proper
    <2>2. QED BY <2>1 DEF write_ltx_file
<1>11. \E a \in bucket : a.lvl = l - 1 /\ a.min = x.min
    BY <1>3, <1>5, <1>6
<1>12. \E b \in bucket : b.lvl = l - 1 /\ b.max = x.max /\ b.at = x.at
    BY <1>3, <1>5, <1>6
<1>13. \A g \in bucket : g.lvl = l - 1 /\ (\A k \in bucket : k.lvl = l => g.min > k.max)
          => x.min <= g.min /\ g.max <= x.max
    BY <1>3, <1>5, <1>6
<1>14. QED BY <1>4, <1>5, <1>7, <1>8, <1>9, <1>10, <1>11, <1>12, <1>13 DEF S, x

----------------------------------------------------------------------------
(* What maintain is about to delete *)

\* retain_l0: the level 0 files it takes are in level 1, and the newest stays.
LEMMA L0DeletableDoomed ==
    ASSUME NEW F, NEW h, NEW lo, Sound(F, h, lo), NEW fl
    PROVE  DoomedIn(L0Deletable(F), F, lo, fl)
<1> USE SnapshotLevelAssumption
<1> DEFINE l0     == ltx_files(F, 0, 0)
           l1     == ltx_files(F, 1, 0)
           old(f) == f.max <= MaxTxid(l1) /\ f.max # MaxTxid(l0) /\ f.at <= mnow - L0Retention
           D      == L0Deletable(F)
<1>1. D = {f \in l0 : \A g \in l0 : Before(g, f) \/ g = f => old(g)}
    BY DEF L0Deletable
<1>2. Proper(F) /\ h \in Nat /\ \A f \in F : f.max <= h
    BY DEF Sound
<1>3. \A f : (f \in l0 <=> f \in F /\ f.lvl = 0) /\ (f \in l1 <=> f \in F /\ f.lvl = 1)
    BY <1>2, LevelIs
<1>4. \A f \in F : f.min \in Nat /\ f.max \in Nat /\ f.max >= 1
    BY <1>2 DEF Proper
<1> DEFINE m0 == MaxTxid(l0)
           m1 == MaxTxid(l1)
<1> HIDE DEF l0, l1, D
<1>5. m0 \in Nat /\ (\A f \in l0 : f.max <= m0) /\ (l0 # {} => \E f \in l0 : f.max = m0)
    BY <1>2, <1>3, <1>4, MaxTxidIs
<1>6. m1 \in Nat /\ (l1 = {} => m1 = 0) /\ (l1 # {} => \E f \in l1 : f.max = m1)
    BY Zenon, <1>2, <1>3, <1>4, MaxTxidIs DEF MaxTxid
<1> HIDE DEF m0, m1
<1>7. \A f : old(f) => f.max <= m1 /\ f.max # m0
    BY DEF m0, m1
<1> HIDE DEF old
<1>8. ASSUME NEW f \in D
      PROVE  /\ f \in l0 /\ f.max <= m1 /\ f.max < m0
             /\ \A g \in l0 : Before(g, f) => g \in D
    <2>1. f \in l0 /\ old(f) /\ \A g \in l0 : Before(g, f) \/ g = f => old(g)
        BY <1>1
    <2>2. ASSUME NEW g \in l0, Before(g, f) PROVE g \in D
        <3>1. \A k \in l0 : Before(k, g) => Before(k, f)
            BY <1>3, <1>4, <2>1, <2>2 DEF Before
        <3>2. QED BY <1>1, <2>1, <2>2, <3>1
    <2>3. QED BY <1>3, <1>4, <1>5, <1>7, <2>1, <2>2
<1>9. ASSUME NEW f \in D
      PROVE  /\ \E g \in F \ D : g.lvl = f.lvl /\ Before(f, g) /\ f.max < g.max
             /\ \E k \in F : k.lvl = 1 /\ f.max <= k.max
    <2>1. f \in l0 /\ f \in F /\ f.lvl = 0 /\ f.max <= m1 /\ f.max < m0 /\ f.max >= 1
        BY <1>3, <1>4, <1>8
    <2>2. PICK g \in l0 : g.max = m0
        BY <1>5, <2>1
    <2>3. g \notin D /\ g \in F /\ g.lvl = 0
        BY <1>3, <1>5, <1>8, <2>2
    <2>4. Before(f, g)
        BY <1>4, <2>1, <2>2, <2>3 DEF Before, Sound
    <2>5. PICK k \in l1 : k.max = m1
        BY <1>4, <1>6, <2>1
    <2>6. QED BY <1>3, <2>1, <2>2, <2>3, <2>4, <2>5
<1>10. \A f \in D : f.lvl = 0 /\ f \in F
    BY <1>3, <1>8
<1>11. \A f \in D, g \in F : g.lvl = f.lvl /\ Before(g, f) => g \in D
    BY <1>3, <1>8, <1>10
<1>12. QED BY <1>9, <1>10, <1>11 DEF DoomedIn, MergedLevels, D

\* retain_snapshots: expired snapshots are a front of the listing, the newest
\* stays, and the floor it returns is one of them or 0.
LEMMA ExpiredDoomed ==
    ASSUME Sound(bucket, head, lost), NEW fl
    PROVE  /\ DoomedIn(Expired, bucket, lost, fl)
           /\ \A f \in Expired : f.lvl = SNAPSHOT_LEVEL /\ f.at < mnow - SnapshotRetention
           /\ Floor \in Nat
           /\ Floor = 0 \/ \E f \in Expired : f.max = Floor
           /\ Floor = 0 <=> Expired = {}
<1> USE SnapshotLevelAssumption
<1> DEFINE snaps  == At(SNAPSHOT_LEVEL)
           old(f) == f.at < mnow - SnapshotRetention /\ f.max # MaxTxid(snaps)
           D      == Expired
           m      == MaxTxid(snaps)
<1>1. D = {f \in snaps : \A g \in snaps : Before(g, f) \/ g = f => old(g)}
    BY DEF Expired
<1>2. Proper(bucket) /\ head \in Nat /\ \A f \in bucket : f.max <= head
    BY DEF Sound
<1>3. \A f : f \in snaps <=> f \in bucket /\ f.lvl = SNAPSHOT_LEVEL
    BY <1>2, LevelIs DEF At
<1>4. \A f \in bucket : f.min \in Nat /\ f.max \in Nat /\ f.max >= 1
    BY <1>2 DEF Proper
<1> HIDE DEF snaps, D
<1>5. m \in Nat /\ (\A f \in snaps : f.max <= m) /\ (snaps # {} => \E f \in snaps : f.max = m)
    BY <1>2, <1>3, <1>4, MaxTxidIs
<1>6. \A f \in snaps : f.min = 1
    BY <1>3 DEF Sound
<1>7. \A f : old(f) => f.max # m /\ f.at < mnow - SnapshotRetention
    OBVIOUS
<1> HIDE DEF m, old
<1>8. ASSUME NEW f \in D
      PROVE  /\ f \in snaps /\ f \in bucket /\ f.lvl = SNAPSHOT_LEVEL /\ f.max < m /\ f.at < mnow - SnapshotRetention
             /\ \A g \in snaps : Before(g, f) => g \in D
    <2>1. f \in snaps /\ old(f) /\ \A g \in snaps : Before(g, f) \/ g = f => old(g)
        BY <1>1
    <2>2. ASSUME NEW g \in snaps, Before(g, f) PROVE g \in D
        <3>1. \A k \in snaps : Before(k, g) => Before(k, f)
            BY <1>3, <1>4, <2>1, <2>2 DEF Before
        <3>2. QED BY <1>1, <2>1, <2>2, <3>1
    <2>3. f.max < m
        BY <1>3, <1>4, <1>5, <1>7, <2>1
    <2>4. QED BY <1>3, <1>7, <2>1, <2>2, <2>3
<1>9. ASSUME NEW f \in D
      PROVE  \E g \in bucket \ D : g.lvl = f.lvl /\ Before(f, g) /\ f.max < g.max
    <2>1. PICK g \in snaps : g.max = m
        BY <1>5, <1>8
    <2>2. g \notin D /\ g \in bucket /\ g.lvl = SNAPSHOT_LEVEL
        BY <1>3, <1>5, <1>8, <2>1
    <2>3. Before(f, g)
        BY <1>6, <1>8, <2>1 DEF Before
    <2>4. QED BY <1>8, <2>1, <2>2, <2>3
<1>10. \A f \in D, g \in bucket : g.lvl = f.lvl /\ Before(g, f) => g \in D
    BY <1>3, <1>8
<1>11. DoomedIn(D, bucket, lost, fl)
    BY <1>8, <1>9, <1>10 DEF DoomedIn, MergedLevels
<1>12. /\ Floor \in Nat /\ (D = {} => Floor = 0) /\ (D # {} => \E f \in D : f.max = Floor)
    <2>1. D \subseteq bucket
        BY <1>8
    <2>2. QED BY Zenon, <1>2, <1>4, <2>1, MaxTxidIs DEF Floor, MaxTxid, D
<1>13. QED BY <1>4, <1>8, <1>11, <1>12 DEF D

\* The cascade: what it takes of a level ends below a deleted snapshot, and the
\* last file of the level stays.
LEMMA BelowFloorDoomed ==
    ASSUME Sound(bucket, head, lost), NEW l \in MergedLevels, floor \in Nat, floor <= lost
    PROVE  DoomedIn(BelowFloor(l), bucket, lost, floor)
<1> USE SnapshotLevelAssumption
<1> DEFINE L == At(l)
           z == Last(L)
           D == BelowFloor(l)
<1>1. D = {f \in L : f # z /\ f.max < floor}
    BY DEF BelowFloor
<1>2. Proper(bucket) /\ head \in Nat /\ lost \in Nat /\ (\A f \in bucket : f.max <= head)
    BY DEF Sound
<1>3. \A f : f \in L <=> f \in bucket /\ f.lvl = l
    BY <1>2, LevelIs DEF At
<1>4. \A f \in bucket : f.min \in Nat /\ f.max \in Nat /\ f.min <= f.max
    BY <1>2 DEF Proper
<1>5. l \in 0..(SNAPSHOT_LEVEL - 1) /\ l # 0 /\ l # SNAPSHOT_LEVEL
    BY DEF MergedLevels
<1> HIDE DEF L, D, z
<1>6. L # {} => z \in L /\ \A g \in L : g # z => Before(g, z)
    <2>1. L \subseteq bucket /\ \A f \in L : f.lvl = l
        BY <1>3
    <2>2. QED BY <1>5, <2>1, RangeOf DEF z
<1>7. \A f, g \in L : f # g => f.max < g.min \/ g.max < f.min
    BY <1>3, <1>5 DEF Sound
<1>8. ASSUME NEW f \in D PROVE \E g \in bucket \ D : g.lvl = f.lvl /\ Before(f, g) /\ f.max < g.max
    <2>1. f \in L /\ f # z /\ z \in L /\ Before(f, z) /\ z \notin D
        BY <1>1, <1>6
    <2>2. f.max < z.max
        BY <1>3, <1>4, <1>7, <2>1 DEF Before
    <2>3. QED BY <1>3, <2>1, <2>2
<1>9. ASSUME NEW f \in D, NEW g \in bucket, g.lvl = f.lvl, Before(g, f) PROVE g \in D
    <2>1. f \in L /\ g \in L /\ f # z /\ f.max < floor
        BY <1>1, <1>3, <1>9
    <2>2. f # g
        BY <1>3, <1>4, <1>9, <2>1 DEF Before
    <2>3. g.max < floor
        BY <1>3, <1>4, <1>7, <1>9, <2>1, <2>2 DEF Before
    <2>4. g # z
        <3>1. Before(f, z)
            BY <1>6, <2>1
        <3>2. z \in L
            BY <1>6, <2>1
        <3>3. QED BY <1>3, <1>4, <1>9, <2>1, <3>1, <3>2 DEF Before
    <2>5. QED BY <1>1, <2>1, <2>3, <2>4
<1>10. \A f \in D : f \in bucket /\ f.lvl = l /\ f.max < floor /\ f.max < lost
    BY <1>1, <1>2, <1>3, <1>4
<1>11. QED BY <1>5, <1>8, <1>9, <1>10 DEF DoomedIn, D

----------------------------------------------------------------------------
(* The steps of maintain *)

\* A push of one transaction.
LEMMA PushSound ==
    ASSUME MaintInv, bucket' = Pushed(bucket, 1), head' = head + 1, lost' = lost
    PROVE  Sound(bucket', head', lost')
<1> DEFINE x == [lvl |-> 0, min |-> head + 1, max |-> head + 1, gen |-> gen, at |-> clock]
<1>0. Sound(bucket, head, lost) /\ head \in Nat
    BY DEF MaintInv, Sound
<1>1. bucket' = bucket \cup {x}
    BY <1>0 DEF Pushed
<1>2. x.lvl = 0 /\ x.min = head + 1 /\ x.max = head + 1
    OBVIOUS
<1> HIDE DEF x
<1>3. Sound(bucket \cup {x}, head + 1, lost)
    BY Zenon, <1>0, <1>2, SoundPush
<1>4. QED BY <1>1, <1>3

\* A merge.
LEMMA MergeSound ==
    ASSUME MaintInv, NEW l \in MergedLevels, Sources(l) # {},
           bucket' = write_ltx_file(bucket, Merged(l, Sources(l))), head' = head, lost' = lost
    PROVE  Sound(bucket', head', lost')
<1> DEFINE x == Merged(l, Sources(l))
<1>0. Sound(bucket, head, lost)
    BY DEF MaintInv
<1>1. /\ x.lvl \in Levels \ {0, SNAPSHOT_LEVEL}
      /\ x.min \in Nat /\ x.max \in Nat /\ 1 <= x.min /\ x.min <= x.max /\ x.max <= head
      /\ \A g \in bucket : g.lvl = x.lvl => g.max < x.min
      /\ \A g \in bucket : x.lvl = 1 /\ g.lvl = 0 /\ g.min < x.min => \E k \in bucket : k.lvl = 1 /\ k.max >= g.max
      /\ write_ltx_file(bucket, x) = bucket \cup {x}
    BY <1>0, MergedIs
<1>2. bucket' = bucket \cup {x}
    BY <1>1
<1> HIDE DEF x
<1>3. Sound(bucket \cup {x}, head, lost)
    BY <1>0, <1>1, SoundMerge
<1>4. QED BY <1>2, <1>3

\* A snapshot.
LEMMA PutSound ==
    ASSUME MaintInv, head > 0, head' = head, lost' = lost,
           bucket' = write_ltx_file(bucket, [lvl |-> SNAPSHOT_LEVEL, min |-> 1, max |-> head, gen |-> gen, at |-> clock])
    PROVE  Sound(bucket', head', lost')
<1> DEFINE x == [lvl |-> SNAPSHOT_LEVEL, min |-> 1, max |-> head, gen |-> gen, at |-> clock]
<1>0. Sound(bucket, head, lost)
    BY DEF MaintInv
<1>1. x.lvl = SNAPSHOT_LEVEL /\ x.min = 1 /\ x.max = head
    OBVIOUS
<1>2. bucket' = write_ltx_file(bucket, x)
    OBVIOUS
<1> HIDE DEF x
<1>3. Sound(write_ltx_file(bucket, x), head, lost)
    BY <1>0, <1>1, SoundPut DEF write_ltx_file
<1>4. QED BY <1>2, <1>3

\* The file that goes first is the first of its level, and another one stays.
LEMMA FirstDoomed ==
    ASSUME MaintInv, doomed # {}
    PROVE  LET f == First(doomed)
           IN /\ f \in doomed /\ f \in bucket /\ f.lvl \in Levels
              /\ \A g \in bucket : g.lvl = f.lvl /\ g # f => Before(f, g)
              /\ \E g \in bucket : g \notin doomed /\ g.lvl = f.lvl /\ g # f /\ f.max < g.max
              /\ f.lvl = 0 => \E k \in bucket : k.lvl = 1 /\ f.max <= k.max
              /\ f.lvl \in MergedLevels => f.max < lost /\ f.max < floor
<1> DEFINE f == First(doomed)
<1>0. /\ Proper(bucket) /\ DoomedIn(doomed, bucket, lost, floor)
      /\ \A g \in bucket : g.min \in Nat /\ g.max \in Nat /\ g.lvl \in Levels
    BY DEF MaintInv, Sound, DoomedOK, Proper
<1>1. doomed \subseteq bucket /\ (\A g, k \in doomed : g.lvl = k.lvl)
    BY <1>0 DEF DoomedIn
<1>2. f \in doomed /\ \A g \in doomed \ {f} : Before(f, g)
    <2>1. /\ \A g \in doomed : g.min \in Nat /\ g.max \in Nat
          /\ \A g, k \in doomed : g.min = k.min /\ g.max = k.max => g = k
        BY <1>0, <1>1 DEF Proper, SameKey
    <2>2. QED BY <2>1, FirstIs
<1> HIDE DEF f
<1>3. ASSUME NEW g \in bucket, g.lvl = f.lvl, g # f PROVE Before(f, g)
    <2>1. CASE g \in doomed
        BY <1>2, <1>3, <2>1
    <2>2. CASE g \notin doomed
        <3>1. ~Before(g, f)
            BY <1>0, <1>2, <1>3, <2>2 DEF DoomedIn
        <3>2. f.min # g.min \/ f.max # g.max
            BY <1>0, <1>1, <1>2, <1>3 DEF Proper, SameKey
        <3>3. QED BY <1>0, <1>1, <1>2, <3>1, <3>2 DEF Before
    <2>3. QED BY <2>1, <2>2
<1>4. PICK g \in bucket \ doomed : g.lvl = f.lvl /\ Before(f, g) /\ f.max < g.max
    BY <1>0, <1>2 DEF DoomedIn
<1>5. g # f
    BY <1>2, <1>4
<1>6. /\ f.lvl = 0 => \E k \in bucket : k.lvl = 1 /\ f.max <= k.max
      /\ f.lvl \in MergedLevels => f.max < lost /\ f.max < floor
    BY <1>0, <1>2 DEF DoomedIn
<1>7. QED BY <1>0, <1>1, <1>2, <1>3, <1>4, <1>5, <1>6 DEF f

\* A deletion.
LEMMA DeleteSound ==
    ASSUME MaintInv, doomed # {}, NEW f, f = First(doomed),
           bucket' = bucket \ {f}, head' = head,
           lost' = IF f.lvl = SNAPSHOT_LEVEL /\ f.max > lost THEN f.max ELSE lost
    PROVE  Sound(bucket', head', lost')
<1> USE SnapshotLevelAssumption
<1>0. /\ Sound(bucket, head, lost) /\ Proper(bucket) /\ head \in Nat /\ lost \in Nat
      /\ \A g \in bucket : g.min \in Nat /\ g.max \in Nat /\ g.lvl \in Levels /\ g.max <= head
    BY DEF MaintInv, Sound, Proper
<1>1. /\ f \in bucket /\ f.lvl \in Levels
      /\ \A g \in bucket : g.lvl = f.lvl /\ g # f => Before(f, g)
      /\ f.lvl = 0 => \E k \in bucket : k.lvl = 1 /\ f.max <= k.max
      /\ f.lvl \in MergedLevels => f.max < lost
    BY FirstDoomed
<1>2. PICK y \in bucket : y.lvl = f.lvl /\ y # f /\ f.max < y.max
    BY FirstDoomed
<1>3. CASE f.lvl = 0
    <2>1. PICK k \in bucket : k.lvl = 1 /\ f.max <= k.max
        BY <1>1, <1>3
    <2>2. lost' = lost
        BY <1>3
    <2>3. \A g \in bucket : g.lvl = 0 /\ g # f => f.max < g.max
        BY <1>0, <1>1, <1>3 DEF Before, Sound
    <2>4. f.max < head
        BY <1>0, <1>1, <1>2
    <2>5. Sound(bucket \ {f}, head, lost)
        BY <1>0, <1>1, <1>3, <2>1, <2>3, <2>4, SoundDropL0
    <2>6. QED BY <2>2, <2>5
<1>4. CASE f.lvl = SNAPSHOT_LEVEL
    <2>1. lost' = IF f.max > lost THEN f.max ELSE lost
        BY <1>4
    <2>2. Sound(bucket \ {f}, head, IF f.max > lost THEN f.max ELSE lost)
        BY SMTT(20), SMTT(30), <1>0, <1>1, <1>2, <1>4, SoundDropSnapshot
    <2>3. QED BY <2>1, <2>2
<1>5. CASE f.lvl # 0 /\ f.lvl # SNAPSHOT_LEVEL
    <2>1. f.lvl \in MergedLevels /\ lost' = lost /\ f.max < lost
        BY <1>1, <1>5 DEF Levels, MergedLevels
    <2>2. Sound(bucket \ {f}, head, lost)
        BY <1>0, <1>1, <1>2, <1>5, <2>1, SoundDropMerged
    <2>3. QED BY <2>1, <2>2
<1>6. QED BY <1>3, <1>4, <1>5

\* No files to delete, nothing doomed.
LEMMA NoneDoomed ==
    ASSUME NEW F, NEW lo, NEW fl
    PROVE  DoomedIn({}, F, lo, fl)
BY DEF DoomedIn

\* A new bucket satisfies the invariant.
LEMMA MaintInitial == MaintInit => MaintInv
<1> SUFFICES ASSUME MaintInit PROVE MaintInv
    OBVIOUS
<1>1. Sound(bucket, head, lost)
    BY SoundEmpty DEF MaintInit
<1>2. ShapeOK
    BY DEF MaintInit, ShapeOK
<1>3. DoomedOK /\ FloorOK
    BY NoneDoomed DEF MaintInit, DoomedOK, FloorOK
<1>4. QED BY <1>1, <1>2, <1>3 DEF MaintInv

\* Deleting D and going on at next keeps maintain in shape.
LEMMA DeleteThenShape ==
    ASSUME NEW D, NEW next, DeleteThen(D, next), head' \in Nat, head' > 0, floor' \in Nat,
           next \in {"compact", "snapshot", "cascade", "l0", "done"},
           next \in {"compact", "cascade"} => mlvl' \in MergedLevels,
           next \in {"compact", "snapshot"} => floor' = 0
    PROVE  ShapeOK' /\ doomed' = D
BY DEF DeleteThen, ShapeOK

\* Time passing, a call that starts, ends or is abandoned, and a level or a
\* snapshot that is not due leave the bucket alone.
LEMMA MaintSkips ==
    ASSUME MaintInv,
           Tick \/ MaintainStart \/ Abandon \/ CompactSkip \/ SnapshotSkip \/ MaintainDone \/ UNCHANGED maintVars
    PROVE  MaintInv'
<1> USE SnapshotLevelAssumption
<1>1. bucket' = bucket /\ head' = head /\ gen' = gen /\ lost' = lost
    BY DEF Tick, MaintainStart, Abandon, CompactSkip, SnapshotSkip, MaintainDone, maintVars
<1>2. Sound(bucket, head, lost)'
    BY <1>1 DEF MaintInv
<1>3. CASE Tick
    BY <1>1, <1>2, <1>3 DEF Tick, MaintInv, ShapeOK, DoomedOK, FloorOK
<1>4. CASE MaintainStart
    BY <1>1, <1>2, <1>4 DEF MaintainStart, MaintInv, ShapeOK, DoomedOK, FloorOK, MergedLevels
<1>5. CASE Abandon \/ MaintainDone
    <2>1. DoomedOK' /\ FloorOK' /\ ShapeOK'
        BY <1>1, <1>2, <1>5, NoneDoomed DEF Abandon, MaintainDone, Return, DoomedOK, FloorOK, ShapeOK, Sound
    <2>2. QED BY <1>2, <2>1 DEF MaintInv
<1>6. CASE CompactSkip
    <2>1. DoomedOK' /\ FloorOK'
        BY <1>1, <1>6 DEF CompactSkip, MaintInv, DoomedOK, FloorOK
    <2>2. ShapeOK'
        BY <1>1, <1>6 DEF CompactSkip, MaintInv, ShapeOK, PastLevel
    <2>3. QED BY <1>2, <2>1, <2>2 DEF MaintInv
<1>7. CASE SnapshotSkip
    BY <1>1, <1>2, <1>7 DEF SnapshotSkip, MaintInv, ShapeOK, DoomedOK, FloorOK
<1>8. CASE UNCHANGED maintVars
    BY <1>1, <1>2, <1>8 DEF maintVars, MaintInv, ShapeOK, DoomedOK, FloorOK
<1>9. QED BY <1>3, <1>4, <1>5, <1>6, <1>7, <1>8

\* A push, also the one the snapshot makes first.
LEMMA MaintPushes ==
    ASSUME MaintInv, Push \/ SnapshotSync
    PROVE  MaintInv'
<1> USE SnapshotLevelAssumption
<1>0. head \in Nat /\ doomed = {} /\ doomed' = doomed /\ floor' = floor /\ lost' = lost /\ gen' = gen /\ after' = after
    BY DEF Push, SnapshotSync, MaintInv, ShapeOK, Sound
<1>1. DoomedOK' /\ FloorOK'
    BY <1>0, NoneDoomed DEF MaintInv, DoomedOK, FloorOK
<1>2. CASE bucket' = bucket /\ head' = head
    <2>1. Sound(bucket', head', lost')
        BY <1>0, <1>2 DEF MaintInv
    <2>2. ShapeOK'
        BY <1>0, <1>2 DEF Push, SnapshotSync, MaintInv, ShapeOK
    <2>3. QED BY <1>1, <2>1, <2>2 DEF MaintInv
<1>3. CASE bucket' = Pushed(bucket, 1) /\ head' = head + 1 /\ head < TxidBound
    <2>1. Sound(bucket', head', lost')
        BY <1>0, <1>3, PushSound
    <2>2. ShapeOK'
        BY <1>0, <1>3 DEF Push, SnapshotSync, MaintInv, ShapeOK
    <2>3. QED BY <1>1, <2>1, <2>2 DEF MaintInv
<1>4. CASE Push
    BY <1>3, <1>4 DEF Push
<1>5. CASE SnapshotSync
    <2>1. PICK n \in 0..1 : head + n <= TxidBound /\ bucket' = Pushed(bucket, n) /\ head' = head + n
        BY <1>5 DEF SnapshotSync
    <2>2. CASE n = 0
        <3>1. bucket' = bucket /\ head' = head
            BY <1>0, <2>1, <2>2 DEF Pushed
        <3>2. QED BY <1>2, <3>1
    <2>3. CASE n = 1
        <3>1. head < TxidBound
            BY <1>0, <2>1, <2>3, MaintenanceAssumption
        <3>2. QED BY <1>3, <2>1, <2>3, <3>1
    <2>4. QED BY <2>1, <2>2, <2>3
<1>6. QED BY <1>4, <1>5

\* A wipe.
LEMMA MaintWipes ==
    ASSUME MaintInv, Wipe
    PROVE  MaintInv'
<1>1. Sound(bucket', head', lost')
    BY SoundEmpty DEF Wipe
<1>2. doomed' = {} /\ floor' = 0
    BY DEF Wipe, MaintInv, ShapeOK
<1>3. DoomedOK' /\ FloorOK'
    BY <1>2, NoneDoomed DEF DoomedOK, FloorOK, Wipe
<1>4. ShapeOK'
    BY DEF Wipe, MaintInv, ShapeOK
<1>5. QED BY <1>1, <1>3, <1>4 DEF MaintInv

\* A merge, and the level 0 retention a merge into level 1 ends with.
LEMMA MaintMerges ==
    ASSUME MaintInv, CompactLevel
    PROVE  MaintInv'
<1> USE SnapshotLevelAssumption
<1>0. mlvl \in MergedLevels /\ head \in Nat /\ head > 0 /\ floor = 0 /\ lost \in Nat
    BY DEF CompactLevel, MaintInv, ShapeOK, Sound
<1>k. PICK k \in MergedLevels : k = mlvl
    BY <1>0
<1>1. Sound(bucket', head', lost')
    <2>1. /\ Sources(k) # {} /\ Mergeable(Sources(k))
          /\ bucket' = write_ltx_file(bucket, Merged(k, Sources(k)))
          /\ head' = head /\ gen' = gen /\ lost' = lost
        BY <1>k DEF CompactLevel
    <2>2. QED BY <1>0, <2>1, MergeSound, Zenon
<1> DEFINE D == IF mlvl = 1 THEN L0Deletable(bucket') ELSE {}
<1>2. DoomedIn(D, bucket', lost', floor')
    BY <1>1, L0DeletableDoomed, NoneDoomed
<1>3. DeleteThen(D, PastLevel(mlvl)) /\ mlvl' = mlvl + 1 /\ floor' = floor /\ head' = head /\ lost' = lost
    BY DEF CompactLevel
<1> HIDE DEF D
<1>4. ShapeOK' /\ doomed' = D
    BY <1>0, <1>3, DeleteThenShape DEF PastLevel
<1>5. DoomedOK' /\ FloorOK'
    <2>1. DoomedOK'
        BY <1>2, <1>4, Zenon DEF DoomedOK
    <2>2. FloorOK'
        BY <1>0, <1>3 DEF FloorOK
    <2>3. QED BY <2>1, <2>2
<1>6. QED BY <1>1, <1>4, <1>5 DEF MaintInv

\* A snapshot stored.
LEMMA MaintPuts ==
    ASSUME MaintInv, SnapshotPut
    PROVE  MaintInv'
<1>1. Sound(bucket', head', lost')
    BY PutSound DEF SnapshotPut, MaintInv, ShapeOK
<1>2. doomed' = {} /\ ShapeOK'
    BY DEF SnapshotPut, MaintInv, ShapeOK
<1>3. DoomedOK' /\ FloorOK'
    BY <1>2, NoneDoomed DEF SnapshotPut, MaintInv, ShapeOK, DoomedOK, FloorOK
<1>4. QED BY <1>1, <1>2, <1>3 DEF MaintInv

\* The listings of the three retentions, which choose what to delete.
LEMMA MaintLists ==
    ASSUME MaintInv, RetainSnapshots \/ Cascade \/ L0Retain
    PROVE  MaintInv'
<1> USE SnapshotLevelAssumption
<1>0. /\ bucket' = bucket /\ head' = head /\ gen' = gen /\ lost' = lost /\ head \in Nat /\ head > 0 /\ doomed = {}
      /\ Sound(bucket, head, lost) /\ lost \in Nat
    BY DEF RetainSnapshots, Cascade, L0Retain, MaintInv, ShapeOK, Sound
<1>1. Sound(bucket', head', lost')
    BY <1>0
<1>2. CASE RetainSnapshots
    <2>1. DeleteThen(Expired, IF Floor = 0 THEN "l0" ELSE "cascade") /\ mlvl' = 1 /\ floor' = Floor
        BY <1>2 DEF RetainSnapshots
    <2>2. /\ DoomedIn(Expired, bucket, lost, Floor) /\ Floor \in Nat
          /\ Floor = 0 \/ \E f \in Expired : f.lvl = SNAPSHOT_LEVEL /\ f.max = Floor
        BY <1>0, ExpiredDoomed
    <2>3. ShapeOK' /\ doomed' = Expired
        <3>1. mlvl' \in MergedLevels
            BY <2>1 DEF MergedLevels
        <3>2. QED BY <1>0, <2>1, <2>2, <3>1, DeleteThenShape
    <2>4. DoomedOK' /\ FloorOK'
        BY <1>0, <2>1, <2>2, <2>3 DEF DoomedOK, FloorOK
    <2>5. QED BY <1>1, <2>3, <2>4 DEF MaintInv
<1>3. CASE Cascade
    <2>1. /\ DeleteThen(BelowFloor(mlvl), IF mlvl + 1 \in MergedLevels THEN "cascade" ELSE "l0")
          /\ mlvl' = mlvl + 1 /\ floor' = floor /\ mlvl \in MergedLevels
          /\ floor \in Nat /\ floor <= lost
        BY <1>0, <1>3 DEF Cascade, MaintInv, ShapeOK, FloorOK
    <2>2. DoomedIn(BelowFloor(mlvl), bucket, lost, floor)
        BY <1>0, <2>1, BelowFloorDoomed
    <2>3. ShapeOK' /\ doomed' = BelowFloor(mlvl)
        BY <1>0, <2>1, DeleteThenShape
    <2>4. DoomedOK' /\ FloorOK'
        BY <1>0, <2>1, <2>2, <2>3 DEF DoomedOK, FloorOK
    <2>5. QED BY <1>1, <2>3, <2>4 DEF MaintInv
<1>4. CASE L0Retain
    <2>1. DeleteThen(L0Deletable(bucket), "done") /\ floor' = floor /\ floor \in Nat /\ floor <= lost
        BY <1>0, <1>4 DEF L0Retain, MaintInv, ShapeOK, FloorOK
    <2>2. DoomedIn(L0Deletable(bucket), bucket, lost, floor)
        BY <1>0, L0DeletableDoomed
    <2>3. ShapeOK' /\ doomed' = L0Deletable(bucket)
        BY <1>0, <2>1, DeleteThenShape
    <2>4. DoomedOK' /\ FloorOK'
        BY <1>0, <2>1, <2>2, <2>3 DEF DoomedOK, FloorOK
    <2>5. QED BY <1>1, <2>3, <2>4 DEF MaintInv
<1>5. QED BY SMTT(20), <1>2, <1>3, <1>4

\* One deletion: what is still to be deleted stays deletable, although the
\* ones listed before it are gone.
LEMMA MaintDeletes ==
    ASSUME MaintInv, Delete
    PROVE  MaintInv'
<1> USE SnapshotLevelAssumption
<1> DEFINE f == First(doomed)
<1>0. /\ doomed # {} /\ head \in Nat /\ head > 0 /\ lost \in Nat /\ floor \in Nat
      /\ after \in {"compact", "snapshot", "cascade", "l0", "done"}
      /\ after \in {"compact", "cascade"} => mlvl \in MergedLevels
      /\ after \in {"compact", "snapshot"} => floor = 0
      /\ DoomedIn(doomed, bucket, lost, floor)
      /\ floor <= lost \/ \E g \in doomed : g.lvl = SNAPSHOT_LEVEL /\ g.max = floor
      /\ \A g \in bucket : g.max \in Nat
    BY DEF Delete, MaintInv, ShapeOK, DoomedOK, FloorOK, Sound, Proper
<1>1. /\ bucket' = bucket \ {f} /\ lost' = (IF f.lvl = SNAPSHOT_LEVEL /\ f.max > lost THEN f.max ELSE lost)
      /\ DeleteThen(doomed \ {f}, after) /\ head' = head /\ gen' = gen /\ floor' = floor /\ mlvl' = mlvl
    BY DEF Delete
<1>2. f \in doomed /\ f \in bucket
    BY <1>0, FirstDoomed
<1>3. Sound(bucket', head', lost')
    BY <1>0, <1>1, DeleteSound
<1> HIDE DEF f
<1>4. ShapeOK' /\ doomed' = doomed \ {f}
    BY <1>0, <1>1, DeleteThenShape
<1>5. lost' >= lost /\ lost' \in Nat /\ (f.lvl = SNAPSHOT_LEVEL => f.max <= lost')
    BY <1>0, <1>1, <1>2
<1>6. DoomedOK'
    <2>1. \A g \in doomed' : g \in doomed /\ g # f
        BY <1>4
    <2>2. /\ doomed' \subseteq bucket' /\ (\A g, k \in doomed' : g.lvl = k.lvl)
          /\ \A g \in doomed', k \in bucket' : k.lvl = g.lvl /\ Before(k, g) => k \in doomed'
        BY <1>0, <1>1, <1>4 DEF DoomedIn
    <2>3. ASSUME NEW g \in doomed'
          PROVE  /\ \E k \in bucket' \ doomed' : k.lvl = g.lvl /\ Before(g, k) /\ g.max < k.max
                 /\ g.lvl = 0 => \E k \in bucket' : k.lvl = 1 /\ g.max <= k.max
                 /\ g.lvl \in MergedLevels => g.max < lost' /\ g.max < floor'
        <3>0. g \in doomed /\ g \in bucket /\ g.max \in Nat /\ g.lvl = f.lvl
            BY <1>0, <1>2, <2>1 DEF DoomedIn
        <3>1. PICK k \in bucket \ doomed : k.lvl = g.lvl /\ Before(g, k) /\ g.max < k.max
            BY <1>0, <3>0 DEF DoomedIn
        <3>2. k \in bucket' \ doomed'
            BY <1>1, <1>2, <1>4, <3>1
        <3>3. g.lvl = 0 => \E y \in bucket' : y.lvl = 1 /\ g.max <= y.max
            <4>1. ASSUME g.lvl = 0 PROVE \E y \in bucket' : y.lvl = 1 /\ g.max <= y.max
                <5>1. PICK y \in bucket : y.lvl = 1 /\ g.max <= y.max
                    BY <1>0, <3>0, <4>1 DEF DoomedIn
                <5>2. y \in bucket'
                    <6>0. f.lvl = 0
                        BY <3>0, <4>1
                    <6>1. y # f
                        <7> SUFFICES ASSUME y = f PROVE FALSE
                            OBVIOUS
                        <7>1. y.lvl = 0
                            BY <6>0, Zenon
                        <7>2. QED BY <7>1, <5>1
                    <6>2. QED BY <1>1, <6>1
                <5>3. QED BY <5>1, <5>2
            <4>2. QED BY <4>1
        <3>4. g.lvl \in MergedLevels => g.max < lost' /\ g.max < floor'
            BY <1>0, <1>1, <1>5, <3>0 DEF DoomedIn
        <3>5. QED BY <3>1, <3>2, <3>3, <3>4
    <2>4. QED BY <2>2, <2>3 DEF DoomedOK, DoomedIn
<1>7. FloorOK'
    BY <1>0, <1>1, <1>2, <1>4, <1>5 DEF FloorOK
<1>8. QED BY SMTT(20), SMTT(30), <1>3, <1>4, <1>6, <1>7 DEF MaintInv

\* Every step.
LEMMA MaintSteps ==
    ASSUME MaintInv, [MaintNext]_maintVars
    PROVE  MaintInv'
<1>1. CASE Push \/ SnapshotSync
    BY <1>1, MaintPushes
<1>2. CASE Wipe
    BY <1>2, MaintWipes
<1>3. CASE CompactLevel
    BY <1>3, MaintMerges
<1>4. CASE SnapshotPut
    BY <1>4, MaintPuts
<1>5. CASE RetainSnapshots \/ Cascade \/ L0Retain
    BY <1>5, MaintLists
<1>6. CASE Delete
    BY <1>6, MaintDeletes
<1>7. CASE Tick \/ MaintainStart \/ Abandon \/ CompactSkip \/ SnapshotSkip \/ MaintainDone \/ UNCHANGED maintVars
    BY <1>7, MaintSkips
<1>8. QED BY <1>1, <1>2, <1>3, <1>4, <1>5, <1>6, <1>7 DEF MaintNext, MaintainStep

\* The inductive invariant.
THEOREM MaintInductive == MaintSpec => []MaintInv
<1>1. MaintInit => MaintInv
    BY MaintInitial
<1>2. MaintInv /\ [MaintNext]_maintVars => MaintInv'
    BY MaintSteps
<1>3. QED BY <1>1, <1>2, PTL DEF MaintSpec

\* Wherever maintain stands or was abandoned (upkeep.rs), a restore of the
\* latest state finds a plan, from the first transaction to the last push.
THEOREM AlwaysRestorable == MaintSpec => []Restorable
<1>1. MaintInv => Restorable
    BY SoundRestores DEF MaintInv, Restorable
<1>2. QED BY <1>1, MaintInductive, PTL

\* From every position that is not below a deleted snapshot a file of levels 0
\* to 8 goes on, whatever maintain deleted.
THEOREM ChainAlwaysAboveFloor == MaintSpec => []ChainAboveFloor
<1>1. MaintInv => ChainAboveFloor
    <2> SUFFICES ASSUME MaintInv, NEW p \in lost..(head - 1)
                 PROVE  \E f \in bucket : f.lvl < SNAPSHOT_LEVEL /\ is_contiguous(p, f)
        BY DEF ChainAboveFloor
    <2>1. Sound(bucket, head, lost) /\ head \in Nat /\ lost \in Nat
        BY DEF MaintInv, Sound
    <2>2. p \in Nat /\ p >= lost /\ p < head
        BY <2>1
    <2>3. QED BY <2>1, <2>2, SoundGoesOn
<1>2. QED BY <1>1, MaintInductive, PTL

----------------------------------------------------------------------------
(* Levels without holes *)

\* The files of a level leave no hole.
Unbroken(F, l) ==
    \A f, g \in F : f.lvl = l /\ g.lvl = l /\ g.min > f.max => \E k \in F : k.lvl = l /\ k.min = f.max + 1

\* What a level has, the level below has not lost the sequel of.
Stacked(F, l) ==
    /\ \A f \in F : f.lvl = l => \E g \in F : g.lvl = l - 1 /\ g.max >= f.max
    /\ \A f, g \in F : f.lvl = l /\ g.lvl = l - 1 => g.max <= f.max \/ g.min > f.max
    /\ \A f, g \in F : f.lvl = l /\ g.lvl = l - 1 /\ g.min > f.max /\ (\A k \in F : k.lvl = l => k.max <= f.max)
          => \E k \in F : k.lvl = l - 1 /\ k.min = f.max + 1

\* Every merged level is free of holes and is continued by the level below.
Tidy(F) ==
    /\ \A l \in 1..(SNAPSHOT_LEVEL - 1) : Unbroken(F, l)
    /\ \A l \in 2..(SNAPSHOT_LEVEL - 1) : Stacked(F, l)

\* What Sound says of the files of the levels, in the words of Tidy.
LEMMA SoundLevels ==
    ASSUME NEW F, NEW h, NEW lo, Sound(F, h, lo)
    PROVE  /\ \A f \in F : f.lvl \in Nat /\ f.min \in Nat /\ f.max \in Nat /\ f.min <= f.max
           /\ \A f, g \in F : f.lvl \in MergedLevels /\ g.lvl = f.lvl /\ f # g => f.max < g.min \/ g.max < f.min
<1> USE SnapshotLevelAssumption
<1>1. \A f \in F : f.lvl \in Nat /\ f.min \in Nat /\ f.max \in Nat /\ f.min <= f.max
    BY DEF Sound, Proper, Levels
<1>2. \A f, g \in F : f.lvl \in MergedLevels /\ g.lvl = f.lvl /\ f # g => f.max < g.min \/ g.max < f.min
    BY DEF Sound, MergedLevels
<1>3. QED BY <1>1, <1>2

\* Level 1 is always continued by level 0, which pushes fill without a hole.
LEMMA StackedFirst ==
    ASSUME NEW F, NEW h, NEW lo, Sound(F, h, lo)
    PROVE  Stacked(F, 1)
<1> USE SnapshotLevelAssumption
<1>0. /\ h \in Nat /\ \A f \in F : f.lvl \in Nat /\ f.min \in Nat /\ f.max \in Nat /\ f.min <= f.max /\ 1 <= f.min /\ f.max <= h
      /\ \A f \in F : f.lvl = 0 => f.min = f.max
    BY DEF Sound, Proper, Levels
<1>1. ASSUME NEW f \in F, f.lvl = 1 PROVE \E g \in F : g.lvl = 0 /\ g.max >= f.max
    <2>1. h > 0
        BY <1>0
    <2>2. PICK g \in F : g.lvl = 0 /\ g.max = h
        BY <2>1 DEF Sound
    <2>3. QED BY <1>0, <2>2
<1>2. \A f, g \in F : f.lvl = 1 /\ g.lvl = 0 => g.max <= f.max \/ g.min > f.max
    BY <1>0
<1>3. ASSUME NEW f \in F, NEW g \in F, f.lvl = 1, g.lvl = 0, g.min > f.max, \A k \in F : k.lvl = 1 => k.max <= f.max
      PROVE  \E k \in F : k.lvl = 0 /\ k.min = f.max + 1
    <2>1. f.max + 1 \in 1..h
        BY <1>0, <1>3
    <2>2. ~\E k \in F : k.lvl = 1 /\ k.max >= f.max + 1
        BY <1>0, <1>3
    <2>3. PICK k \in F : k.lvl = 0 /\ k.max = f.max + 1
        BY <2>1, <2>2 DEF Sound
    <2>4. QED BY <1>0, <2>3
<1>4. QED BY SMTT(20), SMTT(30), <1>1, <1>2, <1>3 DEF Stacked

\* Only the merged levels matter.
LEMMA TidySame ==
    ASSUME NEW F, NEW G, Tidy(F), \A f : f.lvl \in MergedLevels => (f \in F <=> f \in G)
    PROVE  Tidy(G)
<1> USE SnapshotLevelAssumption
<1>1. ASSUME NEW l \in 1..(SNAPSHOT_LEVEL - 1) PROVE Unbroken(G, l)
    BY <1>1 DEF Tidy, Unbroken, MergedLevels
<1>2. ASSUME NEW l \in 2..(SNAPSHOT_LEVEL - 1) PROVE Stacked(G, l)
    <2>1. l \in MergedLevels /\ l - 1 \in MergedLevels /\ Stacked(F, l)
        BY DEF Tidy, MergedLevels
    <2>2. QED BY <2>1 DEF Stacked
<1>3. QED BY <1>1, <1>2 DEF Tidy

\* A merge appends to a level what the level below has more.
LEMMA TidyMerge ==
    ASSUME NEW F, NEW h, NEW lo, Sound(F, h, lo), Tidy(F), NEW l \in MergedLevels,
           NEW x, x.lvl = l, x.min \in Nat, x.max \in Nat, x.min <= x.max, \A g \in F : g.lvl = l => g.max < x.min,
           NEW a \in F, a.lvl = l - 1, a.min = x.min, NEW b \in F, b.lvl = l - 1, b.max = x.max,
           \A g \in F : g.lvl = l - 1 /\ (\A k \in F : k.lvl = l => g.min > k.max) => x.min <= g.min /\ g.max <= x.max
    PROVE  Tidy(F \cup {x}) /\ \A g \in F : g.lvl = l - 1 => g.max <= x.max
<1> USE SnapshotLevelAssumption
<1> DEFINE G == F \cup {x}
           S == {g \in F : g.lvl = l - 1 /\ \A k \in F : k.lvl = l => g.min > k.max}
<1>0. /\ \A f \in F : f.lvl \in Nat /\ f.min \in Nat /\ f.max \in Nat /\ f.min <= f.max
      /\ \A f, g \in F : f.lvl \in MergedLevels /\ g.lvl = f.lvl /\ f # g => f.max < g.min \/ g.max < f.min
    BY SoundLevels
<1>1. l \in Nat /\ l >= 1 /\ l <= SNAPSHOT_LEVEL - 1
    BY DEF MergedLevels
<1>2. Unbroken(F, l) /\ Stacked(F, l)
    <2>1. l = 1 => Stacked(F, l)
        BY StackedFirst
    <2>2. l # 1 => l \in 2..(SNAPSHOT_LEVEL - 1)
        BY <1>1
    <2>3. QED BY <1>1, <2>1, <2>2 DEF Tidy
<1>3. \A g \in F : g.lvl = l - 1 => g.max <= x.max
    <2> SUFFICES ASSUME NEW g \in F, g.lvl = l - 1 PROVE g.max <= x.max
        OBVIOUS
    <2>1. CASE g \in S
        BY <2>1
    <2>2. CASE g \notin S
        <3>1. PICK k \in F : k.lvl = l /\ ~(g.min > k.max)
            BY <2>2
        <3>2. g.max <= k.max
            BY <1>0, <1>2, <3>1 DEF Stacked
        <3>3. QED BY <1>0, <3>1, <3>2
    <2>3. QED BY <2>1, <2>2
<1>4. ASSUME NEW f \in F, f.lvl = l PROVE \E k \in G : k.lvl = l /\ k.min = f.max + 1
    <2>1. CASE \E k \in F : k.lvl = l /\ k.max > f.max
        <3>1. PICK k \in F : k.lvl = l /\ k.max > f.max
            BY <2>1
        <3>2. k.min > f.max
            BY <1>0, <1>4, <3>1
        <3>3. QED BY <1>2, <1>4, <3>1, <3>2 DEF Unbroken
    <2>2. CASE \A k \in F : k.lvl = l => k.max <= f.max
        <3>1. a \in F /\ a.lvl = l - 1 /\ a.min > f.max
            BY <1>4
        <3>2. PICK k \in F : k.lvl = l - 1 /\ k.min = f.max + 1
            BY <1>2, <1>4, <2>2, <3>1 DEF Stacked
        <3>3. k \in S
            BY <1>0, <2>2, <3>2
        <3>4. x.min <= f.max + 1 /\ f.max < x.min
            BY <1>4, <3>2, <3>3
        <3>5. x.min = f.max + 1
            BY <1>0, <3>4
        <3>6. QED BY <3>5
    <2>3. QED BY <1>0, <2>1, <2>2
<1>5. ASSUME NEW j \in 1..(SNAPSHOT_LEVEL - 1) PROVE Unbroken(G, j)
    <2>1. CASE j # l
        <3>1. Unbroken(F, j)
            BY DEF Tidy
        <3>2. QED BY <2>1, <3>1 DEF Unbroken
    <2>2. CASE j = l
        <3> SUFFICES ASSUME NEW f \in G, NEW g \in G, f.lvl = l, g.lvl = l, g.min > f.max
                     PROVE  \E k \in G : k.lvl = l /\ k.min = f.max + 1
            BY <2>2 DEF Unbroken
        <3>1. f \in F
            BY <1>0
        <3>2. QED BY <1>4, <3>1
    <2>3. QED BY <2>1, <2>2
<1>6. ASSUME NEW j \in 2..(SNAPSHOT_LEVEL - 1) PROVE Stacked(G, j)
    <2>0. Stacked(F, j)
        BY DEF Tidy
    <2>1. CASE j # l /\ j - 1 # l
        BY SMTT(20), SMTT(30), <2>0, <2>1 DEF Stacked
    <2>2. CASE j = l
        <3>1. ASSUME NEW f \in G, f.lvl = l PROVE \E g \in G : g.lvl = l - 1 /\ g.max >= f.max
            <4>1. CASE f = x
                <5>1. b \in F /\ b.lvl = l - 1 /\ b.max >= f.max
                    BY <4>1
                <5>2. QED BY <5>1
            <4>2. CASE f \in F
                BY <1>2, <3>1, <4>2 DEF Stacked
            <4>3. QED BY <4>1, <4>2
        <3>2. ASSUME NEW f \in G, NEW g \in G, f.lvl = l, g.lvl = l - 1 PROVE g.max <= f.max \/ g.min > f.max
            <4>1. g \in F
                BY <1>1, <3>2
            <4>2. QED BY <1>2, <1>3, <3>2, <4>1 DEF Stacked
        <3>3. ASSUME NEW f \in G, NEW g \in G, f.lvl = l, g.lvl = l - 1, g.min > f.max, \A k \in G : k.lvl = l => k.max <= f.max
              PROVE  FALSE
            <4>1. g \in F /\ g.max <= x.max /\ g.min <= g.max
                BY <1>0, <1>1, <1>3, <3>3
            <4>2. f = x
                BY <1>0, <3>3
            <4>3. QED BY SMTT(20), SMTT(30), <1>0, <3>3, <4>1, <4>2
        <3>4. QED BY SMTT(20), SMTT(30), <2>2, <3>1, <3>2, <3>3 DEF Stacked
    <2>3. CASE j - 1 = l
        <3>0. j = l + 1
            BY SMTT(20), SMTT(30), <1>1, <2>3
        <3>u. /\ \A f \in F : f.lvl = j => \E g \in F : g.lvl = l /\ g.max >= f.max
              /\ \A f, g \in F : f.lvl = j /\ g.lvl = l => g.max <= f.max \/ g.min > f.max
              /\ \A f, g \in F : f.lvl = j /\ g.lvl = l /\ g.min > f.max /\ (\A k \in F : k.lvl = j => k.max <= f.max)
                    => \E k \in F : k.lvl = l /\ k.min = f.max + 1
            BY <2>0, <2>3 DEF Stacked
        <3>1. ASSUME NEW f \in G, f.lvl = j PROVE f \in F /\ \E g \in F : g.lvl = l /\ g.max >= f.max
            <4>1. f \in F
                BY <1>1, <3>0, <3>1
            <4>2. QED BY <3>u, <3>1, <4>1
        <3>2. ASSUME NEW f \in G, NEW g \in G, f.lvl = j, g.lvl = l PROVE g.max <= f.max \/ g.min > f.max
            <4>1. CASE g \in F
                <5>1. f \in F
                    BY <3>1, <3>2
                <5>2. QED BY <3>u, <3>2, <4>1, <5>1
            <4>2. CASE g = x
                BY <1>0, <3>1, <3>2, <4>2
            <4>3. QED BY <4>1, <4>2
        <3>3. ASSUME NEW f \in G, NEW g \in G, f.lvl = j, g.lvl = l, g.min > f.max, \A k \in G : k.lvl = j => k.max <= f.max
              PROVE  \E k \in G : k.lvl = l /\ k.min = f.max + 1
            <4>1. f \in F
                BY <3>1, <3>3
            <4>2. PICK k \in F : k.lvl = l /\ k.max >= f.max
                BY <3>1, <3>3
            <4>3. CASE k.min > f.max
                <5>1. \A z \in F : z.lvl = j => z.max <= f.max
                    BY <3>3
                <5>2. PICK z \in F : z.lvl = l /\ z.min = f.max + 1
                    BY SMTT(20), SMTT(30), <3>u, <3>3, <4>1, <4>2, <4>3, <5>1
                <5>3. QED BY <5>2
            <4>4. CASE ~(k.min > f.max)
                <5>1. k.max = f.max
                    BY SMTT(20), SMTT(30), <1>0, <3>2, <3>3, <4>1, <4>2, <4>4
                <5>2. QED BY SMTT(20), SMTT(30), <1>4, <4>2, <5>1
            <4>5. QED BY <4>3, <4>4
        <3>4. QED BY <2>3, <3>1, <3>2, <3>3 DEF Stacked
    <2>4. QED BY <2>1, <2>2, <2>3
<1>7. QED BY Zenon, <1>3, <1>5, <1>6 DEF Tidy

\* Deleting the first of several files of a level leaves no hole when the
\* level above has what it holds.
LEMMA TidyDrop ==
    ASSUME NEW F, NEW h, NEW lo, Sound(F, h, lo), Tidy(F), NEW l \in MergedLevels, NEW x \in F, x.lvl = l,
           \A g \in F : g.lvl = l /\ g # x => Before(x, g),
           NEW y \in F, y.lvl = l, y # x,
           \A f \in F : f.lvl = l + 1 /\ l + 1 \in MergedLevels => \E g \in F : g.lvl = l + 1 /\ x.max < g.max
    PROVE  Tidy(F \ {x})
<1> USE SnapshotLevelAssumption
<1> DEFINE G == F \ {x}
<1>0. /\ \A f \in F : f.lvl \in Nat /\ f.min \in Nat /\ f.max \in Nat /\ f.min <= f.max
      /\ \A f, g \in F : f.lvl \in MergedLevels /\ g.lvl = f.lvl /\ f # g => f.max < g.min \/ g.max < f.min
    BY SoundLevels
<1>1. l \in Nat /\ l >= 1 /\ l <= SNAPSHOT_LEVEL - 1
    BY DEF MergedLevels
<1>2. \A g \in F : g.lvl = l /\ g # x => x.max < g.min
    BY <1>0 DEF Before
<1>3. ASSUME NEW j \in 1..(SNAPSHOT_LEVEL - 1) PROVE Unbroken(G, j)
    <2>0. Unbroken(F, j)
        BY DEF Tidy
    <2>1. CASE j # l
        BY SMTT(20), SMTT(30), <2>0, <2>1 DEF Unbroken
    <2>2. CASE j = l
        BY <1>0, <1>2, <2>0, <2>2 DEF Unbroken
    <2>3. QED BY <2>1, <2>2
<1>4. ASSUME NEW j \in 2..(SNAPSHOT_LEVEL - 1) PROVE Stacked(G, j)
    <2>0. Stacked(F, j)
        BY DEF Tidy
    <2>1. CASE j # l /\ j - 1 # l
        BY SMTT(20), SMTT(30), <2>0, <2>1 DEF Stacked
    <2>2. CASE j = l
        <3>1. \A f \in G : f.lvl = l => \E g \in G : g.lvl = l - 1 /\ g.max >= f.max
            BY <1>1, <2>0, <2>2 DEF Stacked
        <3>2. \A f, g \in G : f.lvl = l /\ g.lvl = l - 1 => g.max <= f.max \/ g.min > f.max
            BY <1>1, <2>0, <2>2 DEF Stacked
        <3>3. ASSUME NEW f \in G, NEW g \in G, f.lvl = l, g.lvl = l - 1, g.min > f.max, \A k \in G : k.lvl = l => k.max <= f.max
              PROVE  \E k \in G : k.lvl = l - 1 /\ k.min = f.max + 1
            <4>1. x.max <= f.max
                BY <1>0, <1>2, <3>3
            <4>2. \A k \in F : k.lvl = l => k.max <= f.max
                BY SMTT(20), <3>3, <4>1
            <4>3. PICK k \in F : k.lvl = l - 1 /\ k.min = f.max + 1
                BY <2>0, <2>2, <3>3, <4>2 DEF Stacked
            <4>4. k # x
                BY SMTT(20), SMTT(30), <1>1, <4>3
            <4>5. QED BY <4>3, <4>4
        <3>4. QED BY <2>2, <3>1, <3>2, <3>3 DEF Stacked
    <2>3. CASE j - 1 = l
        <3>0. j = l + 1 /\ j \in MergedLevels
            BY SMTT(20), <1>1, <2>3 DEF MergedLevels
        <3>u. /\ \A f \in F : f.lvl = j => \E g \in F : g.lvl = l /\ g.max >= f.max
              /\ \A f, g \in F : f.lvl = j /\ g.lvl = l => g.max <= f.max \/ g.min > f.max
              /\ \A f, g \in F : f.lvl = j /\ g.lvl = l /\ g.min > f.max /\ (\A k \in F : k.lvl = j => k.max <= f.max)
                    => \E k \in F : k.lvl = l /\ k.min = f.max + 1
            BY <2>0, <2>3 DEF Stacked
        <3>1. ASSUME NEW f \in G, f.lvl = j PROVE \E g \in G : g.lvl = l /\ g.max >= f.max
            <4>1. PICK g \in F : g.lvl = l /\ g.max >= f.max
                BY <3>u, <3>1
            <4>2. CASE g = x
                <5>1. y \in G /\ y.max >= f.max
                    BY SMTT(20), SMTT(30), <1>0, <1>2, <4>1, <4>2
                <5>2. QED BY <5>1
            <4>3. CASE g # x
                BY <4>1, <4>3
            <4>4. QED BY <4>2, <4>3
        <3>2. \A f, g \in G : f.lvl = j /\ g.lvl = l => g.max <= f.max \/ g.min > f.max
            BY <3>u
        <3>3. ASSUME NEW f \in G, NEW g \in G, f.lvl = j, g.lvl = l, g.min > f.max, \A k \in G : k.lvl = j => k.max <= f.max
              PROVE  \E k \in G : k.lvl = l /\ k.min = f.max + 1
            <4>1. \A k \in F : k.lvl = j => k.max <= f.max
                BY <1>1, <3>0, <3>3
            <4>2. PICK k \in F : k.lvl = l /\ k.min = f.max + 1
                BY <3>u, <3>3, <4>1
            <4>3. PICK z \in F : z.lvl = j /\ x.max < z.max
                BY <3>0, <3>3
            <4>4. x.max < f.max
                BY <1>0, <4>1, <4>3
            <4>5. k # x
                BY <1>0, <4>2, <4>4
            <4>6. QED BY <4>2, <4>5
        <3>4. QED BY <2>3, <3>1, <3>2, <3>3 DEF Stacked
    <2>4. QED BY <2>1, <2>2, <2>3
<1>5. QED BY SMTT(20), SMTT(30), <1>3, <1>4 DEF Tidy

----------------------------------------------------------------------------
(* No level gets a hole *)

\* A file is as old as the last transaction in it, a snapshot not older than
\* anything in it.
TimesOK ==
    /\ clock \in Nat /\ mnow \in Nat /\ mnow <= clock
    /\ \A f \in bucket : f.at \in Nat /\ f.at <= clock
    /\ \A f, s \in bucket : f.lvl < SNAPSHOT_LEVEL /\ s.lvl = SNAPSHOT_LEVEL /\ f.max <= s.max => f.at <= s.at

\* A level holds everything that is in a snapshot of F that a run begun at now
\* finds old enough to go.
CaughtUp(F, now, l) ==
    \A s, f \in F : s.lvl = SNAPSHOT_LEVEL /\ s.at < now - SnapshotRetention /\ f.lvl = l
        => \E g \in F : g.lvl = l /\ s.max <= g.max

\* So it does, once maintain is past it.
PastOK ==
    /\ mpc \in {"compact", "snapshot", "put", "retain"} \/ (mpc = "delete" /\ after \in {"compact", "snapshot"})
         => \A l \in MergedLevels : l < mlvl => CaughtUp(bucket, mnow, l)
    /\ mpc \in {"snapshot", "put", "retain"} \/ (mpc = "delete" /\ after = "snapshot") => mlvl = SNAPSHOT_LEVEL

\* What the floor was taken from is in every level.
FloorLow ==
    \A l \in MergedLevels, f \in bucket : floor > 0 /\ f.lvl = l => \E g \in bucket : g.lvl = l /\ floor <= g.max

\* Added to MaintInv, this is inductive when no level waits longer than
\* snapshots are kept.
TidyInv == Tidy(bucket) /\ TimesOK /\ PastOK /\ FloorLow

\* A level that leaves no hole is a row of files.
LEMMA TidyContiguous ==
    ASSUME Sound(bucket, head, lost), Tidy(bucket)
    PROVE  LevelsContiguous
<1> USE SnapshotLevelAssumption
<1> SUFFICES ASSUME NEW l \in MergedLevels, NEW f \in At(l), {g \in At(l) : Before(g, f)} # {}
             PROVE  f.min = Last({g \in At(l) : Before(g, f)}).max + 1
    BY DEF LevelsContiguous
<1> DEFINE E == {g \in At(l) : Before(g, f)}
           e == Last(E)
<1>0. /\ \A k \in bucket : k.lvl \in Nat /\ k.min \in Nat /\ k.max \in Nat /\ k.min <= k.max
      /\ \A k, g \in bucket : k.lvl \in MergedLevels /\ g.lvl = k.lvl /\ k # g => k.max < g.min \/ g.max < k.min
    BY SoundLevels
<1>1. \A g : g \in At(l) <=> g \in bucket /\ g.lvl = l
    BY LevelIs DEF At, Sound
<1>2. e \in E /\ \A g \in E : g # e => Before(g, e)
    <2>1. E \subseteq bucket /\ (\A g \in E : g.lvl = l) /\ l \in 0..(SNAPSHOT_LEVEL - 1)
        BY <1>1 DEF MergedLevels
    <2> HIDE DEF E
    <2>2. E # {}
        BY DEF E
    <2>3. QED BY <2>1, <2>2, RangeOf
<1>3. f \in bucket /\ f.lvl = l /\ (\A g : g \in E <=> g \in bucket /\ g.lvl = l /\ Before(g, f))
    BY <1>1
<1> HIDE DEF e, E
<1>4. e \in bucket /\ e.lvl = l /\ e.max < f.min
    BY SMTT(20), SMTT(30), <1>0, <1>2, <1>3 DEF Before
<1>5. PICK k \in bucket : k.lvl = l /\ k.min = e.max + 1
    BY <1>3, <1>4 DEF Tidy, Unbroken, MergedLevels
<1>6. k = f
    <2> SUFFICES ASSUME k # f PROVE FALSE
        OBVIOUS
    <2>1. k.min < f.min
        BY SMTT(20), SMTT(30), <1>0, <1>3, <1>4, <1>5
    <2>2. k \in E /\ k # e
        BY SMTT(20), SMTT(30), <1>0, <1>3, <1>4, <1>5, <2>1 DEF Before
    <2>3. QED BY <1>0, <1>2, <1>4, <1>5, <2>2 DEF Before
<1>7. QED BY <1>5, <1>6 DEF e, E

\* No level waits longer for its merge than snapshots are kept.
IntervalsFit == \A l \in MergedLevels : LevelInterval[l] <= SnapshotRetention

\* A level that reaches as far as the level below has what that has.
LEMMA CaughtUpTopped ==
    ASSUME NEW F, NEW h, NEW lo, Sound(F, h, lo), NEW now, NEW l \in MergedLevels,
           l # 1 => CaughtUp(F, now, l - 1),
           NEW z \in F, z.lvl = l, \A g \in F : g.lvl = l - 1 => g.max <= z.max, NEW y \in F, y.lvl = l - 1
    PROVE  CaughtUp(F, now, l)
<1> USE SnapshotLevelAssumption
<1> SUFFICES ASSUME NEW s \in F, s.lvl = SNAPSHOT_LEVEL, s.at < now - SnapshotRetention
             PROVE  s.max <= z.max
    BY SMTT(20), SMTT(30) DEF CaughtUp
<1>0. h \in Nat /\ \A f \in F : f.max \in Nat /\ f.max <= h /\ 1 <= f.max
    BY DEF Sound, Proper
<1>1. PICK g \in F : g.lvl = l - 1 /\ s.max <= g.max
    <2>1. CASE l = 1
        <3>1. h > 0
            BY SMTT(20), SMTT(30), <1>0
        <3>2. PICK g \in F : g.lvl = 0 /\ g.max = h
            BY <3>1 DEF Sound
        <3>3. g.lvl = l - 1
            BY <2>1, <3>2
        <3>4. QED BY <1>0, <3>2, <3>3
    <2>2. CASE l # 1
        BY <2>2 DEF CaughtUp
    <2>3. QED BY <2>1, <2>2
<1>2. QED BY <1>0, <1>1

\* A level whose newest file is younger than the snapshots that go has it too.
LEMMA CaughtUpFresh ==
    ASSUME NEW F, NEW h, NEW lo, Sound(F, h, lo), NEW now \in Nat, NEW l \in MergedLevels,
           \A f \in F : f.at \in Nat,
           \A f, s \in F : f.lvl < SNAPSHOT_LEVEL /\ s.lvl = SNAPSHOT_LEVEL /\ f.max <= s.max => f.at <= s.at,
           NEW i \in Nat, i <= SnapshotRetention, NEW z \in F, z.lvl = l, ~(now - z.at >= i)
    PROVE  CaughtUp(F, now, l)
<1> USE SnapshotLevelAssumption
<1> SUFFICES ASSUME NEW s \in F, s.lvl = SNAPSHOT_LEVEL, s.at < now - SnapshotRetention
             PROVE  s.max <= z.max
    BY SMTT(20), SMTT(30) DEF CaughtUp
<1>1. z.max \in Nat /\ s.max \in Nat /\ z.lvl < SNAPSHOT_LEVEL
    BY DEF Sound, Proper, MergedLevels
<1>2. SnapshotRetention \in Nat
    BY MaintenanceAssumption
<1>3. s.at < z.at
    BY <1>2
<1>4. ~(z.max <= s.max)
    BY <1>1, <1>3
<1>5. QED BY <1>1, <1>4

\* Steps that do not touch the merged levels, and put no old snapshot.
LEMMA CaughtUpSame ==
    ASSUME NEW F, NEW G, NEW now \in Nat, NEW l \in MergedLevels, CaughtUp(F, now, l),
           \A f : f.lvl = l => (f \in F <=> f \in G),
           \A s \in G : s.lvl = SNAPSHOT_LEVEL => s \in F \/ (s.at \in Nat /\ s.at >= now)
    PROVE  CaughtUp(G, now, l)
<1> SUFFICES ASSUME NEW s \in G, NEW f \in G, s.lvl = SNAPSHOT_LEVEL, s.at < now - SnapshotRetention, f.lvl = l
             PROVE  \E g \in G : g.lvl = l /\ s.max <= g.max
    BY DEF CaughtUp
<1>1. SnapshotRetention \in Nat
    BY MaintenanceAssumption
<1>2. s \in F
    BY <1>1
<1>3. f \in F
    OBVIOUS
<1>4. PICK g \in F : g.lvl = l /\ s.max <= g.max
    BY <1>2, <1>3 DEF CaughtUp
<1>5. QED BY <1>4

\* A new bucket has no holes.
LEMMA TidyInitial == MaintInit => TidyInv
<1> USE SnapshotLevelAssumption
<1> SUFFICES ASSUME MaintInit PROVE TidyInv
    OBVIOUS
<1>1. Tidy(bucket)
    BY DEF MaintInit, Tidy, Unbroken, Stacked
<1>2. TimesOK /\ PastOK /\ FloorLow
    BY DEF MaintInit, TimesOK, PastOK, FloorLow
<1>3. QED BY <1>1, <1>2 DEF TidyInv

\* A step that leaves the merged levels alone keeps what TidyInv says of them.
LEMMA TidyKept ==
    ASSUME TidyInv, \A f : f.lvl \in MergedLevels => (f \in bucket <=> f \in bucket'),
           floor' = floor \/ floor' = 0
    PROVE  Tidy(bucket)' /\ FloorLow'
<1>1. Tidy(bucket')
    BY TidySame DEF TidyInv
<1>2. FloorLow'
    <2> SUFFICES ASSUME NEW l \in MergedLevels, NEW f \in bucket', floor' > 0, f.lvl = l
                 PROVE  \E g \in bucket' : g.lvl = l /\ floor' <= g.max
        BY DEF FloorLow
    <2>1. floor' = floor /\ f \in bucket
        OBVIOUS
    <2>2. PICK g \in bucket : g.lvl = l /\ floor <= g.max
        BY <2>1 DEF TidyInv, FloorLow
    <2>3. QED BY <2>1, <2>2
<1>3. QED BY <1>1, <1>2

\* Steps that change no file.
LEMMA TidySkips ==
    ASSUME MaintInv, TidyInv,
           Tick \/ MaintainStart \/ Abandon \/ SnapshotSkip \/ Cascade \/ L0Retain \/ MaintainDone \/ UNCHANGED maintVars
    PROVE  TidyInv'
<1> USE SnapshotLevelAssumption, MaintenanceAssumption
<1>1. bucket' = bucket /\ (floor' = floor \/ floor' = 0)
    BY DEF Tick, MaintainStart, Abandon, SnapshotSkip, Cascade, L0Retain, MaintainDone, Return, DeleteThen, maintVars
<1>2. Tidy(bucket)' /\ FloorLow'
    BY <1>1, TidyKept
<1>3. TimesOK'
    <2>1. clock' \in Nat /\ clock' >= clock /\ mnow' \in Nat /\ mnow' <= clock'
        BY DEF Tick, MaintainStart, Abandon, SnapshotSkip, Cascade, L0Retain, MaintainDone, Return, DeleteThen, maintVars, TidyInv, TimesOK
    <2>2. QED BY SMTT(20), SMTT(30), <1>1, <2>1 DEF TidyInv, TimesOK
<1>4. PastOK'
    <2>1. CASE MaintainStart
        BY SMTT(20), SMTT(30), <2>1 DEF MaintainStart, PastOK, MergedLevels
    <2>2. CASE Abandon \/ MaintainDone
        BY SMTT(20), SMTT(30), <2>2 DEF Abandon, MaintainDone, Return, PastOK
    <2>3. CASE Cascade \/ L0Retain
        BY SMTT(20), SMTT(30), <2>3 DEF Cascade, L0Retain, DeleteThen, PastOK
    <2>4. CASE Tick \/ SnapshotSkip \/ UNCHANGED maintVars
        BY <1>1, <2>4 DEF Tick, SnapshotSkip, maintVars, TidyInv, PastOK
    <2>5. QED BY SMTT(20), SMTT(30), <2>1, <2>2, <2>3, <2>4
<1>5. QED BY ZenonT(30), <1>2, <1>3, <1>4 DEF TidyInv

\* A wipe.
LEMMA TidyWipes ==
    ASSUME MaintInv, TidyInv, Wipe
    PROVE  TidyInv'
<1> USE SnapshotLevelAssumption
<1>1. Tidy(bucket)'
    BY DEF Wipe, Tidy, Unbroken, Stacked
<1>2. TimesOK' /\ FloorLow'
    BY DEF Wipe, TidyInv, TimesOK, FloorLow
<1>3. PastOK'
    BY DEF Wipe, PastOK
<1>4. QED BY SMTT(20), SMTT(30), <1>1, <1>2, <1>3 DEF TidyInv

\* Pushes and snapshots.
LEMMA TidyPushes ==
    ASSUME MaintInv, TidyInv, Push \/ SnapshotSync \/ SnapshotPut
    PROVE  TidyInv'
<1> USE SnapshotLevelAssumption, MaintenanceAssumption
<1>0. /\ head \in Nat /\ clock \in Nat /\ mnow \in Nat /\ mnow <= clock
      /\ clock' = clock /\ mnow' = mnow /\ mlvl' = mlvl /\ floor' = floor /\ after' = after
      /\ \A f \in bucket : f.lvl \in Nat /\ f.max \in Nat /\ f.max <= head /\ f.at \in Nat /\ f.at <= clock
    BY DEF Push, SnapshotSync, SnapshotPut, MaintInv, Sound, Proper, Levels, TidyInv, TimesOK
<1>1. ASSUME NEW f \in bucket'
      PROVE  \/ f \in bucket
             \/ f.lvl = 0 /\ f.max \in Nat /\ f.max > head /\ f.at = clock
             \/ f.lvl = SNAPSHOT_LEVEL /\ f.at = clock
    <2>1. CASE Push \/ SnapshotSync
        <3>1. PICK n \in 0..1 : bucket' = Pushed(bucket, n)
            BY <2>1 DEF Push, SnapshotSync
        <3>2. CASE f \notin bucket
            <4>1. PICK t \in (head + 1)..(head + n) : f = [lvl |-> 0, min |-> t, max |-> t, gen |-> gen, at |-> clock]
                BY <3>1, <3>2 DEF Pushed
            <4>2. f.lvl = 0 /\ f.max = t /\ f.at = clock
                BY Zenon, <4>1
            <4>3. t \in Nat /\ t > head
                BY <1>0
            <4>4. QED BY SMTT(20), SMTT(30), <4>2, <4>3
        <3>3. QED BY <3>2
    <2>2. CASE SnapshotPut
        BY SMTT(20), SMTT(30), <2>2 DEF SnapshotPut, write_ltx_file
    <2>3. QED BY <2>1, <2>2
<1>2. ASSUME NEW f \in bucket, f.lvl # SNAPSHOT_LEVEL PROVE f \in bucket'
    BY <1>2 DEF Push, SnapshotSync, SnapshotPut, Pushed, write_ltx_file, SameKey
<1>3. ASSUME NEW f, f.lvl \in MergedLevels PROVE f \in bucket <=> f \in bucket'
    BY SMTT(20), SMTT(30), <1>1, <1>2, <1>3 DEF MergedLevels
<1>4. Tidy(bucket)' /\ FloorLow'
    BY <1>0, <1>3, TidyKept
<1>5. TimesOK'
    <2>1. clock' \in Nat /\ mnow' \in Nat /\ mnow' <= clock' /\ \A f \in bucket' : f.at \in Nat /\ f.at <= clock'
        BY <1>0, <1>1
    <2>2. ASSUME NEW f \in bucket', NEW s \in bucket', f.lvl < SNAPSHOT_LEVEL, s.lvl = SNAPSHOT_LEVEL, f.max <= s.max
          PROVE  f.at <= s.at
        <3>1. CASE s \in bucket
            <4>1. f \in bucket
                BY SMTT(20), <1>0, <1>1, <2>2, <3>1
            <4>2. QED BY <2>2, <3>1, <4>1 DEF TidyInv, TimesOK
        <3>2. CASE s \notin bucket
            BY <1>0, <1>1, <2>1, <2>2, <3>2
        <3>3. QED BY <3>1, <3>2
    <2>3. QED BY <2>1, <2>2 DEF TimesOK
<1>6. PastOK'
    <2>1. CASE Push
        BY <2>1 DEF Push, PastOK
    <2>2. CASE SnapshotSync \/ SnapshotPut
        <3>1. mlvl' = SNAPSHOT_LEVEL /\ mpc' \in {"put", "retain"} /\ \A l \in MergedLevels : l < mlvl => CaughtUp(bucket, mnow, l)
            BY <1>0, <2>2 DEF SnapshotSync, SnapshotPut, TidyInv, PastOK
        <3>2. ASSUME NEW l \in MergedLevels, l < mlvl' PROVE CaughtUp(bucket', mnow', l)
            <4>1. CaughtUp(bucket, mnow, l)
                BY <1>0, <3>1, <3>2
            <4>2. \A f : f.lvl = l => (f \in bucket <=> f \in bucket')
                BY <1>3
            <4>3. \A s \in bucket' : s.lvl = SNAPSHOT_LEVEL => s \in bucket \/ (s.at \in Nat /\ s.at >= mnow)
                BY SMTT(20), SMTT(30), <1>0, <1>1
            <4>4. CaughtUp(bucket', mnow, l)
                BY <1>0, <4>1, <4>2, <4>3, CaughtUpSame
            <4>5. QED BY <1>0, <4>4
        <3>3. QED BY SMTT(20), SMTT(30), <3>1, <3>2 DEF PastOK
    <2>3. QED BY <2>1, <2>2
<1>7. QED BY ZenonT(30), <1>4, <1>5, <1>6 DEF TidyInv

\* The next place after a level.
LEMMA PastLevelIs ==
    ASSUME NEW l \in MergedLevels
    PROVE  PastLevel(l) = "compact" \/ (PastLevel(l) = "snapshot" /\ l + 1 = SNAPSHOT_LEVEL)
BY SnapshotLevelAssumption DEF PastLevel, MergedLevels

\* A level that is not due: its newest file is younger than its interval, so no
\* snapshot that is old enough to go is newer.
LEMMA TidyCompactSkips ==
    ASSUME MaintInv, TidyInv, IntervalsFit, CompactSkip
    PROVE  TidyInv'
<1> USE SnapshotLevelAssumption
<1>0. /\ bucket' = bucket /\ clock' = clock /\ mnow' = mnow /\ mlvl' = mlvl + 1 /\ floor' = floor
      /\ mpc' = PastLevel(mlvl) /\ mpc = "compact" /\ mlvl \in MergedLevels
      /\ ~Due(mlvl, LevelInterval[mlvl]) \/ Sources(mlvl) = {}
      /\ Sound(bucket, head, lost) /\ mnow \in Nat /\ Tidy(bucket)
    BY DEF CompactSkip, MaintInv, ShapeOK, TidyInv, TimesOK
<1>1. PICK l \in MergedLevels : l = mlvl
    BY <1>0
<1>2. Proper(bucket) /\ head \in Nat /\ \A f \in bucket : f.max <= head
    BY <1>0 DEF Sound
<1>3. Tidy(bucket)' /\ FloorLow' /\ TimesOK'
    BY <1>0, TidyKept DEF TidyInv, TimesOK
<1>4. \A j \in MergedLevels : j < l => CaughtUp(bucket, mnow, j)
    BY <1>0, <1>1 DEF TidyInv, PastOK
<1>5. CaughtUp(bucket, mnow, l)
    <2>1. CASE \A f \in bucket : f.lvl # l
        BY <2>1 DEF CaughtUp
    <2>2. CASE \E f \in bucket : f.lvl = l
        <3> DEFINE z == max_ltx_file_info(bucket, l)
        <3>1. ltx_files(bucket, l, 0) # {}
            BY <1>2, <2>2, LevelIs
        <3>2. z \in bucket /\ z.lvl = l /\ \A g \in bucket : g.lvl = l => g.max <= z.max
            BY SMTT(20), SMTT(30), <1>2, <3>1, NewestIs
        <3>3. CASE ~Due(l, LevelInterval[l])
            <4>1. ~(mnow - z.at >= LevelInterval[l])
                BY <3>3 DEF Due
            <4>2. LevelInterval[l] \in Nat /\ LevelInterval[l] <= SnapshotRetention
                BY MaintenanceAssumption DEF IntervalsFit
            <4> HIDE DEF z
            <4>3. QED BY SMTT(20), <1>0, <3>2, <4>1, <4>2, CaughtUpFresh DEF TidyInv, TimesOK
        <3>4. CASE Sources(l) = {}
            <4>1. Stacked(bucket, l)
                BY <1>0, StackedFirst DEF Tidy, MergedLevels
            <4>2. PICK y \in bucket : y.lvl = l - 1
                BY <3>2, <4>1 DEF Stacked
            <4>3. ASSUME NEW g \in bucket, g.lvl = l - 1 PROVE g.max <= z.max
                <5>1. Sources(l) = SourcesOf(bucket, l)
                    BY DEF Sources, SourcesOf, At
                <5> HIDE DEF z
                <5>2. g \notin SourcesOf(bucket, l)
                    BY <3>4, <5>1
                <5>3. PICK k \in bucket : k.lvl = l /\ ~(g.min > k.max)
                    BY SMTT(20), SMTT(30), <1>2, <4>3, <5>2, SourcesAre
                <5>4. g.max <= k.max
                    BY <1>2, <4>1, <4>3, <5>3 DEF Stacked, Proper
                <5>5. QED BY SMTT(20), <1>2, <3>2, <5>3, <5>4 DEF Proper
            <4>4. l # 1 => CaughtUp(bucket, mnow, l - 1)
                BY <1>4 DEF MergedLevels
            <4> HIDE DEF z
            <4>5. QED BY SMTT(20), SMTT(30), <1>0, <3>2, <4>2, <4>3, <4>4, CaughtUpTopped
        <3>5. QED BY <1>0, <1>1, <3>3, <3>4
    <2>3. QED BY <2>1, <2>2
<1>6. \A j \in MergedLevels : j < mlvl' => CaughtUp(bucket', mnow', j)
    BY SMTT(20), SMTT(30), <1>0, <1>1, <1>4, <1>5 DEF MergedLevels
<1>7. PastOK'
    <2>1. mpc' = "compact" \/ (mpc' = "snapshot" /\ mlvl' = SNAPSHOT_LEVEL)
        BY <1>0, <1>1, PastLevelIs
    <2>2. QED BY <1>6, <2>1 DEF PastOK
<1>8. QED BY SMTT(20), SMTT(30), <1>3, <1>7 DEF TidyInv

\* A merge brings its level up to the level below.
LEMMA TidyMerges ==
    ASSUME MaintInv, MaintInv', TidyInv, CompactLevel
    PROVE  TidyInv'
<1> USE SnapshotLevelAssumption
<1>1. PICK l \in MergedLevels : l = mlvl
    BY DEF CompactLevel, MaintInv, ShapeOK
<1> DEFINE x == Merged(l, Sources(l))
<1>0. /\ bucket' = write_ltx_file(bucket, x) /\ clock' = clock /\ mnow' = mnow /\ mlvl' = mlvl + 1 /\ floor' = floor
      /\ (mpc' = "delete" \/ mpc' = PastLevel(l)) /\ after' = PastLevel(l) /\ mpc = "compact" /\ floor = 0
      /\ Sources(l) # {}
    BY <1>1 DEF CompactLevel, DeleteThen, MaintInv, ShapeOK
<1>s. /\ Sound(bucket, head, lost) /\ Sound(bucket', head', lost') /\ mnow \in Nat /\ Tidy(bucket)
    BY SMTT(20), SMTT(30) DEF MaintInv, TidyInv, TimesOK
<1>2. /\ x.lvl = l /\ x.min \in Nat /\ x.max \in Nat /\ x.min <= x.max
      /\ \A g \in bucket : g.lvl = l => g.max < x.min
      /\ write_ltx_file(bucket, x) = bucket \cup {x}
      /\ \E a \in bucket : a.lvl = l - 1 /\ a.min = x.min
      /\ \E b \in bucket : b.lvl = l - 1 /\ b.max = x.max /\ b.at = x.at
      /\ \A g \in bucket : g.lvl = l - 1 /\ (\A k \in bucket : k.lvl = l => g.min > k.max)
            => x.min <= g.min /\ g.max <= x.max
    BY Zenon, <1>0, <1>s, MergedIs
<1> HIDE DEF x
<1>3. bucket' = bucket \cup {x}
    BY <1>0, <1>2
<1>a. PICK a \in bucket : a.lvl = l - 1 /\ a.min = x.min
    BY <1>2
<1>b. PICK b \in bucket : b.lvl = l - 1 /\ b.max = x.max /\ b.at = x.at
    BY SMTT(20), SMTT(30), <1>2
<1>4. Tidy(bucket \cup {x}) /\ \A g \in bucket : g.lvl = l - 1 => g.max <= x.max
    BY SMTT(20), SMTT(30), <1>2, <1>a, <1>b, <1>s, TidyMerge
<1>5. Tidy(bucket)' /\ FloorLow'
    BY <1>0, <1>3, <1>4 DEF FloorLow
<1>6. TimesOK'
    <2>1. b.at \in Nat /\ b.at <= clock /\ b.lvl < SNAPSHOT_LEVEL /\ l < SNAPSHOT_LEVEL
        BY <1>b DEF TidyInv, TimesOK, MergedLevels
    <2>2. ASSUME NEW f \in bucket', NEW s \in bucket', f.lvl < SNAPSHOT_LEVEL, s.lvl = SNAPSHOT_LEVEL, f.max <= s.max
          PROVE  f.at <= s.at
        <3>1. s \in bucket
            BY SMTT(20), SMTT(30), <1>2, <1>3, <2>1, <2>2
        <3>2. CASE f = x
            BY <1>b, <2>1, <2>2, <3>1, <3>2 DEF TidyInv, TimesOK
        <3>3. CASE f \in bucket
            BY <2>2, <3>1, <3>3 DEF TidyInv, TimesOK
        <3>4. QED BY <1>3, <3>2, <3>3
    <2>3. \A f \in bucket' : f.at \in Nat /\ f.at <= clock
        BY SMTT(20), <1>3, <1>b, <2>1 DEF TidyInv, TimesOK
    <2>4. QED BY <1>0, <2>2, <2>3 DEF TidyInv, TimesOK
<1>7. ASSUME NEW j \in MergedLevels, j < l PROVE CaughtUp(bucket', mnow, j)
    <2>1. CaughtUp(bucket, mnow, j)
        BY SMTT(20), SMTT(30), <1>0, <1>1, <1>7 DEF TidyInv, PastOK
    <2>2. \A f : f.lvl = j => (f \in bucket <=> f \in bucket')
        BY SMTT(20), SMTT(30), <1>2, <1>3, <1>7 DEF MergedLevels
    <2>3. \A s \in bucket' : s.lvl = SNAPSHOT_LEVEL => s \in bucket \/ (s.at \in Nat /\ s.at >= mnow)
        BY SMTT(20), SMTT(30), <1>2, <1>3 DEF MergedLevels
    <2>4. QED BY SMTT(20), SMTT(30), <1>s, <2>1, <2>2, <2>3, CaughtUpSame
<1>8. CaughtUp(bucket', mnow, l)
    <2>1. l # 1 => CaughtUp(bucket', mnow, l - 1)
        BY <1>7 DEF MergedLevels
    <2>2. x \in bucket' /\ b \in bucket' /\ \A g \in bucket' : g.lvl = l - 1 => g.max <= x.max
        BY SMTT(20), <1>2, <1>3, <1>4 DEF MergedLevels
    <2>3. QED BY SMTT(20), SMTT(30), <1>2, <1>b, <1>s, <2>1, <2>2, CaughtUpTopped
<1>9. \A j \in MergedLevels : j < mlvl' => CaughtUp(bucket', mnow', j)
    BY SMTT(20), SMTT(30), <1>0, <1>1, <1>7, <1>8 DEF MergedLevels
<1>10. PastOK'
    <2>1. PastLevel(l) = "compact" \/ (PastLevel(l) = "snapshot" /\ mlvl' = SNAPSHOT_LEVEL)
        BY <1>0, <1>1, PastLevelIs
    <2>2. QED BY SMTT(20), SMTT(30), <1>0, <1>9, <2>1 DEF PastOK
<1>11. QED BY SMTT(20), SMTT(30), <1>5, <1>6, <1>10 DEF TidyInv

\* The floor comes from a snapshot every level has caught up with.
LEMMA TidyRetains ==
    ASSUME MaintInv, TidyInv, RetainSnapshots
    PROVE  TidyInv'
<1> USE SnapshotLevelAssumption
<1>0. /\ bucket' = bucket /\ clock' = clock /\ mnow' = mnow /\ floor' = Floor
      /\ mpc' \in {"delete", "l0", "cascade"} /\ after' \in {"l0", "cascade"} /\ mpc = "retain"
      /\ Sound(bucket, head, lost)
    BY DEF RetainSnapshots, DeleteThen, MaintInv
<1>1. Tidy(bucket)' /\ TimesOK'
    BY <1>0 DEF TidyInv, TimesOK
<1>2. PastOK'
    BY <1>0 DEF PastOK
<1>3. FloorLow'
    <2> SUFFICES ASSUME NEW l \in MergedLevels, NEW f \in bucket, Floor > 0, f.lvl = l
                 PROVE  \E g \in bucket : g.lvl = l /\ Floor <= g.max
        BY <1>0 DEF FloorLow
    <2>1. PICK s \in Expired : s.max = Floor
        BY <1>0, ExpiredDoomed
    <2>2. s \in bucket /\ s.lvl = SNAPSHOT_LEVEL /\ s.at < mnow - SnapshotRetention
        BY <1>0, ExpiredDoomed DEF DoomedIn
    <2>3. CaughtUp(bucket, mnow, l)
        BY <1>0 DEF TidyInv, PastOK, MergedLevels
    <2>4. QED BY <2>1, <2>2, <2>3 DEF CaughtUp
<1>4. QED BY <1>1, <1>2, <1>3 DEF TidyInv

\* A deletion of the cascade takes only what the level above has merged.
LEMMA TidyDeletes ==
    ASSUME MaintInv, TidyInv, Delete
    PROVE  TidyInv'
<1> USE SnapshotLevelAssumption
<1>1. doomed # {}
    BY DEF Delete, MaintInv, ShapeOK
<1>2. PICK x \in bucket : x = First(doomed)
    BY SMTT(20), <1>1, FirstDoomed
<1>3. /\ x.lvl \in Levels
      /\ \A g \in bucket : g.lvl = x.lvl /\ g # x => Before(x, g)
      /\ \E g \in bucket : g \notin doomed /\ g.lvl = x.lvl /\ g # x /\ x.max < g.max
      /\ x.lvl \in MergedLevels => x.max < lost /\ x.max < floor
    BY SMTT(20), SMTT(30), <1>1, <1>2, FirstDoomed
<1>4. /\ bucket' = bucket \ {x} /\ floor' = floor /\ clock' = clock /\ mnow' = mnow /\ mlvl' = mlvl
      /\ mpc' \in {"delete", after} /\ after' = after /\ mpc = "delete"
      /\ after \in {"compact", "snapshot", "cascade", "l0", "done"}
      /\ after \in {"compact", "snapshot"} => floor = 0
      /\ floor \in Nat
    BY SMTT(20), SMTT(30), <1>2 DEF Delete, DeleteThen, MaintInv, ShapeOK
<1>5. /\ Sound(bucket, head, lost) /\ lost \in Nat /\ mnow \in Nat
      /\ \A f \in bucket : f.max \in Nat /\ f.lvl \in Nat
    BY DEF MaintInv, Sound, Proper, Levels, TidyInv, TimesOK
<1>6. TimesOK'
    BY <1>4 DEF TidyInv, TimesOK
<1>7. CASE x.lvl \in MergedLevels
    <2>1. PICK l \in MergedLevels : l = x.lvl
        BY <1>7
    <2>2. \A f \in bucket : f.lvl \in MergedLevels => \E g \in bucket : g.lvl = f.lvl /\ floor <= g.max
        BY SMTT(20), SMTT(30), <1>3, <1>5, <1>7, <1>4 DEF TidyInv, FloorLow
    <2>3. \A f \in bucket : f.lvl = l + 1 /\ l + 1 \in MergedLevels => \E g \in bucket : g.lvl = l + 1 /\ x.max < g.max
        BY <1>3, <1>4, <1>5, <1>7, <2>2
    <2>4. PICK y \in bucket : y.lvl = l /\ y # x
        BY SMTT(20), SMTT(30), <1>3, <2>1
    <2>5. Tidy(bucket \ {x})
        BY SMTT(20), SMTT(30), <1>3, <1>5, <2>1, <2>3, <2>4, TidyDrop DEF TidyInv
    <2>6. FloorLow'
        <3> SUFFICES ASSUME NEW f \in bucket', f.lvl \in MergedLevels
                     PROVE  \E g \in bucket' : g.lvl = f.lvl /\ floor <= g.max
            BY <1>4 DEF FloorLow
        <3>1. PICK g \in bucket : g.lvl = f.lvl /\ floor <= g.max
            BY <1>4, <2>2
        <3>2. g # x
            BY SMTT(20), SMTT(30), <1>3, <1>4, <1>5, <1>7, <3>1
        <3>3. QED BY <1>4, <3>1, <3>2
    <2>7. floor # 0
        BY SMTT(20), SMTT(30), <1>3, <1>4, <1>5, <1>7
    <2>8. PastOK'
        BY <1>4, <2>7 DEF PastOK
    <2>9. QED BY <1>4, <1>6, <2>5, <2>6, <2>8 DEF TidyInv
<1>8. CASE x.lvl \notin MergedLevels
    <2>1. \A f : f.lvl \in MergedLevels => (f \in bucket <=> f \in bucket')
        BY <1>4, <1>8
    <2>2. Tidy(bucket)' /\ FloorLow'
        BY SMTT(20), <1>4, <2>1, TidyKept
    <2>3. ASSUME NEW l \in MergedLevels, CaughtUp(bucket, mnow, l) PROVE CaughtUp(bucket', mnow, l)
        <3>1. \A f : f.lvl = l => (f \in bucket <=> f \in bucket')
            BY <2>1
        <3>2. \A s \in bucket' : s.lvl = SNAPSHOT_LEVEL => s \in bucket \/ (s.at \in Nat /\ s.at >= mnow)
            BY <1>4
        <3>3. QED BY SMTT(20), <1>5, <2>3, <3>1, <3>2, CaughtUpSame
    <2>4. PastOK'
        <3>1. CASE after \in {"compact", "snapshot"}
            <4>1. \A l \in MergedLevels : l < mlvl => CaughtUp(bucket, mnow, l)
                BY <1>4, <3>1 DEF TidyInv, PastOK
            <4>2. \A l \in MergedLevels : l < mlvl' => CaughtUp(bucket', mnow', l)
                BY <1>4, <2>3, <4>1
            <4>3. after = "snapshot" => mlvl' = SNAPSHOT_LEVEL
                BY <1>4 DEF TidyInv, PastOK
            <4>4. QED BY SMTT(20), SMTT(30), <1>4, <3>1, <4>2, <4>3 DEF PastOK
        <3>2. CASE after \notin {"compact", "snapshot"}
            BY <1>4, <3>2 DEF PastOK
        <3>3. QED BY <3>1, <3>2
    <2>5. QED BY <1>6, <2>2, <2>4 DEF TidyInv
<1>9. QED BY SMTT(20), SMTT(30), <1>7, <1>8

\* No hole ever opens in a merged level (compaction.rs reads a level on from
\* the newest transaction above it), whatever maintain deletes and wherever it
\* is abandoned, as long as snapshots are kept for at least as long as any level
\* waits to be merged; the default options do.
THEOREM LevelsStayContiguous ==
    ASSUME IntervalsFit
    PROVE  MaintSpec => []LevelsContiguous
<1>1. MaintInit => TidyInv
    BY TidyInitial
<1>2. MaintInv /\ MaintInv' /\ TidyInv /\ [MaintNext]_maintVars => TidyInv'
    <2> SUFFICES ASSUME MaintInv, MaintInv', TidyInv, [MaintNext]_maintVars PROVE TidyInv'
        OBVIOUS
    <2>1. CASE Push \/ SnapshotSync \/ SnapshotPut
        BY <2>1, TidyPushes
    <2>2. CASE Wipe
        BY <2>2, TidyWipes
    <2>3. CASE CompactSkip
        BY <2>3, TidyCompactSkips
    <2>4. CASE CompactLevel
        BY <2>4, TidyMerges
    <2>5. CASE RetainSnapshots
        BY <2>5, TidyRetains
    <2>6. CASE Delete
        BY <2>6, TidyDeletes
    <2>7. CASE Tick \/ MaintainStart \/ Abandon \/ SnapshotSkip \/ Cascade \/ L0Retain \/ MaintainDone \/ UNCHANGED maintVars
        BY <2>7, TidySkips
    <2>8. QED BY SMTT(20), SMTT(30), <2>1, <2>2, <2>3, <2>4, <2>5, <2>6, <2>7 DEF MaintNext, MaintainStep
<1>3. MaintInv /\ TidyInv => LevelsContiguous
    BY TidyContiguous DEF MaintInv, TidyInv
<1>4. QED BY <1>1, <1>2, <1>3, MaintInductive, PTL DEF MaintSpec
=============================================================================
