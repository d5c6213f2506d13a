--------------------------- MODULE SharingProofs ---------------------------
(***************************************************************************)
(* Proofs about Sharing, for every number of levels, every history of page *)
(* writes and every interleaving of a device's pushes, merges, deletions   *)
(* and snapshots with a reader's syncs, streams, restores, failures and    *)
(* crashes: as long as the device has not started over, the reader is never*)
(* told it diverged, and its database lacks nothing its position promises. *)
(* The invariant follows the reader place by place; what matters is that   *)
(* the device only ever adds to one history and keeps the head in level 0. *)
(***************************************************************************)
EXTENDS Sharing, BucketProofs

\* The files of the first lineage.
OneFile == {f \in [lvl : Levels, min : Nat, max : Nat, gen : {1}] :
               /\ 1 <= f.min /\ f.min <= f.max
               /\ f.lvl = SNAPSHOT_LEVEL => f.min = 1}

\* Files of the first lineage, none beyond what was pushed.
Known(F) == F \subseteq OneFile /\ \A f \in F : f.max <= head

\* What the device keeps: the head is in level 0.
DeviceOK == Known(bucket) /\ (head > 0 => \E f \in bucket : f.lvl = 0 /\ f.max = head)

\* A sync that continues the replica; one that has just replaced it.
Incremental == {"l0", "gap", "gapfile", "scan", "scanned", "fetch", "apply", "applying", "save", "stream", "streamsave"}
Continues == Incremental \cup {"restored"}

\* The shape of a sync's local variables.
Locals == [from : Nat, cur : Nat, todo : SUBSET OneFile, saw0 : BOOLEAN, bridged : BOOLEAN, gmin : Nat, start : Nat,
           lvl : Int, files : SUBSET OneFile, saw404 : BOOLEAN, ctx : {"none", "l0", "gap", "snapshot", "stream"},
           file : OneFile \cup {NoFile}, plan : Seq(OneFile), got : Seq(OneFile)]

\* What a sync has listed, chosen and applied, place by place.
LocalsOK ==
    /\ Known(s.todo) /\ Known(s.files)
    /\ \A f \in s.todo : f.lvl = 0
    /\ rpc = "gapfile" \/ (rpc \in {"fetch", "apply", "applying"} /\ s.ctx = "gap") => \A f, g \in s.files : f.lvl = g.lvl
    /\ sidecar \in Nat /\ sidecar <= head
    /\ rpc \in Continues => 1 <= s.cur /\ s.cur <= head /\ sidecar <= s.cur
    /\ rpc \in Incremental => s.from <= s.cur
    /\ rpc = "fetch" => s.ctx \in {"l0", "gap", "snapshot"}
    /\ rpc \in {"apply", "applying"} => s.ctx # "none"
    /\ rpc \in {"stream", "streamsave"} => s.ctx = "stream"
    /\ rpc = "applying" => s.file.max <= high
    /\ rpc \in {"list", "plan"} => s.got = <<>>
    /\ rpc \in {"fetch", "apply", "applying"} => Known({s.file}) /\ is_contiguous(s.cur, s.file)
    /\ rpc = "scanned" => \E f \in s.files : f.max >= s.cur
    /\ rpc = "plan" => sidecar = 0 \/ \E f \in s.files : f.lvl = 0 /\ f.max >= sidecar
    /\ rpc = "open" => LET q == s.got \o s.plan
                       IN /\ q # <<>> /\ IsChain(OneFile, 0, 0, q) /\ EndOf(q) <= head /\ sidecar <= EndOf(q)

\* No page is newer than what was applied, or older than the position.
AtMost == high \in Nat /\ 1 <= high /\ high <= head /\ \A p \in Pages : rdb[p][2] \in Nat /\ rdb[p][2] <= LastWrite(p, high)
AtLeast(t) == \A p \in Pages : rdb[p][2] >= LastWrite(p, t)

\* The pages of the replica lie between its position and the newest file
\* of which anything was applied.
ContentOK ==
    /\ rdb # NoDb => AtMost /\ (sidecar > 0 => AtLeast(sidecar))
    /\ rpc \in Continues => AtMost /\ AtLeast(s.cur)

\* The inductive invariant: of the first lineage, for which the properties
\* speak.
SharingInv ==
    /\ head \in Nat /\ gen \in Nat /\ gen >= 1
    /\ gen = 1 => DeviceOK /\ s \in Locals /\ LocalsOK /\ ContentOK /\ outcome # "diverged"

----------------------------------------------------------------------------
(* The last write of a page *)

\* The transaction that wrote a page last.
LEMMA LastWriteIs ==
    ASSUME NEW p, NEW t \in Nat, 1 <= t
    PROVE  LET u == LastWrite(p, t)
           IN u \in Nat /\ 1 <= u /\ u <= t /\ (u = 1 \/ p \in WritesOf[u]) /\ \A v \in (u + 1)..t : p \notin WritesOf[v]
<1> DEFINE S == {u \in 1..t : u = 1 \/ p \in WritesOf[u]}
           Fits(u) == (u = 1 \/ p \in WritesOf[u]) /\ \A v \in (u + 1)..t : p \notin WritesOf[v]
<1>1. PICK u \in S : \A v \in S : v <= u
    <2>1. 1 \in S /\ S \subseteq Nat /\ \A v \in S : v <= t
        OBVIOUS
    <2>2. QED BY Zenon, <2>1, GreatestNatural
<1>2. u \in 1..t /\ Fits(u)
    BY <1>1
<1> DEFINE c == CHOOSE w \in 1..t : Fits(w)
<1>3. c \in 1..t /\ Fits(c)
    <2> HIDE DEF Fits
    <2> QED BY Zenon, <1>2
<1>4. LastWrite(p, t) = c
    BY DEF LastWrite
<1> HIDE DEF c
<1>5. QED BY <1>3, <1>4

\* It grows with the transactions.
LEMMA LastWriteGrows ==
    ASSUME NEW p, NEW t \in Nat, NEW u \in Nat, 1 <= t, t <= u
    PROVE  LastWrite(p, t) <= LastWrite(p, u)
<1> DEFINE a == LastWrite(p, t)
           b == LastWrite(p, u)
<1>1. a \in Nat /\ 1 <= a /\ a <= t /\ (a = 1 \/ p \in WritesOf[a])
    BY LastWriteIs
<1>2. b \in Nat /\ 1 <= b /\ \A v \in (b + 1)..u : p \notin WritesOf[v]
    BY LastWriteIs
<1> HIDE DEF a, b
<1>3. a <= b
    BY <1>1, <1>2
<1>4. QED BY <1>3 DEF a, b

\* It stays the same over transactions that do not write the page.
LEMMA LastWriteSame ==
    ASSUME NEW p, NEW t \in Nat, NEW u \in Nat, 1 <= t, t <= u, \A v \in (t + 1)..u : p \notin WritesOf[v]
    PROVE  LastWrite(p, t) = LastWrite(p, u)
<1> DEFINE a == LastWrite(p, t)
           b == LastWrite(p, u)
<1>1. a \in Nat /\ 1 <= a /\ a <= t /\ \A v \in (a + 1)..t : p \notin WritesOf[v]
    BY LastWriteIs
<1>2. b \in Nat /\ 1 <= b /\ b <= u /\ (b = 1 \/ p \in WritesOf[b])
    BY LastWriteIs
<1>3. a <= b
    BY LastWriteGrows
<1> HIDE DEF a, b
<1>4. a = b
    BY <1>1, <1>2, <1>3
<1>5. QED BY <1>4 DEF a, b

----------------------------------------------------------------------------
(* Files of the first lineage *)

\* What a file of the first lineage is.
LEMMA OneFileIs ==
    ASSUME NEW f \in OneFile
    PROVE  /\ f.lvl \in Levels /\ f.min \in Nat /\ f.max \in Nat /\ 1 <= f.min /\ f.min <= f.max
           /\ f.lvl = SNAPSHOT_LEVEL => f.min = 1
           /\ \A g \in OneFile : SameKey(f, g) => f = g
BY DEF OneFile, SameKey

\* A set of them has one file per key.
LEMMA OneFileProper ==
    ASSUME NEW F, F \subseteq OneFile
    PROVE  Proper(F)
BY OneFileIs DEF Proper

\* The pages of a file are those its transactions write.
LEMMA PagesAre ==
    ASSUME NEW f \in OneFile, NEW p \in Pages, NEW v \in Nat, f.min <= v, v <= f.max, p \in WritesOf[v]
    PROVE  p \in PagesIn(f)
<1>1. v \in f.min..f.max
    BY OneFileIs
<1>2. QED BY <1>1 DEF PagesIn

\* A chain ends with its last file.
LEMMA ChainEnds ==
    ASSUME NEW q, q # <<>>, IsChain(OneFile, 0, 0, q)
    PROVE  q \in Seq(OneFile) /\ EndOf(q) \in Nat /\ 1 <= EndOf(q)
<1>1. q \in Seq(OneFile) /\ Len(q) \in 1..Len(q)
    BY DEF IsChain
<1>2. q[Len(q)] \in OneFile
    BY <1>1
<1>3. q[Len(q)].max \in Nat /\ 1 <= q[Len(q)].max
    BY <1>2, OneFileIs
<1>4. QED BY <1>1, <1>3 DEF EndOf

\* The image of a chain that starts from nothing is the state where it ends.
LEMMA ImageIs ==
    ASSUME NEW q, q # <<>>, IsChain(OneFile, 0, 0, q), NEW p \in Pages
    PROVE  MergedImage(q)[p][2] = LastWrite(p, EndOf(q))
<1> DEFINE n == Len(q)
           e == EndOf(q)
           I == {i \in 1..n : p \in PagesIn(q[i])}
           m == CHOOSE j \in I : \A k \in I : k <= j
<1>1. q \in Seq(OneFile) /\ n \in Nat /\ n >= 1 /\ e = q[n].max
    BY DEF IsChain, EndOf
<1>2. \A i \in 1..n : q[i] \in OneFile /\ q[i].min \in Nat /\ q[i].max \in Nat /\ 1 <= q[i].min /\ q[i].min <= q[i].max
    BY <1>1, OneFileIs
<1>3. 1 \in I
    <2>1. q[1].min <= 1
        BY <1>1 DEF IsChain, is_contiguous
    <2>2. q[1].min = 1
        BY <1>1, <1>2, <2>1
    <2>3. QED BY <1>1, <2>2 DEF PagesIn
<1>4. m \in I /\ \A k \in I : k <= m
    <2>1. I \subseteq Nat /\ I # {} /\ \A k \in I : k <= n
        BY <1>1, <1>3
    <2> HIDE DEF I
    <2>2. PICK j \in I : \A k \in I : k <= j
        BY Zenon, <1>1, <2>1, GreatestNatural
    <2>3. QED BY Zenon, <2>2
<1>5. MergedImage(q)[p] = <<q[m].gen, LastWrite(p, q[m].max)>>
    BY DEF MergedImage
<1> HIDE DEF n, e, m
<1>6. m \in 1..n
    BY <1>4
<1>p. Proper(OneFile)
    BY OneFileProper
<1>g. ASSUME NEW i \in 1..n, NEW j \in 1..n, i <= j PROVE q[i].max <= q[j].max
    BY <1>p, <1>g, ChainGrows DEF n
<1>7. e \in Nat /\ q[m].max <= e
    BY <1>1, <1>2, <1>6, <1>g
<1>8. ASSUME NEW v \in (q[m].max + 1)..e PROVE p \notin WritesOf[v]
    <2> SUFFICES ASSUME p \in WritesOf[v] PROVE FALSE
        OBVIOUS
    <2>1. v \in Nat /\ 1 <= v /\ v <= e /\ q[m].max < v
        BY <1>2, <1>6, <1>7
    <2>2. PICK k \in 1..n : q[k].min <= v /\ v <= q[k].max
        BY <1>p, <2>1, ChainCovers DEF n, e
    <2>3. k \in I
        BY <1>2, <2>1, <2>2, PagesAre
    <2>4. k <= m
        BY <1>4, <2>3
    <2>5. q[k].max <= q[m].max
        BY <1>6, <1>g, <2>4
    <2>6. QED BY <1>2, <1>6, <2>1, <2>2, <2>5
<1>9. LastWrite(p, q[m].max) = LastWrite(p, e)
    BY <1>2, <1>6, <1>7, <1>8, LastWriteSame
<1>10. QED BY <1>5, <1>9 DEF e

----------------------------------------------------------------------------
(* The device *)

\* A file is added or replaced.
LEMMA DeviceWrites ==
    ASSUME DeviceOK, head \in Nat, NEW x \in OneFile, x.max <= head', head' \in Nat, head <= head',
           x.lvl # 0 \/ x.max = head', bucket' = bucket \cup {x} \/ bucket' = write_ltx_file(bucket, x),
           x.lvl # 0 => head' = head
    PROVE  DeviceOK'
<1>1. \A g \in bucket' : g \in bucket \/ g = x
    BY DEF write_ltx_file
<1>2. x \in bucket' /\ \A g \in bucket : g.lvl # x.lvl => g \in bucket'
    BY DEF write_ltx_file, SameKey
<1>3. Known(bucket)'
    <2>1. \A g \in bucket' : g \in OneFile /\ g.max <= head'
        BY <1>1, OneFileIs DEF DeviceOK, Known
    <2>2. QED BY <2>1 DEF Known
<1>4. head' > 0 => \E f \in bucket' : f.lvl = 0 /\ f.max = head'
    BY <1>2 DEF DeviceOK
<1>5. QED BY <1>3, <1>4 DEF DeviceOK

\* A file that is not the head in level 0 is deleted.
LEMMA DeviceDeletes ==
    ASSUME DeviceOK, head' = head, NEW x, x.lvl # 0 \/ x.max # head, bucket' = bucket \ {x}
    PROVE  DeviceOK'
BY DEF DeviceOK, Known

\* The first file of a listing.
LEMMA FirstListed ==
    ASSUME NEW F, F \subseteq OneFile, F # {}, \A f, g \in F : f.lvl = g.lvl
    PROVE  First(F) \in F /\ \A g \in F \ {First(F)} : Before(First(F), g)
<1>1. /\ \A f \in F : f.min \in Nat /\ f.max \in Nat
      /\ \A f, g \in F : f.min = g.min /\ f.max = g.max => f = g
    BY OneFileIs DEF SameKey
<1>2. QED BY <1>1, FirstIs

\* What the device does to the bucket of the first lineage.
LEMMA DeviceKeeps ==
    ASSUME DeviceOK, head \in Nat, gen = 1, UpkeepNext, gen' = 1
    PROVE  DeviceOK' /\ head' \in Nat /\ head <= head'
<1> USE SnapshotLevelAssumption
<1>0. bucket \subseteq OneFile /\ (\A f \in bucket : f.max <= head) /\ \A l : At(l) \subseteq bucket /\ \A f \in At(l) : f.lvl = l
    BY DEF DeviceOK, Known, At, ltx_files
<1>1. CASE Push
    <2> DEFINE x == File(0, head + 1, head + 1)
    <2>1. x \in OneFile /\ x.lvl = 0 /\ x.max = head + 1
        BY DEF File, OneFile, Levels
    <2>2. bucket' = bucket \cup {x} /\ head' = head + 1
        BY <1>1 DEF Push
    <2> HIDE DEF x
    <2>3. QED BY <2>1, <2>2, DeviceWrites
<1>2. CASE PutSnapshot
    <2> DEFINE x == File(SNAPSHOT_LEVEL, 1, head)
    <2>1. head > 0 /\ bucket' = write_ltx_file(bucket, x) /\ head' = head
        BY <1>2 DEF PutSnapshot
    <2>2. x \in OneFile /\ x.lvl = SNAPSHOT_LEVEL /\ x.max = head
        BY <2>1 DEF File, OneFile, Levels
    <2> HIDE DEF x
    <2>3. QED BY <2>1, <2>2, DeviceWrites
<1>3. ASSUME NEW l \in MergedLevels, Merge(l) PROVE DeviceOK' /\ head' = head
    <2> DEFINE S == Sources(l)
               x == File(l, First(S).min, MaxTxid(S))
    <2>1. S # {} /\ bucket' = write_ltx_file(bucket, x) /\ head' = head
        BY <1>3 DEF Merge
    <2>2. S \subseteq bucket /\ \A f \in S : f.lvl = l - 1
        BY DEF Sources, ltx_files
    <2> HIDE DEF S
    <2>3. First(S) \in S
        BY <1>0, <2>1, <2>2, FirstListed
    <2>4. MaxTxid(S) \in Nat /\ MaxTxid(S) <= head /\ \A f \in S : f.max <= MaxTxid(S)
        BY <1>0, <2>2, OneFileIs, MaxTxidIs
    <2>5. x.lvl = l /\ x.max = MaxTxid(S) /\ x.min = First(S).min /\ x.gen = 1
        BY DEF File
    <2>6. First(S).min \in Nat /\ 1 <= First(S).min /\ First(S).min <= MaxTxid(S)
        BY <1>0, <2>2, <2>3, <2>4, OneFileIs
    <2>7. l \in Levels /\ l # SNAPSHOT_LEVEL /\ l # 0
        BY DEF MergedLevels, Levels
    <2>8. x \in OneFile
        BY <2>4, <2>6, <2>7 DEF File, OneFile
    <2> HIDE DEF x
    <2>9. QED BY <2>1, <2>4, <2>5, <2>7, <2>8, DeviceWrites
<1>4. CASE DropL0
    <2> DEFINE x == First(At(0))
    <2>1. At(0) # {} /\ x.max < MaxTxid(At(0)) /\ bucket' = bucket \ {x} /\ head' = head
        BY <1>4 DEF DropL0
    <2>2. x \in bucket
        BY <1>0, <2>1, FirstListed
    <2>3. MaxTxid(At(0)) \in Nat /\ MaxTxid(At(0)) <= head
        BY <1>0, OneFileIs, MaxTxidIs
    <2> HIDE DEF x
    <2>4. x.max # head
        BY <1>0, <2>1, <2>2, <2>3, OneFileIs
    <2>5. QED BY <2>1, <2>4, DeviceDeletes
<1>5. CASE DropSnapshot
    <2> DEFINE x == First(At(SNAPSHOT_LEVEL))
    <2>1. At(SNAPSHOT_LEVEL) # {} /\ bucket' = bucket \ {x} /\ head' = head
        BY <1>5 DEF DropSnapshot
    <2>2. x \in At(SNAPSHOT_LEVEL)
        BY <1>0, <2>1, FirstListed
    <2> HIDE DEF x
    <2>3. x.lvl # 0
        BY <1>0, <2>2
    <2>4. QED BY <2>1, <2>3, DeviceDeletes
<1>6. ASSUME NEW l \in MergedLevels, DropMerged(l) PROVE DeviceOK' /\ head' = head
    <2> DEFINE x == First(At(l))
    <2>1. At(l) # {} /\ bucket' = bucket \ {x} /\ head' = head
        BY <1>6 DEF DropMerged
    <2>2. x \in At(l)
        BY <1>0, <2>1, FirstListed
    <2> HIDE DEF x
    <2>3. x.lvl # 0
        BY <1>0, <2>2 DEF MergedLevels
    <2>4. QED BY <2>1, <2>3, DeviceDeletes
<1>7. CASE Wipe
    BY <1>7 DEF Wipe
<1>8. QED BY <1>1, <1>2, <1>3, <1>4, <1>5, <1>6, <1>7 DEF UpkeepNext

\* The device pushes, merges, deletes, snapshots or wipes: what a reader has
\* listed or applied stays a part of the history.
LEMMA DeviceSteps ==
    ASSUME SharingInv, DeviceStep
    PROVE  SharingInv'
<1>1. UpkeepNext /\ UNCHANGED replicaVars
    BY DEF DeviceStep
<1>2. head \in Nat /\ gen \in Nat /\ gen >= 1
    BY DEF SharingInv
<1>3. head' \in Nat /\ gen' \in Nat /\ gen' >= gen
    BY <1>1, <1>2 DEF UpkeepNext, Push, PutSnapshot, DropL0, DropSnapshot, Wipe, Merge, DropMerged
<1>4. ASSUME gen' = 1
      PROVE  (DeviceOK /\ s \in Locals /\ LocalsOK /\ ContentOK /\ outcome # "diverged")'
    <2>1. gen = 1 /\ DeviceOK /\ s \in Locals /\ LocalsOK /\ ContentOK /\ outcome # "diverged"
        BY <1>2, <1>3, <1>4 DEF SharingInv
    <2>2. DeviceOK' /\ head <= head'
        BY <1>1, <1>2, <1>4, <2>1, DeviceKeeps
    <2>3. s' = s /\ rpc' = rpc /\ sidecar' = sidecar /\ rdb' = rdb /\ high' = high /\ outcome' = outcome
        BY <1>1 DEF replicaVars
    <2>4. ASSUME NEW F, Known(F) PROVE F \subseteq OneFile /\ \A f \in F : f.max <= head'
        BY SMTT(20), SMTT(30), <1>2, <1>3, <2>2, <2>4, OneFileIs DEF Known
    <2>5. LocalsOK'
        <3>1. Known(s.todo)' /\ Known(s.files)'
            BY <2>1, <2>3, <2>4 DEF LocalsOK, Known
        <3>2. sidecar' \in Nat /\ sidecar' <= head'
            BY <1>2, <1>3, <2>1, <2>2, <2>3 DEF LocalsOK
        <3>3. rpc' \in Continues => 1 <= s'.cur /\ s'.cur <= head' /\ sidecar' <= s'.cur
            BY SMTT(20), SMTT(30), <1>2, <1>3, <2>1, <2>2, <2>3 DEF LocalsOK, Locals
        <3>4. rpc' \in {"fetch", "apply", "applying"} => Known({s.file})' /\ is_contiguous(s.cur, s.file)'
            BY Zenon, <2>1, <2>3, <2>4 DEF LocalsOK, Known, is_contiguous
        <3>5. rpc' = "open" => LET q == s'.got \o s'.plan
                               IN q # <<>> /\ IsChain(OneFile, 0, 0, q) /\ EndOf(q) <= head' /\ sidecar' <= EndOf(q)
            <4> SUFFICES ASSUME rpc' = "open" PROVE EndOf(s.got \o s.plan) <= head'
                BY <2>1, <2>3 DEF LocalsOK
            <4>1. s.got \o s.plan # <<>> /\ IsChain(OneFile, 0, 0, s.got \o s.plan) /\ EndOf(s.got \o s.plan) <= head
                BY <2>1, <2>3 DEF LocalsOK
            <4>2. EndOf(s.got \o s.plan) \in Nat
                BY Zenon, <4>1, ChainEnds
            <4>3. QED BY <1>2, <1>3, <2>2, <4>1, <4>2
        <3>6. QED BY <2>1, <2>3, <3>1, <3>2, <3>3, <3>4, <3>5 DEF LocalsOK
    <2>6. ContentOK'
        <3>1. AtMost => AtMost'
            BY <1>2, <1>3, <2>2, <2>3 DEF AtMost
        <3>2. AtLeast(s.cur)' <=> AtLeast(s.cur)
            BY <2>3 DEF AtLeast
        <3>3. AtLeast(sidecar)' <=> AtLeast(sidecar)
            BY <2>3 DEF AtLeast
        <3>4. NoDb' = NoDb
            BY DEF NoDb
        <3>5. QED BY <2>1, <2>3, <3>1, <3>2, <3>3, <3>4 DEF ContentOK
    <2>7. QED BY <2>1, <2>2, <2>3, <2>5, <2>6
<1>5. QED BY <1>2, <1>3, <1>4 DEF SharingInv

----------------------------------------------------------------------------
(* The replica: how a step can leave it *)

\* The locals of a sync that has not begun.
LEMMA FreshIs ==
    /\ Fresh \in Locals
    /\ Fresh.from = 0 /\ Fresh.cur = 0 /\ Fresh.todo = {} /\ Fresh.files = {}
    /\ Fresh.plan = <<>> /\ Fresh.got = <<>> /\ Fresh.ctx = "none"
BY DEF Fresh, Locals

\* What a reader leaves alone.
Aside == UNCHANGED <<bucket, head, gen, lost>>

\* A step of the reader leaves the bucket as it is.
LEMMA AsideKeeps ==
    ASSUME DeviceOK, Aside
    PROVE  DeviceOK' /\ \A F : Known(F) => (F \subseteq OneFile /\ \A f \in F : f.max <= head')
BY DEF DeviceOK, Known, Aside

\* A step that ends the sync.
LEMMA Returning ==
    ASSUME SharingInv, gen = 1, Aside, rpc' = "idle", s' = Fresh, outcome' # "diverged",
           sidecar' \in Nat, sidecar' <= head,
           rdb' # NoDb => AtMost' /\ (sidecar' > 0 => AtLeast(sidecar)')
    PROVE  SharingInv'
<1>1. head' = head /\ gen' = gen /\ DeviceOK' /\ head \in Nat /\ gen \in Nat
    BY AsideKeeps DEF SharingInv, Aside
<1>2. s' \in Locals /\ s'.todo = {} /\ s'.files = {}
    BY FreshIs
<1>3. LocalsOK'
    BY <1>1, <1>2 DEF LocalsOK, Known, Continues, Incremental
<1>4. ContentOK'
    BY DEF ContentOK, Continues, Incremental
<1>5. QED BY <1>1, <1>2, <1>3, <1>4 DEF SharingInv

\* A step of an incremental sync that applies nothing.
LEMMA GoingOn ==
    ASSUME SharingInv, gen = 1, Aside, rpc \in Incremental, rpc' \in Incremental,
           rdb' = rdb, high' = high, sidecar' = sidecar, outcome' = outcome,
           s' \in Locals, s'.cur = s.cur, s'.from = s.from,
           Known(s'.todo), Known(s'.files), \A f \in s'.todo : f.lvl = 0,
           rpc' = "gapfile" \/ (rpc' \in {"fetch", "apply", "applying"} /\ s'.ctx = "gap") => \A f, g \in s'.files : f.lvl = g.lvl,
           rpc' = "fetch" => s'.ctx \in {"l0", "gap", "snapshot"},
           rpc' \in {"apply", "applying"} => s'.ctx # "none",
           rpc' # "applying" /\ rpc' \notin {"stream", "streamsave"},
           rpc' \in {"fetch", "apply", "applying"} => Known({s'.file}) /\ is_contiguous(s'.cur, s'.file),
           rpc' = "scanned" => \E f \in s'.files : f.max >= s'.cur
    PROVE  SharingInv'
<1>1. head' = head /\ gen' = gen /\ DeviceOK' /\ head \in Nat /\ gen \in Nat /\ LocalsOK /\ ContentOK /\ outcome # "diverged"
    BY AsideKeeps DEF SharingInv, Aside
<1>2. Known(s.todo)' /\ Known(s.files)'
    BY <1>1 DEF Known
<1>3. rpc' \in {"fetch", "apply", "applying"} => Known({s.file})' /\ is_contiguous(s.cur, s.file)'
    BY <1>1 DEF Known, is_contiguous
<1>4. rpc' \in Continues => 1 <= s'.cur /\ s'.cur <= head' /\ sidecar' <= s'.cur
    BY <1>1 DEF LocalsOK, Continues
<1>5. rpc' \in Incremental => s'.from <= s'.cur
    BY <1>1 DEF LocalsOK
<1>6. rpc' # "plan" /\ rpc' # "open" /\ rpc' # "list"
    BY DEF Incremental
<1>7. LocalsOK'
    BY SMTT(20), SMTT(30), <1>1, <1>2, <1>3, <1>4, <1>5, <1>6 DEF LocalsOK
<1>8. ContentOK'
    BY <1>1 DEF ContentOK, Continues, AtMost, AtLeast
<1>9. QED BY <1>1, <1>7, <1>8 DEF SharingInv

\* The results a sync ends with.
LEMMA OkIsNotDiverged == "ok" # "diverged" /\ "resync" # "diverged" /\ "error" # "diverged"
OBVIOUS

\* The sync returns and leaves everything else as it is.
LEMMA JustReturns ==
    ASSUME SharingInv, gen = 1, Aside, NEW r, r # "diverged", SyncReturns(r), UNCHANGED <<rdb, sidecar, high>>
    PROVE  SharingInv'
<1>1. sidecar \in Nat /\ sidecar <= head /\ ContentOK
    BY DEF SharingInv, LocalsOK
<1>2. head' = head
    BY DEF Aside
<1>3. rdb' # NoDb => AtMost' /\ (sidecar' > 0 => AtLeast(sidecar)')
    BY <1>1, <1>2 DEF ContentOK, AtMost, AtLeast
<1>4. QED BY SMTT(20), SMTT(30), <1>1, <1>3, Returning DEF SyncReturns

\* finish_incremental is entered.
LEMMA Finishing ==
    ASSUME SharingInv, gen = 1, Aside, rpc \in Incremental, NEW v, Finish(v), UNCHANGED <<rdb, sidecar, high>>
    PROVE  SharingInv'
<1>0. s \in Locals /\ LocalsOK /\ s.cur \in Nat /\ s.from \in Nat /\ s.from <= s.cur
    BY DEF SharingInv, LocalsOK, Locals
<1>1. CASE s.cur = s.from /\ ~v
    <2>1. rpc' = "scan" /\ s' = [s EXCEPT !.lvl = SNAPSHOT_LEVEL, !.files = {}, !.todo = {}] /\ outcome' = outcome
        <3>1. ~(s.cur > s.from)
            BY <1>0, <1>1
        <3>2. QED BY Zenon, <1>1, <3>1 DEF Finish
    <2>2. s'.cur = s.cur /\ s'.from = s.from /\ s'.todo = {} /\ s'.files = {}
        BY <1>0, <2>1 DEF Locals
    <2>3. s' \in Locals
        <3>1. SNAPSHOT_LEVEL \in Int /\ {} \in SUBSET OneFile
            BY SnapshotLevelAssumption
        <3>2. QED BY Zenon, <1>0, <2>1, <3>1 DEF Locals
    <2>4. QED BY <2>1, <2>2, <2>3, GoingOn DEF Known, Incremental
<1>2. CASE s.cur = s.from /\ v
    <2>1. SyncReturns("ok")
        <3>1. ~(s.cur > s.from)
            BY <1>0, <1>2
        <3>2. QED BY Zenon, <1>2, <3>1 DEF Finish
    <2>2. QED BY Zenon, <2>1, OkIsNotDiverged, JustReturns
<1>3. CASE s.cur > s.from
    <2>1. rpc' = "save" /\ s' = s /\ outcome' = outcome
        BY <1>0, <1>3 DEF Finish
    <2>2. QED BY <1>0, <2>1, GoingOn DEF LocalsOK, Incremental
<1>4. QED BY SMTT(20), SMTT(30), <1>0, <1>1, <1>2, <1>3

\* A file that goes on from the position is fetched.
LEMMA GoesFetching ==
    ASSUME SharingInv, gen = 1, Aside, rpc \in Incremental, NEW f \in OneFile, f.max <= head, is_contiguous(s.cur, f),
           NEW why \in {"l0", "gap", "snapshot"}, why = "gap" => \A g, h \in s.files : g.lvl = h.lvl,
           Fetching(f, why), UNCHANGED <<rdb, sidecar, high, outcome>>
    PROVE  SharingInv'
<1>0. s \in Locals /\ LocalsOK
    BY DEF SharingInv
<1>1. rpc' = "fetch" /\ s' = [s EXCEPT !.file = f, !.ctx = why]
    BY DEF Fetching
<1>2. /\ s' \in Locals /\ s'.cur = s.cur /\ s'.from = s.from /\ s'.todo = s.todo /\ s'.files = s.files
      /\ s'.file = f /\ s'.ctx = why
    BY Zenon, <1>0, <1>1 DEF Locals
<1>3. Known(s'.todo) /\ Known(s'.files) /\ (\A g \in s'.todo : g.lvl = 0) /\ Known({s'.file}) /\ is_contiguous(s'.cur, s'.file)
    BY <1>0, <1>2 DEF LocalsOK, Known
<1>4. QED BY <1>1, <1>2, <1>3, GoingOn DEF Incremental

\* A gap is bridged from level 1 on.
LEMMA GoesBridging ==
    ASSUME SharingInv, gen = 1, Aside, rpc \in Incremental, NEW t \in Nat, Bridge(t), UNCHANGED <<rdb, sidecar, high, outcome>>
    PROVE  SharingInv'
<1>0. s \in Locals /\ LocalsOK
    BY DEF SharingInv
<1>1. rpc' = "gap" /\ s' = [s EXCEPT !.gmin = t, !.start = s.cur, !.lvl = 1, !.bridged = TRUE]
    BY DEF Bridge
<1>2. s'.cur = s.cur /\ s'.from = s.from /\ s'.todo = s.todo /\ s'.files = s.files
    BY <1>0, <1>1 DEF Locals
<1>4. s' \in Locals
    <2>1. 1 \in Int /\ TRUE \in BOOLEAN /\ s.cur \in Nat
        BY <1>0 DEF Locals
    <2>2. QED BY Zenon, <1>0, <1>1, <2>1 DEF Locals
<1>3. QED BY <1>0, <1>1, <1>2, <1>4, GoingOn DEF LocalsOK, Incremental

----------------------------------------------------------------------------
(* The replica: incremental_sync *)

\* The next level 0 file continues the replica, is stale, or leaves a gap.
LEMMA StepL0File ==
    ASSUME SharingInv, gen = 1, Aside, L0File
    PROVE  SharingInv'
<1> DEFINE f == First(s.todo)
<1>0. s \in Locals /\ LocalsOK /\ s.cur \in Nat /\ rpc = "l0" /\ s.todo # {} /\ UNCHANGED <<rdb, sidecar, high>> /\ rpc \in Incremental
    BY DEF SharingInv, Locals, L0File, Incremental
<1>1. f \in s.todo /\ f \in OneFile /\ f.max <= head
    <2>1. s.todo \subseteq OneFile /\ (\A g \in s.todo : g.max <= head) /\ \A g, h \in s.todo : g.lvl = h.lvl
        BY <1>0 DEF LocalsOK, Known
    <2>2. QED BY <1>0, <2>1, FirstListed
<1>2. f.min \in Nat /\ f.max \in Nat /\ f.min <= f.max
    BY <1>1, OneFileIs
<1>c. (CASE f.max <= s.cur ->
                 s' = [s EXCEPT !.todo = @ \ {f}, !.bridged = FALSE] /\ UNCHANGED <<rpc, outcome>>
        [] f.min > s.cur + 1 /\ ~s.bridged -> Bridge(f.min) /\ UNCHANGED outcome
        [] f.min > s.cur + 1 /\ s.bridged  -> Finish(s.saw404)
        [] is_contiguous(s.cur, f)         -> Fetching(f, "l0") /\ UNCHANGED outcome)
    BY Zenon DEF L0File
<1> HIDE DEF f
<1>3. CASE f.max <= s.cur
    <2>1. s' = [s EXCEPT !.todo = @ \ {f}, !.bridged = FALSE] /\ rpc' = rpc /\ outcome' = outcome
        <3>1. ~(f.min > s.cur + 1) /\ ~is_contiguous(s.cur, f)
            BY <1>0, <1>2, <1>3 DEF is_contiguous
        <3>2. QED BY Zenon, <1>3, <1>c, <3>1
    <2>2. s' \in Locals /\ s'.cur = s.cur /\ s'.from = s.from /\ s'.todo = s.todo \ {f} /\ s'.files = s.files
        BY Zenon, <1>0, <2>1 DEF Locals
    <2>3. Known(s'.todo) /\ Known(s'.files) /\ \A g \in s'.todo : g.lvl = 0
        BY <1>0, <2>2 DEF LocalsOK, Known
    <2>4. QED BY <1>0, <2>1, <2>2, <2>3, GoingOn
<1>4. CASE ~(f.max <= s.cur) /\ f.min > s.cur + 1 /\ ~s.bridged
    <2>1. Bridge(f.min) /\ outcome' = outcome
        <3>1. ~is_contiguous(s.cur, f)
            BY <1>0, <1>2, <1>4 DEF is_contiguous
        <3>2. QED BY Zenon, <1>4, <1>c, <3>1
    <2>2. QED BY <1>0, <1>2, <2>1, GoesBridging
<1>5. CASE ~(f.max <= s.cur) /\ f.min > s.cur + 1 /\ s.bridged
    <2>1. Finish(s.saw404)
        <3>1. ~is_contiguous(s.cur, f)
            BY <1>0, <1>2, <1>5 DEF is_contiguous
        <3>2. QED BY Zenon, <1>5, <1>c, <3>1
    <2>2. PICK v : v = s.saw404
        OBVIOUS
    <2>3. Finish(v)
        BY Zenon, <2>1, <2>2 DEF Finish
    <2>4. QED BY <1>0, <2>3, Finishing
<1>6. CASE ~(f.max <= s.cur) /\ ~(f.min > s.cur + 1)
    <2>1. is_contiguous(s.cur, f)
        BY <1>0, <1>2, <1>6 DEF is_contiguous
    <2>2. Fetching(f, "l0") /\ outcome' = outcome
        BY <1>0, <1>2, <1>6, <1>c, <2>1
    <2>3. PICK g \in OneFile : g = f
        BY <1>1
    <2>4. QED BY <1>0, <1>1, <2>1, <2>2, <2>3, GoesFetching
<1>7. QED BY <1>3, <1>4, <1>5, <1>6

\* The level 0 files are through.
LEMMA StepL0End ==
    ASSUME SharingInv, gen = 1, Aside, L0End
    PROVE  SharingInv'
<1>0. s.cur \in Nat /\ rpc \in Incremental /\ UNCHANGED <<rdb, sidecar, high>>
    BY DEF SharingInv, Locals, L0End, Incremental
<1>1. CASE ~s.saw0 /\ ~s.bridged
    <2>1. Bridge(s.cur + 1) /\ outcome' = outcome
        BY <1>1 DEF L0End
    <2>2. PICK t \in Nat : t = s.cur + 1
        BY <1>0
    <2>3. Bridge(t)
        BY <2>1, <2>2 DEF Bridge
    <2>4. QED BY <1>0, <2>1, <2>3, GoesBridging
<1>2. CASE ~(~s.saw0 /\ ~s.bridged)
    <2>1. Finish(s.saw404)
        BY <1>2 DEF L0End
    <2>2. PICK v : v = s.saw404
        OBVIOUS
    <2>3. Finish(v)
        BY Zenon, <2>1, <2>2 DEF Finish
    <2>4. QED BY <1>0, <2>3, Finishing
<1>3. QED BY <1>1, <1>2

\* A listing shows files of the bucket.
LEMMA Lists ==
    ASSUME DeviceOK, NEW l
    PROVE  Known(ltx_files(bucket, l, 0)) /\ \A f \in ltx_files(bucket, l, 0) : f.lvl = l /\ f \in bucket
BY DEF DeviceOK, Known, ltx_files

\* fill_gap: the levels above are listed for a file that bridges the gap.
LEMMA StepGap ==
    ASSUME SharingInv, gen = 1, Aside, GapList \/ GapFile
    PROVE  SharingInv'
<1>0. s \in Locals /\ LocalsOK /\ s.cur \in Nat /\ s.start \in Nat /\ s.gmin \in Nat /\ s.lvl \in Int
      /\ UNCHANGED <<rdb, sidecar, high, outcome>> /\ rpc \in Incremental /\ DeviceOK
    BY DEF SharingInv, Locals, GapList, GapFile, Incremental
<1>k. Known(s.todo) /\ Known(s.files) /\ \A g \in s.todo : g.lvl = 0
    BY <1>0 DEF LocalsOK
<1>1. CASE GapList
    <2> DEFINE L == ltx_files(bucket, s.lvl, 0)
    <2>1. s' = [s EXCEPT !.files = L] /\ rpc' = "gapfile"
        BY <1>1 DEF GapList
    <2>2. Known(L) /\ (\A f, g \in L : f.lvl = g.lvl) /\ L \subseteq OneFile
        BY <1>0, Lists DEF Known
    <2> HIDE DEF L
    <2>3. s' \in Locals /\ s'.cur = s.cur /\ s'.from = s.from /\ s'.todo = s.todo /\ s'.files = L
        BY <1>0, <2>1, <2>2 DEF Locals
    <2>4. Known(s'.files)
        BY <2>2, <2>3
    <2>5. QED BY SMTT(20), SMTT(30), <1>0, <1>k, <2>1, <2>2, <2>3, <2>4, GoingOn DEF Incremental
<1>2. CASE GapFile
    <2> DEFINE ahead == {f \in s.files : f.max > s.cur}
               next  == First(ahead)
    <2>0. rpc = "gapfile" /\ \A f, g \in s.files : f.lvl = g.lvl
        BY <1>0, <1>2 DEF GapFile, LocalsOK
    <2>1. CASE BackToL0
        <3>1. s' = [s EXCEPT !.files = {}, !.lvl = 0] /\ rpc' = "l0"
            BY <2>1 DEF BackToL0
        <3>2. s'.cur = s.cur /\ s'.from = s.from /\ s'.todo = s.todo /\ s'.files = {}
            BY <1>0, <3>1 DEF Locals
        <3>5. s' \in Locals
            <4>1. 0 \in Int /\ {} \in SUBSET OneFile
                OBVIOUS
            <4>2. QED BY Zenon, <1>0, <3>1, <4>1 DEF Locals
        <3>3. Known(s'.files)
            BY <3>2 DEF Known
        <3>4. QED BY <1>0, <1>k, <3>1, <3>2, <3>3, <3>5, GoingOn DEF Incremental
    <2>2. CASE ahead # {} /\ next.min <= s.cur + 1 /\ Fetching(next, "gap")
        <3>1. ahead \subseteq OneFile /\ \A f, g \in ahead : f.lvl = g.lvl
            BY <1>k, <2>0 DEF Known
        <3>2. next \in ahead
            BY <2>2, <3>1, FirstListed
        <3>3. PICK g \in OneFile : g = next
            BY Zenon, <3>1, <3>2
        <3>4. g.max <= head /\ is_contiguous(s.cur, g)
            BY <1>k, <2>2, <3>2, <3>3 DEF Known, is_contiguous
        <3> HIDE DEF next
        <3>5. Fetching(g, "gap")
            BY <2>2, <3>3
        <3>6. QED BY <1>0, <2>0, <3>4, <3>5, GoesFetching
    <2>3. CASE rpc' = "gap" /\ s' = [s EXCEPT !.lvl = @ + 1]
        <3>1. s' \in Locals /\ s'.cur = s.cur /\ s'.from = s.from /\ s'.todo = s.todo /\ s'.files = s.files
            BY SMTT(20), SMTT(30), <1>0, <2>3 DEF Locals
        <3>2. QED BY <1>0, <1>k, <2>3, <3>1, GoingOn DEF Incremental
    <2>4. QED BY <1>2, <2>1, <2>2, <2>3 DEF GapFile
<1>3. QED BY <1>1, <1>2

\* finish_incremental lists one level after the other, 0 last.
LEMMA StepScanList ==
    ASSUME SharingInv, gen = 1, Aside, ScanList
    PROVE  SharingInv'
<1> DEFINE L == ltx_files(bucket, s.lvl, 0)
           n == IF s.lvl = 0 THEN 0 ELSE s.lvl - 1
<1>0. s \in Locals /\ LocalsOK /\ DeviceOK /\ s.cur \in Nat /\ s.lvl \in Int /\ head \in Nat /\ rpc = "scan"
      /\ UNCHANGED <<rdb, sidecar, high, outcome>> /\ rpc \in Incremental
    BY DEF SharingInv, Locals, ScanList, Incremental
<1>1. s' = [s EXCEPT !.files = @ \cup L, !.lvl = n] /\ rpc' = IF s.lvl = 0 THEN "scanned" ELSE "scan"
    BY DEF ScanList
<1>2. Known(L) /\ L \subseteq OneFile /\ n \in Int
    BY <1>0, Lists DEF Known
<1>3. s.lvl = 0 => \E f \in L : f.max >= s.cur
    <2> SUFFICES ASSUME s.lvl = 0 PROVE \E f \in L : f.max >= s.cur
        OBVIOUS
    <2>1. 1 <= s.cur /\ s.cur <= head
        BY <1>0 DEF LocalsOK, Continues
    <2>2. PICK f \in bucket : f.lvl = 0 /\ f.max = head
        BY <1>0, <2>1 DEF DeviceOK
    <2>3. f.min \in Nat
        BY <1>0, OneFileIs DEF DeviceOK, Known
    <2>4. QED BY <2>1, <2>2, <2>3 DEF ltx_files
<1> HIDE DEF L, n
<1>4. s'.cur = s.cur /\ s'.from = s.from /\ s'.todo = s.todo /\ s'.files = s.files \cup L
    BY <1>0, <1>1 DEF Locals
<1>5. s' \in Locals
    <2>1. s.files \cup L \in SUBSET OneFile
        BY SMTT(20), SMTT(30), <1>0, <1>2 DEF Locals
    <2>2. QED BY Zenon, <1>0, <1>1, <1>2, <2>1 DEF Locals
<1>6. Known(s'.todo) /\ Known(s'.files) /\ \A g \in s'.todo : g.lvl = 0
    BY <1>0, <1>2, <1>4 DEF LocalsOK, Known
<1>7. rpc' \in {"scan", "scanned"} /\ (rpc' = "scanned" => s.lvl = 0)
    BY <1>1
<1>8. rpc' = "scanned" => \E f \in s'.files : f.max >= s'.cur
    BY <1>3, <1>4, <1>7
<1>9. QED BY <1>0, <1>4, <1>5, <1>6, <1>7, <1>8, GoingOn DEF Incremental

\* finish_incremental decides. The head was in level 0 when that was listed,
\* so the newest transaction it saw is not behind the replica.
LEMMA StepScanned ==
    ASSUME SharingInv, gen = 1, Aside, Scanned
    PROVE  SharingInv'
<1> DEFINE max   == MaxTxid(s.files)
           snaps == ltx_files(s.files, SNAPSHOT_LEVEL, 0)
           top   == MaxTxid(snaps)
<1>0. s \in Locals /\ LocalsOK /\ s.cur \in Nat /\ head \in Nat /\ rpc = "scanned" /\ UNCHANGED <<rdb, sidecar, high>>
      /\ rpc \in Incremental
    BY DEF SharingInv, Locals, Scanned, Incremental
<1>c. (CASE max = 0 -> SyncReturns("ok")
         [] max # 0 /\ max < s.cur ->
              IF auto_reset THEN StartRestore /\ outcome' = "diverged" ELSE SyncReturns("diverged")
         [] max >= s.cur /\ top > s.cur -> Fetching(Last(snaps), "snapshot") /\ UNCHANGED outcome
         [] max # 0 /\ max >= s.cur /\ top <= s.cur -> SyncReturns("ok"))
    BY Zenon DEF Scanned
<1>1. s.files \subseteq OneFile /\ (\A f \in s.files : f.max \in Nat /\ f.min \in Nat /\ f.min <= f.max /\ f.max <= head)
      /\ 1 <= s.cur /\ \E f \in s.files : f.max >= s.cur
    BY <1>0, OneFileIs DEF LocalsOK, Known, Continues
<1>2. max \in Nat /\ max >= s.cur /\ max # 0
    <2>1. max \in Nat /\ \A f \in s.files : f.max <= max
        BY SMTT(20), SMTT(30), <1>0, <1>1, MaxTxidIs
    <2> HIDE DEF max
    <2>2. QED BY SMTT(20), SMTT(30), <1>0, <1>1, <2>1
<1>3. snaps \subseteq s.files /\ \A f \in snaps : f.lvl = SNAPSHOT_LEVEL /\ f.min = 1
    BY <1>1, OneFileIs DEF ltx_files
<1>4. top \in Nat /\ (snaps # {} => \E f \in snaps : f.max = top) /\ (snaps = {} => top = 0)
    <2>1. \A f \in snaps : f.max \in Nat /\ f.max <= head
        BY <1>1, <1>3
    <2> HIDE DEF snaps
    <2>2. top \in Nat /\ (snaps # {} => \E f \in snaps : f.max = top)
        BY <1>0, <2>1, MaxTxidIs
    <2>3. snaps = {} => top = 0
        BY DEF MaxTxid
    <2>4. QED BY SMTT(20), SMTT(30), <2>2, <2>3
<1> HIDE DEF max, snaps, top
<1>5. CASE top <= s.cur
    <2>1. ~(max < s.cur) /\ ~(top > s.cur)
        BY <1>0, <1>2, <1>4, <1>5
    <2>2. SyncReturns("ok")
        BY Zenon, <1>c, <1>2, <1>5, <2>1
    <2>3. QED BY Zenon, <1>0, <2>2, OkIsNotDiverged, JustReturns
<1>6. CASE top > s.cur
    <2>1. ~(max < s.cur) /\ ~(top <= s.cur)
        BY <1>0, <1>2, <1>4, <1>6
    <2>2. Fetching(Last(snaps), "snapshot") /\ outcome' = outcome
        BY Zenon, <1>c, <1>2, <1>6, <2>1
    <2>3. snaps # {}
        BY <1>0, <1>4, <1>6
    <2>4. Last(snaps) \in snaps /\ \A g \in snaps \ {Last(snaps)} : Before(g, Last(snaps))
        <3>1. \A f \in snaps : f.min \in Nat /\ f.max \in Nat /\ f.min <= head /\ f.max <= head
            BY <1>0, <1>1, <1>3
        <3>2. \A f, g \in snaps : f.min = g.min /\ f.max = g.max => f = g
            BY <1>1, <1>3, OneFileIs DEF SameKey
        <3>3. QED BY SMTT(20), SMTT(30), <1>0, <2>3, <3>1, <3>2, LastIs
    <2>5. PICK x \in OneFile : x = Last(snaps)
        BY <1>1, <1>3, <2>4
    <2>6. PICK y \in snaps : y.max = top
        BY <1>4, <2>3
    <2>7. x.max >= top
        <3>1. x \in snaps /\ (y = x \/ Before(y, x))
            BY Zenon, <2>4, <2>5, <2>6
        <3>2. x.min = 1 /\ y.min = 1 /\ x.max \in Nat /\ y.max \in Nat
            BY <1>1, <1>3, <3>1
        <3>3. QED BY <2>6, <3>1, <3>2 DEF Before
    <2>8. x.min = 1 /\ x.max \in Nat /\ x.max <= head
        BY <1>1, <1>3, <2>4, <2>5
    <2>9. is_contiguous(s.cur, x)
        BY <1>0, <1>4, <1>6, <2>7, <2>8 DEF is_contiguous
    <2>10. Fetching(x, "snapshot")
        BY SMTT(20), SMTT(30), <2>2, <2>5
    <2>11. QED BY SMTT(20), SMTT(30), <1>0, <2>2, <2>8, <2>9, <2>10, GoesFetching
<1>7. QED BY <1>0, <1>4, <1>5, <1>6

\* A listed file is opened, perhaps rewritten since.
LEMMA StepFetch ==
    ASSUME SharingInv, gen = 1, Aside, Fetch
    PROVE  SharingInv'
<1>0. s \in Locals /\ LocalsOK /\ DeviceOK /\ rpc = "fetch" /\ UNCHANGED <<rdb, sidecar, high, outcome>> /\ rpc \in Incremental
    BY DEF SharingInv, Fetch, Incremental
<1>1. PICK f \in Stored(s.file) : s' = [s EXCEPT !.file = f]
    BY DEF Fetch
<1>2. f = s.file
    <2>1. s.file \in OneFile /\ f \in OneFile /\ SameKey(s.file, f)
        BY <1>0 DEF Stored, LocalsOK, Known, DeviceOK
    <2>2. QED BY Zenon, <2>1, OneFileIs
<1>3. s' = s
    BY <1>0, <1>1, <1>2 DEF Locals
<1>4. rpc' = "apply"
    BY DEF Fetch
<1>5. QED BY <1>0, <1>3, <1>4, GoingOn DEF LocalsOK, Incremental

\* It was deleted between the listing and the opening.
LEMMA StepVanished ==
    ASSUME SharingInv, gen = 1, Aside, Vanished
    PROVE  SharingInv'
<1>0. s \in Locals /\ LocalsOK /\ rpc = "fetch" /\ UNCHANGED <<rdb, sidecar, high>> /\ rpc \in Incremental
      /\ s.ctx \in {"l0", "gap", "snapshot"}
    BY DEF SharingInv, Vanished, Incremental, LocalsOK
<1>1. CASE s.ctx = "l0"
    <2>1. s.ctx # "gap" /\ s.ctx # "snapshot"
        BY <1>1
    <2>2. Finish(TRUE)
        BY Zenon, <1>1, <2>1 DEF Vanished
    <2>3. QED BY Zenon, <1>0, <2>2, Finishing
<1>2. CASE s.ctx = "gap"
    <2>1. s.ctx # "l0" /\ s.ctx # "snapshot"
        BY <1>2
    <2>2. rpc' = "l0" /\ outcome' = outcome /\ s' = [s EXCEPT !.saw404 = TRUE, !.files = {}, !.lvl = 0]
        BY Zenon, <1>2, <2>1 DEF Vanished
    <2>3. s'.cur = s.cur /\ s'.from = s.from /\ s'.todo = s.todo /\ s'.files = {}
        BY <1>0, <2>2 DEF Locals
    <2>4. s' \in Locals
        <3>1. TRUE \in BOOLEAN /\ {} \in SUBSET OneFile /\ 0 \in Int
            OBVIOUS
        <3>2. QED BY Zenon, <1>0, <2>2, <3>1 DEF Locals
    <2>5. Known(s'.todo) /\ Known(s'.files) /\ \A g \in s'.todo : g.lvl = 0
        BY <1>0, <2>3 DEF LocalsOK, Known
    <2>6. QED BY <1>0, <2>2, <2>3, <2>4, <2>5, GoingOn DEF Incremental
<1>3. CASE s.ctx = "snapshot"
    <2>1. s.ctx # "l0" /\ s.ctx # "gap"
        BY <1>3
    <2>2. SyncReturns("notfound")
        BY Zenon, <1>3, <2>1 DEF Vanished
    <2>3. "notfound" # "diverged"
        OBVIOUS
    <2>4. QED BY Zenon, <1>0, <2>2, <2>3, JustReturns
<1>4. QED BY <1>0, <1>1, <1>2, <1>3

\* The sidecar is written.
LEMMA StepSaves ==
    ASSUME SharingInv, gen = 1, Aside, SaveSidecar \/ RestoreSidecar
    PROVE  SharingInv'
<1>0. LocalsOK /\ ContentOK /\ rpc \in Continues /\ sidecar' = s.cur /\ UNCHANGED <<rdb, high>> /\ SyncReturns("ok")
      /\ head' = head /\ s.cur \in Nat
    BY DEF SharingInv, Locals, SaveSidecar, RestoreSidecar, Continues, Incremental, Aside
<1>1. s.cur <= head
    BY <1>0 DEF LocalsOK
<1>2. AtMost' /\ AtLeast(sidecar)'
    BY <1>0 DEF ContentOK, AtMost, AtLeast
<1>3. QED BY <1>0, <1>1, <1>2, Returning DEF SyncReturns

----------------------------------------------------------------------------
(* The replica: apply_ltx_file, and steps that move the position *)

\* A step that leaves a replica with a position, which may be a new one.
LEMMA Holding ==
    ASSUME SharingInv, gen = 1, Aside, rpc' \in Continues, rpc' \notin {"scanned", "fetch", "apply"},
           outcome' = outcome, s' \in Locals, sidecar' \in Nat, sidecar' <= s'.cur, 1 <= s'.cur, s'.cur <= head,
           rpc' # "restored" => s'.from <= s'.cur,
           Known(s'.todo), Known(s'.files), \A f \in s'.todo : f.lvl = 0,
           rpc' = "gapfile" => \A f, g \in s'.files : f.lvl = g.lvl,
           rpc' \in {"stream", "streamsave"} => s'.ctx = "stream",
           rpc' = "applying" => /\ s'.ctx # "none" /\ s'.file.max <= high' /\ Known({s'.file}) /\ is_contiguous(s'.cur, s'.file)
                                /\ s'.ctx = "gap" => \A f, g \in s'.files : f.lvl = g.lvl,
           AtMost', AtLeast(s.cur)'
    PROVE  SharingInv'
<1>1. head' = head /\ gen' = gen /\ DeviceOK' /\ head \in Nat /\ gen \in Nat /\ outcome # "diverged" /\ s'.cur \in Nat
    BY AsideKeeps DEF SharingInv, Aside, Locals
<1>2. Known(s.todo)' /\ Known(s.files)'
    BY <1>1 DEF Known
<1>3. rpc' = "applying" => Known({s.file})' /\ is_contiguous(s.cur, s.file)'
    BY <1>1 DEF Known, is_contiguous
<1>4. rpc' # "plan" /\ rpc' # "open" /\ rpc' # "list" /\ (rpc' \in Incremental => rpc' # "restored")
    BY DEF Continues, Incremental
<1>5. sidecar' <= head'
    BY SMTT(20), SMTT(30), <1>1
<1>6. LocalsOK'
    BY SMTT(20), SMTT(30), <1>1, <1>2, <1>3, <1>4, <1>5 DEF LocalsOK
<1>7. sidecar' > 0 => AtLeast(sidecar)'
    <2> SUFFICES ASSUME sidecar' > 0, NEW p \in Pages PROVE rdb'[p][2] >= LastWrite(p, sidecar')
        BY DEF AtLeast
    <2>1. rdb'[p][2] >= LastWrite(p, s'.cur) /\ rdb'[p][2] \in Nat
        BY DEF AtLeast, AtMost
    <2>2. LastWrite(p, sidecar') <= LastWrite(p, s'.cur)
        <3>1. \A t, u \in Nat : 1 <= t /\ t <= u => LastWrite(p, t) <= LastWrite(p, u)
            BY LastWriteGrows
        <3>2. QED BY SMTT(20), SMTT(30), <1>1, <3>1
    <2>3. LastWrite(p, sidecar') \in Nat /\ LastWrite(p, s'.cur) \in Nat
        <3>1. \A t \in Nat : 1 <= t => LastWrite(p, t) \in Nat
            BY SMTT(20), SMTT(30), LastWriteIs
        <3>2. QED BY <1>1, <3>1
    <2>4. QED BY SMTT(20), SMTT(30), <2>1, <2>2, <2>3
<1>8. ContentOK'
    BY SMTT(20), SMTT(30), <1>7 DEF ContentOK
<1>9. QED BY <1>1, <1>6, <1>8 DEF SharingInv

\* What writing pages of the file that is applied leaves.
LEMMA WrittenIs ==
    ASSUME SharingInv, gen = 1, rpc \in {"apply", "applying"}, NEW P, P \subseteq PagesIn(s.file),
           rdb' = Written(s.file, P), high' \in Nat, high' >= high, high' >= s.file.max, NEW p \in Pages
    PROVE  /\ rdb'[p][2] \in Nat /\ rdb'[p][2] <= LastWrite(p, high') /\ rdb'[p][2] >= LastWrite(p, s.cur)
           /\ IF p \in P THEN rdb'[p][2] = LastWrite(p, s.file.max) ELSE rdb'[p][2] = rdb[p][2]
<1>0. LocalsOK /\ ContentOK /\ s \in Locals /\ s.cur \in Nat /\ 1 <= s.cur /\ rpc \in Continues
    BY Zenon DEF SharingInv, Locals, LocalsOK, Continues, Incremental
<1>1. s.file \in OneFile /\ is_contiguous(s.cur, s.file)
    BY <1>0 DEF LocalsOK, Known
<1>2. s.file.max \in Nat /\ s.file.max > s.cur
    BY SMTT(20), SMTT(30), <1>1, OneFileIs DEF is_contiguous
<1>3. high \in Nat /\ 1 <= high /\ rdb[p][2] \in Nat /\ rdb[p][2] <= LastWrite(p, high) /\ rdb[p][2] >= LastWrite(p, s.cur)
    BY <1>0 DEF ContentOK, AtMost, AtLeast
<1>4. \A t \in Nat : 1 <= t => LastWrite(p, t) \in Nat
    BY LastWriteIs
<1>5. \A t, u \in Nat : 1 <= t /\ t <= u => LastWrite(p, t) <= LastWrite(p, u)
    BY LastWriteGrows
<1>6. rdb'[p] = IF p \in P THEN <<s.file.gen, LastWrite(p, s.file.max)>> ELSE rdb[p]
    BY DEF Written, StateAt
<1>7. CASE p \in P
    <2>1. rdb'[p][2] = LastWrite(p, s.file.max)
        BY SMTT(20), SMTT(30), <1>6, <1>7
    <2>2. QED BY SMTT(20), SMTT(30), <1>0, <1>2, <1>4, <1>5, <1>7, <2>1
<1>8. CASE p \notin P
    <2>1. rdb'[p][2] = rdb[p][2]
        BY <1>6, <1>8
    <2>2. LastWrite(p, high) \in Nat /\ LastWrite(p, high') \in Nat /\ LastWrite(p, high) <= LastWrite(p, high')
        BY <1>3, <1>4, <1>5
    <2>3. LastWrite(p, s.cur) \in Nat
        BY SMTT(20), SMTT(30), <1>0, <1>4
    <2>4. QED BY SMTT(20), SMTT(30), <1>3, <1>8, <2>1, <2>2, <2>3
<1>9. QED BY <1>7, <1>8

\* A file is being applied: some of its pages are written.
LEMMA StepApplyBegin ==
    ASSUME SharingInv, gen = 1, Aside, ApplyBegin
    PROVE  SharingInv'
<1>0. /\ LocalsOK /\ ContentOK /\ s \in Locals /\ s.cur \in Nat /\ rpc = "apply" /\ rpc' = "applying" /\ head' = head
      /\ rpc \in Continues /\ rpc \in Incremental /\ UNCHANGED <<sidecar, s, outcome>>
      /\ high' = IF s.file.max > high THEN s.file.max ELSE high
    BY SMTT(20), SMTT(30) DEF SharingInv, Locals, ApplyBegin, Continues, Incremental, Aside
<1>1. Known({s.file}) /\ is_contiguous(s.cur, s.file) /\ s.file.max \in Nat /\ s.file.max <= head
    BY SMTT(20), SMTT(30), <1>0, OneFileIs DEF LocalsOK, Known
<1>2. high \in Nat /\ 1 <= high /\ high <= head
    BY <1>0 DEF ContentOK, AtMost
<1>3. high' \in Nat /\ high' >= high /\ high' >= s.file.max /\ 1 <= high' /\ high' <= head
    BY <1>0, <1>1, <1>2
<1>4. PICK P \in SUBSET PagesIn(s.file) : rdb' = Written(s.file, P)
    BY SMTT(20), SMTT(30) DEF ApplyBegin
<1>5. \A p \in Pages : rdb'[p][2] \in Nat /\ rdb'[p][2] <= LastWrite(p, high') /\ rdb'[p][2] >= LastWrite(p, s.cur)
    BY SMTT(20), SMTT(30), <1>0, <1>3, <1>4, WrittenIs
<1>6. AtMost' /\ AtLeast(s.cur)'
    BY SMTT(20), SMTT(30), <1>0, <1>3, <1>5 DEF AtMost, AtLeast
<1>7. /\ Known(s'.todo) /\ Known(s'.files) /\ (\A g \in s'.todo : g.lvl = 0) /\ Known({s'.file}) /\ is_contiguous(s'.cur, s'.file)
      /\ s'.ctx # "none" /\ (s'.ctx = "gap" => \A g, h \in s'.files : g.lvl = h.lvl) /\ s'.file.max <= high'
    BY SMTT(20), SMTT(30), <1>0, <1>1, <1>3 DEF LocalsOK
<1>8. s' \in Locals /\ sidecar' \in Nat /\ sidecar' <= s'.cur /\ 1 <= s'.cur /\ s'.cur <= head /\ s'.from <= s'.cur
    BY <1>0 DEF LocalsOK
<1>9. rpc' \in Continues /\ rpc' \notin {"scanned", "fetch", "apply"}
    BY SMTT(20), SMTT(30), <1>0 DEF Continues, Incremental
<1>10. QED BY SMTT(20), SMTT(30), <1>0, <1>6, <1>7, <1>8, <1>9, Holding

\* All of its pages are; the position moves to its end.
LEMMA StepApplyEnd ==
    ASSUME SharingInv, gen = 1, Aside, ApplyEnd
    PROVE  SharingInv'
<1> DEFINE f == s.file
           T == IF s.ctx = "l0" THEN s.todo \ {First(s.todo)} ELSE s.todo
           B == IF s.ctx = "l0" THEN FALSE ELSE s.bridged
<1>0. /\ LocalsOK /\ ContentOK /\ s \in Locals /\ s.cur \in Nat /\ rpc = "applying" /\ head' = head
      /\ rpc \in Continues /\ rpc \in Incremental /\ UNCHANGED <<sidecar, outcome, high>> /\ 1 <= s.cur
    BY SMTT(20), SMTT(30) DEF SharingInv, Locals, LocalsOK, ApplyEnd, Continues, Incremental, Aside
<1>1. f \in OneFile /\ is_contiguous(s.cur, f) /\ f.max \in Nat /\ f.min \in Nat /\ f.max <= head /\ f.max > s.cur /\ f.min <= s.cur + 1
    BY <1>0, OneFileIs DEF LocalsOK, Known, is_contiguous
<1>2. high \in Nat /\ 1 <= high /\ high <= head /\ f.max <= high
    BY Zenon, <1>0 DEF ContentOK, AtMost, LocalsOK
<1>3. rdb' = Written(f, PagesIn(f)) /\ s' = [s EXCEPT !.cur = f.max, !.todo = T, !.bridged = B, !.file = NoFile]
    BY DEF ApplyEnd
<1>4. \A p \in Pages :
        /\ rdb'[p][2] \in Nat /\ rdb'[p][2] <= LastWrite(p, high') /\ rdb'[p][2] >= LastWrite(p, s.cur)
        /\ IF p \in PagesIn(f) THEN rdb'[p][2] = LastWrite(p, f.max) ELSE rdb'[p][2] = rdb[p][2]
    BY <1>0, <1>2, <1>3, WrittenIs
<1>5. T \in SUBSET OneFile /\ Known(T) /\ (\A g \in T : g.lvl = 0) /\ B \in BOOLEAN /\ NoFile \in OneFile \cup {NoFile}
    BY Zenon, <1>0 DEF LocalsOK, Known, Locals
<1> HIDE DEF f, T, B
<1>6. s'.cur = f.max /\ s'.todo = T /\ s'.from = s.from /\ s'.files = s.files /\ s'.ctx = s.ctx
    BY <1>0, <1>3 DEF Locals
<1>7. s' \in Locals
    BY ZenonT(30), <1>0, <1>1, <1>3, <1>5 DEF Locals
<1>8. AtMost'
    BY <1>0, <1>2, <1>4 DEF AtMost
<1>9. AtLeast(s.cur)'
    <2> SUFFICES ASSUME NEW p \in Pages PROVE rdb'[p][2] >= LastWrite(p, f.max)
        BY <1>6 DEF AtLeast
    <2>1. LastWrite(p, f.max) \in Nat
        BY SMTT(20), SMTT(30), <1>0, <1>1, LastWriteIs
    <2>2. CASE p \in PagesIn(f)
        BY SMTT(20), SMTT(30), <1>4, <2>1, <2>2
    <2>3. CASE p \notin PagesIn(f)
        <3>1. \A v \in (s.cur + 1)..f.max : p \notin WritesOf[v]
            BY SMTT(20), SMTT(30), <1>0, <1>1, <2>3, PagesAre
        <3>2. LastWrite(p, s.cur) = LastWrite(p, f.max)
            <4>1. \A t, u \in Nat : 1 <= t /\ t <= u /\ (\A v \in (t + 1)..u : p \notin WritesOf[v]) => LastWrite(p, t) = LastWrite(p, u)
                BY LastWriteSame
            <4>2. QED BY SMTT(20), SMTT(30), <1>0, <1>1, <3>1, <4>1
        <3>3. QED BY SMTT(20), SMTT(30), <1>4, <3>2
    <2>4. QED BY <2>2, <2>3
<1>10. \/ rpc' = "l0" \/ rpc' = "save"
       \/ rpc' = "gapfile" /\ s.ctx = "gap"
       \/ rpc' = "streamsave" /\ s.ctx = "stream"
    <2>1. s.ctx \in {"l0", "gap", "snapshot", "stream"}
        BY <1>0 DEF LocalsOK, Locals
    <2>2. rpc' = CASE s.ctx = "l0" -> "l0" [] s.ctx = "gap" -> "gapfile"
                   [] s.ctx = "snapshot" -> "save" [] s.ctx = "stream" -> "streamsave"
        BY SMTT(20), SMTT(30) DEF ApplyEnd
    <2>3. QED BY SMTT(20), SMTT(30), <2>1, <2>2
<1>11. sidecar' \in Nat /\ sidecar' <= s'.cur /\ 1 <= s'.cur /\ s'.cur <= head /\ s'.from <= s'.cur
    BY SMTT(20), SMTT(30), <1>0, <1>1, <1>6 DEF LocalsOK, Locals
<1>12. Known(s'.todo) /\ Known(s'.files) /\ \A g \in s'.todo : g.lvl = 0
    BY SMTT(20), SMTT(30), <1>0, <1>5, <1>6 DEF LocalsOK
<1>13. rpc' = "gapfile" => \A g, h \in s'.files : g.lvl = h.lvl
    BY <1>0, <1>6, <1>10 DEF LocalsOK
<1>14. QED BY SMTT(20), SMTT(30), <1>0, <1>6, <1>7, <1>8, <1>9, <1>10, <1>11, <1>12, <1>13, Holding DEF Continues, Incremental

----------------------------------------------------------------------------
(* The replica: follow *)

\* A sync or a stream starts at the position in the sidecar.
LEMMA Opening ==
    ASSUME SharingInv, gen = 1, Aside, rdb # NoDb, sidecar # 0, UNCHANGED <<rdb, sidecar, high, outcome>>,
           NEW T, Known(T), \A f \in T : f.lvl = 0, NEW saw \in BOOLEAN,
           \/ rpc' = "l0" /\ s' = [Fresh EXCEPT !.from = sidecar, !.cur = sidecar, !.todo = T, !.saw0 = saw]
           \/ rpc' = "stream" /\ s' = [Fresh EXCEPT !.from = sidecar, !.cur = sidecar, !.ctx = "stream"]
    PROVE  SharingInv'
<1>0. LocalsOK /\ ContentOK /\ sidecar \in Nat /\ sidecar > 0 /\ sidecar <= head /\ head' = head
    BY DEF SharingInv, LocalsOK, Aside
<1>1. s' \in Locals
    <2>1. T \in SUBSET OneFile
        BY DEF Known
    <2>2. QED BY ZenonT(30), <1>0, <2>1, FreshIs DEF Locals
<1>2. s'.cur = sidecar /\ s'.from = sidecar /\ s'.files = {} /\ (rpc' = "stream" => s'.ctx = "stream")
    BY Zenon, FreshIs DEF Locals
<1>3. s'.todo = T \/ s'.todo = {}
    BY Zenon, FreshIs DEF Locals
<1>4. Known(s'.todo) /\ Known(s'.files) /\ \A f \in s'.todo : f.lvl = 0
    BY <1>2, <1>3 DEF Known
<1>5. AtMost' /\ AtLeast(s.cur)'
    BY <1>0, <1>2 DEF ContentOK, AtMost, AtLeast
<1>6. rpc' \in {"l0", "stream"}
    OBVIOUS
<1>7. QED BY SMTT(20), SMTT(30), <1>0, <1>1, <1>2, <1>4, <1>5, <1>6, Holding DEF Continues, Incremental

\* A stream starts at the saved position.
LEMMA StepStreamOpen ==
    ASSUME SharingInv, gen = 1, Aside, StreamOpen
    PROVE  SharingInv'
<1>1. Known({}) /\ FALSE \in BOOLEAN
    BY DEF Known
<1>2. /\ rdb # NoDb /\ sidecar # 0 /\ UNCHANGED <<rdb, sidecar, high, outcome>>
      /\ rpc' = "stream" /\ s' = [Fresh EXCEPT !.from = sidecar, !.cur = sidecar, !.ctx = "stream"]
    BY DEF StreamOpen
<1>3. QED BY Zenon, <1>1, <1>2, Opening

\* A frame that continues the replica comes in.
LEMMA StepStreamFrame ==
    ASSUME SharingInv, gen = 1, Aside, StreamFrame
    PROVE  SharingInv'
<1>0. s \in Locals /\ LocalsOK /\ DeviceOK /\ rpc = "stream" /\ rpc' = "apply" /\ UNCHANGED <<rdb, sidecar, high, outcome>>
      /\ rpc \in Incremental /\ s.ctx = "stream"
    BY DEF SharingInv, StreamFrame, Incremental, LocalsOK
<1>1. PICK f \in ltx_files(bucket, 0, 0) : is_contiguous(s.cur, f) /\ s' = [s EXCEPT !.file = f]
    BY DEF StreamFrame
<1>2. Known({f}) /\ f \in OneFile
    BY <1>0, Lists DEF Known
<1>3. s' \in Locals /\ s'.cur = s.cur /\ s'.from = s.from /\ s'.todo = s.todo /\ s'.files = s.files /\ s'.file = f /\ s'.ctx = "stream"
    BY SMTT(20), SMTT(30), <1>0, <1>1, <1>2 DEF Locals
<1>4. Known(s'.todo) /\ Known(s'.files) /\ (\A g \in s'.todo : g.lvl = 0) /\ Known({s'.file}) /\ is_contiguous(s'.cur, s'.file)
    BY <1>0, <1>1, <1>2, <1>3 DEF LocalsOK
<1>5. QED BY SMTT(20), SMTT(30), <1>0, <1>3, <1>4, GoingOn DEF Incremental

\* The position after a frame is saved.
LEMMA StepStreamSave ==
    ASSUME SharingInv, gen = 1, Aside, StreamSave
    PROVE  SharingInv'
<1>0. /\ s \in Locals /\ LocalsOK /\ ContentOK /\ rpc = "streamsave" /\ rpc' = "stream" /\ sidecar' = s.cur
      /\ s' = [s EXCEPT !.from = s.cur] /\ UNCHANGED <<rdb, high, outcome>> /\ s.cur \in Nat /\ head' = head
    BY DEF SharingInv, StreamSave, Locals, Aside
<1>1. s' \in Locals /\ s'.cur = s.cur /\ s'.from = s.cur /\ s'.todo = s.todo /\ s'.files = s.files /\ s'.ctx = s.ctx
    BY SMTT(20), SMTT(30), <1>0 DEF Locals
<1>2. Known(s'.todo) /\ Known(s'.files) /\ (\A g \in s'.todo : g.lvl = 0) /\ s'.ctx = "stream"
    BY <1>0, <1>1 DEF LocalsOK
<1>3. 1 <= s.cur /\ s.cur <= head /\ AtMost /\ AtLeast(s.cur)
    BY <1>0 DEF LocalsOK, ContentOK, Continues, Incremental
<1>4. AtMost' /\ AtLeast(s.cur)'
    BY SMTT(20), SMTT(30), <1>0, <1>1, <1>3 DEF AtMost, AtLeast
<1>5. QED BY SMTT(20), <1>0, <1>1, <1>2, <1>3, <1>4, Holding DEF Continues, Incremental

----------------------------------------------------------------------------
(* The replica: full_restore, and what begins or ends it *)

\* A step of a restore before the image is in place, or of a reset.
LEMMA Restoring ==
    ASSUME SharingInv, gen = 1, Aside, rpc' \in {"list", "plan", "open", "reset"}, UNCHANGED <<sidecar, outcome>>,
           (rdb' = rdb /\ high' = high) \/ rdb' = NoDb,
           s' \in Locals, Known(s'.todo), Known(s'.files), \A f \in s'.todo : f.lvl = 0,
           rpc' \in {"list", "plan"} => s'.got = <<>>,
           rpc' = "plan" => sidecar = 0 \/ \E f \in s'.files : f.lvl = 0 /\ f.max >= sidecar,
           rpc' = "open" => LET q == s'.got \o s'.plan
                            IN q # <<>> /\ IsChain(OneFile, 0, 0, q) /\ EndOf(q) <= head /\ sidecar <= EndOf(q)
    PROVE  SharingInv'
<1>1. head' = head /\ gen' = gen /\ DeviceOK' /\ head \in Nat /\ gen \in Nat /\ outcome # "diverged" /\ LocalsOK /\ ContentOK
    BY AsideKeeps DEF SharingInv, Aside
<1>2. Known(s.todo)' /\ Known(s.files)'
    BY SMTT(20), SMTT(30), <1>1 DEF Known
<1>3. sidecar' \in Nat /\ sidecar' <= head'
    BY <1>1 DEF LocalsOK
<1>4. rpc' \notin Continues /\ rpc' \notin Incremental /\ rpc' \notin {"gapfile", "fetch", "apply", "applying", "stream", "streamsave", "scanned"}
    BY SMTT(20) DEF Continues, Incremental
<1>5. LocalsOK'
    BY ZenonT(30), <1>1, <1>2, <1>3, <1>4 DEF LocalsOK
<1>6. ContentOK'
    <2>1. rdb' # NoDb => AtMost' /\ (sidecar' > 0 => AtLeast(sidecar)')
        BY <1>1 DEF ContentOK, AtMost, AtLeast
    <2>2. QED BY Zenon, <1>4, <2>1 DEF ContentOK
<1>7. QED BY SMTT(20), SMTT(30), <1>1, <1>5, <1>6 DEF SharingInv

\* A sync starts: from the saved position, by a restore, or not at all.
LEMMA StepSyncStart ==
    ASSUME SharingInv, gen = 1, Aside, SyncStart
    PROVE  SharingInv'
<1>0. s \in Locals /\ DeviceOK /\ UNCHANGED <<rdb, sidecar, high>>
    BY DEF SharingInv, SyncStart
<1>1. CASE rdb = NoDb \/ (sidecar = 0 /\ auto_reset)
    <2>1. StartRestore /\ outcome' = outcome
        BY Zenon, <1>1 DEF SyncStart
    <2>2. rpc' = "list" /\ s' = [Fresh EXCEPT !.from = s.from, !.lvl = SNAPSHOT_LEVEL]
        BY <2>1 DEF StartRestore
    <2>3. s'.todo = {} /\ s'.files = {} /\ s'.got = <<>>
        BY <2>2, FreshIs DEF Locals
    <2>4. s' \in Locals
        <3>1. s.from \in Nat /\ SNAPSHOT_LEVEL \in Int
            BY <1>0, SnapshotLevelAssumption DEF Locals
        <3>2. QED BY Zenon, <2>2, <3>1, FreshIs DEF Locals
    <2>5. QED BY SMTT(20), SMTT(30), <1>0, <2>1, <2>2, <2>3, <2>4, Restoring DEF Known
<1>2. CASE rdb # NoDb /\ sidecar = 0 /\ ~auto_reset
    <2>1. SyncReturns("unresumable")
        BY Zenon, <1>2 DEF SyncStart
    <2>2. "unresumable" # "diverged"
        OBVIOUS
    <2>3. QED BY Zenon, <1>0, <2>1, <2>2, JustReturns
<1>3. CASE rdb # NoDb /\ sidecar # 0
    <2> DEFINE T == ltx_files(bucket, 0, sidecar + 1)
               saw == T # {}
    <2>1. rpc' = "l0" /\ outcome' = outcome /\ s' = [Fresh EXCEPT !.from = sidecar, !.cur = sidecar, !.todo = T, !.saw0 = saw]
        BY Zenon, <1>3 DEF SyncStart
    <2>2. Known(T) /\ \A f \in T : f.lvl = 0
        BY <1>0 DEF DeviceOK, Known, ltx_files
    <2> HIDE DEF T
    <2>3. saw \in BOOLEAN
        OBVIOUS
    <2>4. PICK w \in BOOLEAN : w = saw
        BY Zenon, <2>3
    <2>6. PICK S : S = T
        BY SMTT(20), SMTT(30)
    <2> HIDE DEF saw
    <2>5. QED BY Zenon, <1>0, <1>3, <2>1, <2>2, <2>4, <2>6, Opening
<1>4. QED BY <1>1, <1>2, <1>3

\* A restore lists the levels.
LEMMA StepRestoreList ==
    ASSUME SharingInv, gen = 1, Aside, RestoreList
    PROVE  SharingInv'
<1> DEFINE L == ltx_files(bucket, s.lvl, 0)
           n == IF s.lvl = 0 THEN 0 ELSE s.lvl - 1
<1>0. s \in Locals /\ LocalsOK /\ DeviceOK /\ s.lvl \in Int /\ head \in Nat /\ rpc = "list" /\ UNCHANGED <<rdb, sidecar, high, outcome>>
      /\ sidecar \in Nat /\ sidecar <= head
    BY DEF SharingInv, Locals, LocalsOK, RestoreList
<1>1. s' = [s EXCEPT !.files = @ \cup L, !.lvl = n] /\ rpc' = IF s.lvl = 0 THEN "plan" ELSE "list"
    BY DEF RestoreList
<1>2. Known(L) /\ L \subseteq OneFile /\ n \in Int
    BY <1>0, Lists DEF Known
<1>3. s.lvl = 0 => sidecar = 0 \/ \E f \in L : f.lvl = 0 /\ f.max >= sidecar
    <2> SUFFICES ASSUME s.lvl = 0, sidecar # 0 PROVE \E f \in L : f.lvl = 0 /\ f.max >= sidecar
        OBVIOUS
    <2>1. PICK f \in bucket : f.lvl = 0 /\ f.max = head
        BY <1>0 DEF DeviceOK
    <2>2. f.min \in Nat
        BY <1>0, OneFileIs DEF DeviceOK, Known
    <2>3. QED BY <1>0, <2>1, <2>2 DEF ltx_files
<1> HIDE DEF L, n
<1>4. s'.todo = s.todo /\ s'.files = s.files \cup L /\ s'.got = s.got
    BY <1>0, <1>1 DEF Locals
<1>5. s' \in Locals
    <2>1. s.files \cup L \in SUBSET OneFile
        BY SMTT(20), SMTT(30), <1>0, <1>2 DEF Locals
    <2>2. QED BY Zenon, <1>0, <1>1, <1>2, <2>1 DEF Locals
<1>6. Known(s'.todo) /\ Known(s'.files) /\ (\A g \in s'.todo : g.lvl = 0) /\ s'.got = <<>>
    BY <1>0, <1>2, <1>4 DEF LocalsOK, Known
<1>7. rpc' \in {"list", "plan"} /\ (rpc' = "plan" => s.lvl = 0)
    BY <1>1
<1>8. rpc' = "plan" => sidecar = 0 \/ \E f \in s'.files : f.lvl = 0 /\ f.max >= sidecar
    BY SMTT(20), SMTT(30), <1>3, <1>4, <1>7
<1>9. QED BY SMTT(20), SMTT(30), <1>0, <1>5, <1>6, <1>7, <1>8, Restoring

\* A plan that is accepted reaches the position the replica had.
LEMMA PlanReaches ==
    ASSUME NEW F, F \subseteq OneFile, NEW n \in Nat, \A f \in F : f.max <= n, NEW t \in Nat,
           t = 0 \/ \E f \in F : f.lvl = 0 /\ f.max >= t, calc_restore_plan(F, 0).res = "ok"
    PROVE  LET q == calc_restore_plan(F, 0).infos
           IN q # <<>> /\ IsChain(OneFile, 0, 0, q) /\ EndOf(q) <= n /\ t <= EndOf(q)
<1> DEFINE q   == FullChain(F, 0)
           e   == EndOf(q)
           gap == \E f \in F : f.lvl < SNAPSHOT_LEVEL /\ f.min > e + 1
<1>1. calc_restore_plan(F, 0) =
        CASE q = <<>>              -> [res |-> "unavailable", infos |-> <<>>]
          [] q # <<>> /\ 0 = 0 /\ gap -> [res |-> "gap", infos |-> <<>>]
          [] q # <<>> /\ 0 # 0 /\ e < 0 -> [res |-> "unavailable", infos |-> <<>>]
          [] OTHER                 -> [res |-> "ok", infos |-> q]
    BY DEF calc_restore_plan, FullChain
<1>p. Proper(F) /\ \A f \in F : f.lvl = SNAPSHOT_LEVEL => f.min = 1
    BY OneFileProper, OneFileIs
<1>2. IsChain(F, 0, 0, q) /\ e \in Nat /\ IsComplete(F, 0, e)
    BY SMTT(20), SMTT(30), <1>p, FullChainIs
<1> HIDE DEF q, e
<1>3. q # <<>> /\ ~gap /\ calc_restore_plan(F, 0).infos = q
    <2>1. CASE q = <<>>
        <3>1. calc_restore_plan(F, 0) = [res |-> "unavailable", infos |-> <<>>]
            BY Zenon, <1>1, <2>1
        <3>2. QED BY <3>1
    <2>2. CASE q # <<>> /\ gap
        <3>1. calc_restore_plan(F, 0) = [res |-> "gap", infos |-> <<>>]
            BY Zenon, <1>1, <2>2
        <3>2. QED BY <3>1
    <2>3. CASE q # <<>> /\ ~gap
        <3>1. calc_restore_plan(F, 0) = [res |-> "ok", infos |-> q]
            BY Zenon, <1>1, <2>3
        <3>2. QED BY <2>3, <3>1
    <2>4. QED BY SMTT(20), SMTT(30), <2>1, <2>2, <2>3
<1>4. q \in Seq(OneFile) /\ Len(q) \in 1..Len(q) /\ q[Len(q)] \in F
    BY SMTT(20), SMTT(30), <1>2, <1>3 DEF IsChain
<1>5. IsChain(OneFile, 0, 0, q)
    BY <1>2, <1>4 DEF IsChain
<1>6. e <= n
    BY <1>3, <1>4 DEF e, EndOf
<1>7. t <= e
    <2> SUFFICES ASSUME t # 0 PROVE t <= e
        BY <1>2
    <2>1. PICK f \in F : f.lvl = 0 /\ f.max >= t
        OBVIOUS
    <2>2. f.min \in Nat /\ f.max \in Nat /\ 0 < SNAPSHOT_LEVEL
        BY SMTT(20), SMTT(30), OneFileIs, SnapshotLevelAssumption
    <2>3. f.min <= e + 1
        BY SMTT(20), SMTT(30), <1>2, <1>3, <2>1, <2>2
    <2>4. f \notin Extensions(F, 0, e)
        BY <1>2 DEF IsComplete
    <2>5. f.max <= e
        BY SMTT(20), SMTT(30), <1>2, <2>1, <2>2, <2>3, <2>4 DEF Extensions, is_contiguous, Admits
    <2>6. QED BY <1>2, <2>1, <2>2, <2>5
<1>8. QED BY <1>3, <1>5, <1>6, <1>7 DEF e

\* A plan never says that the bucket diverged.
LEMMA PlanResults ==
    ASSUME NEW F
    PROVE  calc_restore_plan(F, 0).res # "diverged"
<1> DEFINE q   == FullChain(F, 0)
           gap == \E f \in F : f.lvl < SNAPSHOT_LEVEL /\ f.min > EndOf(q) + 1
<1>1. calc_restore_plan(F, 0) =
        CASE q = <<>>              -> [res |-> "unavailable", infos |-> <<>>]
          [] q # <<>> /\ 0 = 0 /\ gap -> [res |-> "gap", infos |-> <<>>]
          [] q # <<>> /\ 0 # 0 /\ EndOf(q) < 0 -> [res |-> "unavailable", infos |-> <<>>]
          [] OTHER                 -> [res |-> "ok", infos |-> q]
    BY DEF calc_restore_plan, FullChain
<1> HIDE DEF q, gap
<1>2. CASE q = <<>>
    <2>1. calc_restore_plan(F, 0) = [res |-> "unavailable", infos |-> <<>>]
        BY Zenon, <1>1, <1>2
    <2>2. QED BY <2>1
<1>3. CASE q # <<>> /\ gap
    <2>1. calc_restore_plan(F, 0) = [res |-> "gap", infos |-> <<>>]
        BY Zenon, <1>1, <1>3
    <2>2. QED BY <2>1
<1>4. CASE q # <<>> /\ ~gap
    <2>1. calc_restore_plan(F, 0) = [res |-> "ok", infos |-> q]
        BY Zenon, <1>1, <1>4
    <2>2. QED BY <2>1
<1>5. QED BY <1>2, <1>3, <1>4

\* Its plan is a chain from the first transaction past the old position.
LEMMA StepRestorePlanned ==
    ASSUME SharingInv, gen = 1, Aside, RestorePlanned
    PROVE  SharingInv'
<1> DEFINE plan == calc_restore_plan(s.files, 0)
           q    == plan.infos
<1>0. s \in Locals /\ LocalsOK /\ head \in Nat /\ rpc = "plan" /\ UNCHANGED <<rdb, sidecar, high>>
      /\ Known(s.files) /\ Known(s.todo) /\ (\A f \in s.todo : f.lvl = 0) /\ sidecar \in Nat /\ s.got = <<>>
    BY DEF SharingInv, LocalsOK, RestorePlanned
<1>1. CASE plan.res = "ok"
    <2>1. q # <<>> /\ IsChain(OneFile, 0, 0, q) /\ EndOf(q) <= head /\ sidecar <= EndOf(q)
        <3>1. sidecar = 0 \/ \E f \in s.files : f.lvl = 0 /\ f.max >= sidecar
            BY <1>0 DEF LocalsOK
        <3>2. PICK n \in Nat, t \in Nat : n = head /\ t = sidecar
            BY <1>0
        <3>6. PICK F : F = s.files
            OBVIOUS
        <3>3. F \subseteq OneFile /\ (\A f \in F : f.max <= n) /\ (t = 0 \/ \E f \in F : f.lvl = 0 /\ f.max >= t)
              /\ calc_restore_plan(F, 0).res = "ok"
            BY SMTT(20), SMTT(30), <1>0, <1>1, <3>1, <3>2, <3>6 DEF Known
        <3>4. LET r == calc_restore_plan(F, 0).infos
              IN r # <<>> /\ IsChain(OneFile, 0, 0, r) /\ EndOf(r) <= n /\ t <= EndOf(r)
            BY <3>3, PlanReaches
        <3>5. QED BY SMTT(20), SMTT(30), <3>2, <3>4, <3>6
    <2>2. rpc' = "open" /\ s' = [s EXCEPT !.plan = q, !.files = {}] /\ outcome' = outcome
        BY SMTT(20), SMTT(30), <1>1 DEF RestorePlanned
    <2> HIDE DEF q
    <2>3. q \in Seq(OneFile) /\ {} \in SUBSET OneFile
        BY <2>1 DEF IsChain
    <2>4. s' \in Locals
        BY Zenon, <1>0, <2>2, <2>3 DEF Locals
    <2>5. s'.todo = s.todo /\ s'.files = {} /\ s'.got = <<>> /\ s'.plan = q
        BY <1>0, <2>2 DEF Locals
    <2>6. s'.got \o s'.plan = q
        BY SMTT(20), SMTT(30), <2>3, <2>5
    <2>7. Known(s'.todo) /\ Known(s'.files)
        BY <1>0, <2>5 DEF Known
    <2>8. LET r == s'.got \o s'.plan
          IN r # <<>> /\ IsChain(OneFile, 0, 0, r) /\ EndOf(r) <= head /\ sidecar <= EndOf(r)
        BY <2>1, <2>6
    <2>9. QED BY SMTT(20), SMTT(30), <1>0, <2>2, <2>4, <2>5, <2>7, <2>8, Restoring
<1>2. CASE plan.res # "ok"
    <2>1. SyncReturns(plan.res)
        BY <1>2 DEF RestorePlanned
    <2>2. plan.res # "diverged"
        BY PlanResults
    <2> HIDE DEF plan
    <2>3. PICK r : r = plan.res
        OBVIOUS
    <2>4. SyncReturns(r) /\ r # "diverged"
        BY <2>1, <2>2, <2>3 DEF SyncReturns
    <2>5. QED BY Zenon, <1>0, <2>4, JustReturns
<1>3. QED BY <1>1, <1>2

\* A file of the plan is opened, or is gone.
LEMMA StepRestoreOpen ==
    ASSUME SharingInv, gen = 1, Aside, RestoreOpen
    PROVE  SharingInv'
<1>0. s \in Locals /\ LocalsOK /\ DeviceOK /\ rpc = "open" /\ s.plan # <<>> /\ UNCHANGED <<rdb, sidecar, high>>
      /\ s.plan \in Seq(OneFile) /\ s.got \in Seq(OneFile)
    BY Zenon DEF SharingInv, Locals, RestoreOpen
<1>1. CASE Stored(Head(s.plan)) = {}
    <2>1. SyncReturns("notfound") /\ "notfound" # "diverged"
        BY SMTT(20), SMTT(30), <1>1 DEF RestoreOpen
    <2>2. QED BY Zenon, <1>0, <2>1, JustReturns
<1>2. CASE Stored(Head(s.plan)) # {}
    <2>1. PICK f \in Stored(Head(s.plan)) : s' = [s EXCEPT !.plan = Tail(@), !.got = Append(@, f)]
        BY Zenon, <1>2 DEF RestoreOpen
    <2>2. rpc' = "open" /\ outcome' = outcome
        BY Zenon, <1>0, <1>2 DEF RestoreOpen
    <2>3. Head(s.plan) \in OneFile /\ Tail(s.plan) \in Seq(OneFile)
        BY <1>0
    <2>4. f = Head(s.plan)
        <3>1. f \in OneFile /\ SameKey(Head(s.plan), f)
            BY <1>0 DEF Stored, DeviceOK, Known
        <3>2. QED BY Zenon, <2>3, <3>1, OneFileIs
    <2>5. Append(s.got, f) \in Seq(OneFile)
        BY <1>0, <2>3, <2>4
    <2>6. s' \in Locals
        BY Zenon, <1>0, <2>1, <2>3, <2>5 DEF Locals
    <2>7. s'.todo = s.todo /\ s'.files = s.files /\ s'.plan = Tail(s.plan) /\ s'.got = Append(s.got, f)
        BY <1>0, <2>1 DEF Locals
    <2>8. s'.got \o s'.plan = s.got \o s.plan
        <3>1. \A a, b \in Seq(OneFile) : b # <<>> => Append(a, Head(b)) \o Tail(b) = a \o b
            BY SMTT(20), SMTT(30)
        <3>2. QED BY Zenon, <1>0, <2>4, <2>7, <3>1
    <2>9. Known(s'.todo) /\ Known(s'.files) /\ \A g \in s'.todo : g.lvl = 0
        BY SMTT(20), SMTT(30), <1>0, <2>7 DEF LocalsOK
    <2>10. LET q == s'.got \o s'.plan
           IN q # <<>> /\ IsChain(OneFile, 0, 0, q) /\ EndOf(q) <= head /\ sidecar <= EndOf(q)
        BY <1>0, <2>8 DEF LocalsOK
    <2>11. QED BY SMTT(20), SMTT(30), <1>0, <2>2, <2>6, <2>9, <2>10, Restoring
<1>3. QED BY <1>1, <1>2

\* The new database replaces the old one: its pages are those of the plan's
\* end.
LEMMA StepRestoreRename ==
    ASSUME SharingInv, gen = 1, Aside, RestoreRename
    PROVE  SharingInv'
<1> DEFINE q == s.got
           e == EndOf(q)
<1>0. /\ s \in Locals /\ LocalsOK /\ rpc = "open" /\ rpc' = "restored" /\ s.plan = <<>> /\ UNCHANGED <<sidecar, outcome>>
      /\ rdb' = MergedImage(q) /\ high' = e /\ s' = [s EXCEPT !.cur = e] /\ head' = head /\ q \in Seq(OneFile) /\ sidecar \in Nat
      /\ head \in Nat
    BY SMTT(20), SMTT(30) DEF SharingInv, Locals, LocalsOK, RestoreRename, Aside
<1>1. q # <<>> /\ IsChain(OneFile, 0, 0, q) /\ e <= head /\ sidecar <= e
    <2>1. s.got \o s.plan = q
        BY <1>0
    <2>2. QED BY <1>0, <2>1 DEF LocalsOK
<1>2. e \in Nat /\ 1 <= e
    BY <1>1, ChainEnds
<1>3. \A p \in Pages : rdb'[p][2] = LastWrite(p, e) /\ LastWrite(p, e) \in Nat
    <2>1. \A p \in Pages : MergedImage(q)[p][2] = LastWrite(p, e)
        <3>1. PICK r : r = q
            OBVIOUS
        <3>2. \A p \in Pages : MergedImage(r)[p][2] = LastWrite(p, EndOf(r))
            BY <1>1, <3>1, ImageIs
        <3>3. QED BY <3>1, <3>2
    <2>2. \A p \in Pages : \A t \in Nat : 1 <= t => LastWrite(p, t) \in Nat
        BY LastWriteIs
    <2>3. QED BY SMTT(20), SMTT(30), <1>0, <1>2, <2>1, <2>2
<1> HIDE DEF e
<1>4. s' \in Locals /\ s'.cur = e /\ s'.todo = s.todo /\ s'.files = s.files
    BY Zenon, <1>0, <1>2 DEF Locals
<1>5. Known(s'.todo) /\ Known(s'.files) /\ \A g \in s'.todo : g.lvl = 0
    BY <1>0, <1>4 DEF LocalsOK
<1>6. AtMost' /\ AtLeast(s.cur)'
    BY SMTT(20), SMTT(30), <1>0, <1>1, <1>2, <1>3, <1>4 DEF AtMost, AtLeast
<1>7. QED BY SMTT(20), SMTT(30), <1>0, <1>1, <1>2, <1>4, <1>5, <1>6, Holding DEF Continues

\* The image is removed, or the sidecar is.
LEMMA StepRemoves ==
    ASSUME SharingInv, gen = 1, Aside, RestoreBadImage \/ ResetSidecar \/ ResetDb
    PROVE  SharingInv'
<1>0. s \in Locals /\ LocalsOK /\ ContentOK /\ head' = head /\ head \in Nat
    BY SMTT(20), SMTT(30) DEF SharingInv, Aside
<1>1. CASE RestoreBadImage
    <2>1. rdb' = NoDb /\ rpc' = "idle" /\ s' = Fresh /\ outcome' # "diverged" /\ sidecar' = sidecar
        BY <1>1 DEF RestoreBadImage, SyncReturns
    <2>2. QED BY <1>0, <2>1, Returning DEF LocalsOK
<1>2. CASE ResetSidecar
    <2>1. rdb' = rdb /\ high' = high /\ rpc' = "idle" /\ s' = Fresh /\ outcome' # "diverged" /\ sidecar' = 0
        BY SMTT(20), SMTT(30), <1>2 DEF ResetSidecar, SyncReturns
    <2>2. rdb' # NoDb => AtMost'
        BY SMTT(20), SMTT(30), <1>0, <2>1 DEF ContentOK, AtMost
    <2>3. QED BY SMTT(20), SMTT(30), <1>0, <2>1, <2>2, Returning
<1>3. CASE ResetDb
    <2>1. rdb' = NoDb /\ rpc' = "reset" /\ s' = s /\ UNCHANGED <<sidecar, outcome>>
        BY <1>3 DEF ResetDb
    <2>2. QED BY <1>0, <2>1, Restoring DEF LocalsOK
<1>4. QED BY <1>1, <1>2, <1>3

\* The sync gives up.
LEMMA StepGivesUp ==
    ASSUME SharingInv, gen = 1, Aside, StreamMisfit \/ StreamEnd \/ LockBusy \/ SyncFails \/ Killed
    PROVE  SharingInv'
<1>1. PICK r \in {"resync", "lockbusy", "error", "killed"} : SyncReturns(r)
    BY DEF StreamMisfit, StreamEnd, LockBusy, SyncFails, Killed
<1>2. UNCHANGED <<rdb, sidecar, high>>
    BY DEF StreamMisfit, StreamEnd, LockBusy, SyncFails, Killed
<1>3. r # "diverged"
    OBVIOUS
<1>4. QED BY SMTT(20), SMTT(30), <1>1, <1>2, <1>3, JustReturns

----------------------------------------------------------------------------
(* The theorems *)

\* A step of the reader keeps the invariant.
LEMMA ReaderSteps ==
    ASSUME SharingInv, ReaderStep \/ ReaderEnds \/ ReaderFault
    PROVE  SharingInv'
<1>1. Aside /\ (ReplicaStep \/ StreamOpen \/ StreamEnd \/ ReplicaFault)
    BY DEF ReaderStep, ReaderEnds, ReaderFault, Aside, upkeepVars
<1>2. CASE gen = 1
    BY SMTT(20), SMTT(30), <1>1, <1>2, StepRestoreList, StepRestorePlanned, StepRestoreOpen, StepRestoreRename, StepSaves, StepSyncStart,
       StepL0File, StepL0End, StepGap, StepScanList, StepScanned, StepFetch, StepVanished, StepApplyBegin, StepApplyEnd,
       StepStreamOpen, StepStreamFrame, StepStreamSave, StepRemoves, StepGivesUp
       DEF ReplicaStep, ReplicaFault
<1>3. CASE gen # 1
    BY <1>1, <1>3 DEF SharingInv, Aside
<1>4. QED BY <1>2, <1>3

\* At first there is neither a bucket nor a replica.
LEMMA SharingInitial ==
    ASSUME Init
    PROVE  SharingInv
<1>1. bucket = {} /\ head = 0 /\ gen = 1 /\ rdb = NoDb /\ sidecar = 0 /\ rpc = "idle" /\ s = Fresh /\ outcome = "none"
    BY DEF Init, UpkeepInit, ReplicaInit
<1>2. DeviceOK
    BY SMTT(20), SMTT(30), <1>1 DEF DeviceOK, Known
<1>3. LocalsOK
    BY <1>1, FreshIs DEF LocalsOK, Known, Continues, Incremental
<1>4. ContentOK
    BY <1>1 DEF ContentOK, Continues, Incremental
<1>5. QED BY SMTT(20), SMTT(30), <1>1, <1>2, <1>3, <1>4, FreshIs DEF SharingInv

\* The invariant of the shared bucket: while the first lineage lasts, every
\* file a reader has listed or chosen is one the device wrote, the chain it
\* restores reaches its old position, and its pages lie between the position
\* and the newest file applied.
THEOREM SharingInductive == Spec => []SharingInv
<1>1. Init => SharingInv
    BY SharingInitial
<1>2. SharingInv /\ [Next]_vars => SharingInv'
    <2> SUFFICES ASSUME SharingInv, [Next]_vars PROVE SharingInv'
        OBVIOUS
    <2>1. CASE DeviceStep
        BY <2>1, DeviceSteps
    <2>2. CASE ReaderStep \/ ReaderEnds \/ ReaderFault
        BY <2>2, ReaderSteps
    <2>3. CASE UNCHANGED vars
        <3>1. /\ bucket' = bucket /\ head' = head /\ gen' = gen /\ rdb' = rdb /\ sidecar' = sidecar
              /\ rpc' = rpc /\ s' = s /\ outcome' = outcome /\ high' = high
            BY <2>3 DEF vars
        <3>2. DeviceOK' <=> DeviceOK
            BY SMTT(20), SMTT(30), <3>1 DEF DeviceOK, Known
        <3>3. LocalsOK' <=> LocalsOK
            BY SMTT(20), <3>1 DEF LocalsOK, Known
        <3>4. ContentOK' <=> ContentOK
            BY Zenon, <3>1 DEF ContentOK, AtMost, AtLeast
        <3>5. QED BY Zenon, <3>1, <3>2, <3>3, <3>4 DEF SharingInv
    <2>4. QED BY <2>1, <2>2, <2>3 DEF Next
<1>3. QED BY <1>1, <1>2, PTL DEF Spec

\* However the device's merges and deletions and the reader's failures and
\* crashes interleave, the replica lacks nothing its position counts and holds
\* nothing that was not applied.
THEOREM ReplicaLacksNothing == Spec => []NothingMissing
<1>1. SharingInv => NothingMissing
    BY DEF SharingInv, ContentOK, AtMost, AtLeast, NothingMissing
<1>2. QED BY <1>1, SharingInductive, PTL

\* finish_incremental never takes a bucket that was only maintained for one
\* that was wiped.
THEOREM DivergenceIsReal == Spec => []NoFalseDivergence
<1>1. SharingInv => NoFalseDivergence
    BY DEF SharingInv, NoFalseDivergence
<1>2. QED BY <1>1, SharingInductive, PTL
=============================================================================
