---------------------------- MODULE UpkeepProofs ----------------------------
(***************************************************************************)
(* Proof that maintain implements Upkeep: with the times of the files left *)
(* out, every step of Maintenance is a step of Upkeep or none, so what     *)
(* readers of the bucket rely on (Sharing and HttpStream are built on      *)
(* Upkeep) is what maintain provides.                                      *)
(***************************************************************************)
EXTENDS MaintenanceProofs

INSTANCE MaintenanceUpkeep

\* The key and the lineage of a file.
Name(f) == [lvl |-> f.lvl, min |-> f.min, max |-> f.max, gen |-> f.gen]
Bare(F) == {Name(f) : f \in F}

\* What leaving the times out leaves.
LEMMA BareIs ==
    ASSUME NEW F
    PROVE  /\ \A f \in F : Name(f) \in Bare(F)
           /\ \A g \in Bare(F) : \E f \in F : g = Name(f)
           /\ \A f : Name(f).lvl = f.lvl /\ Name(f).min = f.min /\ Name(f).max = f.max /\ Name(f).gen = f.gen
           /\ Bare(F) = {} <=> F = {}
BY Zenon DEF Bare, Name

\* Files that differ differ in more than their times.
LEMMA BareProper ==
    ASSUME NEW F, Proper(F)
    PROVE  Proper(Bare(F)) /\ \A f, g \in F : Name(f) = Name(g) => f = g
<1> DEFINE G == Bare(F)
<1>1. /\ \A f \in F : Name(f) \in G
      /\ \A g \in G : \E f \in F : g = Name(f)
      /\ \A f : Name(f).lvl = f.lvl /\ Name(f).min = f.min /\ Name(f).max = f.max
    BY BareIs
<1> HIDE DEF G
<1>2. \A f, g \in F : Name(f) = Name(g) => f = g
    BY <1>1 DEF Proper, SameKey
<1>3. Proper(G)
    BY <1>1 DEF Proper, SameKey
<1>4. QED BY <1>2, <1>3 DEF G

\* Listing, writing and deleting do not look at the times.
LEMMA BareOperators ==
    ASSUME NEW F, Proper(F)
    PROVE  /\ \A x : Bare(F \cup {x}) = Bare(F) \cup {Name(x)}
           /\ \A x \in F : Bare(F \ {x}) = Bare(F) \ {Name(x)}
           /\ \A x : Bare(write_ltx_file(F, x)) = write_ltx_file(Bare(F), Name(x))
           /\ \A l : ltx_files(Bare(F), l, 0) = Bare(ltx_files(F, l, 0))
<1>1. \A x : Bare(F \cup {x}) = Bare(F) \cup {Name(x)}
    BY DEF Bare
<1>2. \A x \in F : Bare(F \ {x}) = Bare(F) \ {Name(x)}
    BY Zenon, BareProper DEF Bare
<1>3. ASSUME NEW x PROVE Bare(write_ltx_file(F, x)) = write_ltx_file(Bare(F), Name(x))
    <2>1. \A g : SameKey(x, g) <=> SameKey(Name(x), Name(g))
        BY DEF SameKey, Name
    <2>2. QED BY <2>1 DEF Bare, write_ltx_file
<1>4. ASSUME NEW l PROVE ltx_files(Bare(F), l, 0) = Bare(ltx_files(F, l, 0))
    BY DEF ltx_files, Bare, Name
<1>5. QED BY <1>1, <1>2, <1>3, <1>4

\* A merge reads the same files with and without their times.
LEMMA BareSources ==
    ASSUME NEW F, Proper(F), NEW n \in Nat, \A f \in F : f.max <= n, NEW l
    PROVE  SourcesOf(Bare(F), l) = Bare(SourcesOf(F, l))
<1> DEFINE G == Bare(F)
           S == SourcesOf(F, l)
           T == SourcesOf(G, l)
<1>0. /\ \A f \in F : Name(f) \in G
      /\ \A g \in G : \E f \in F : g = Name(f)
      /\ \A f : Name(f).lvl = f.lvl /\ Name(f).min = f.min /\ Name(f).max = f.max
    BY BareIs
<1>1. Proper(G) /\ \A g \in G : g.max <= n
    BY <1>0, BareProper
<1>2. \A f : f \in S <=> f \in F /\ f.lvl = l - 1 /\ \A g \in F : g.lvl = l => f.min > g.max
    BY SourcesAre
<1> HIDE DEF G
<1>3. \A f : f \in T <=> f \in G /\ f.lvl = l - 1 /\ \A g \in G : g.lvl = l => f.min > g.max
    BY <1>1, SourcesAre
<1> HIDE DEF S, T
<1>4. \A f \in S : Name(f) \in T
    BY <1>0, <1>2, <1>3
<1>5. \A g \in T : \E f \in S : g = Name(f)
    BY <1>0, <1>2, <1>3
<1>6. T = Bare(S)
    BY <1>4, <1>5 DEF Bare
<1>7. QED BY <1>6 DEF S, T, G

\* The front and the back of a listing keep their place.
LEMMA BareEnds ==
    ASSUME NEW S, \A f \in S : f.min \in Nat /\ f.max \in Nat,
           \A f, g \in S : f.min = g.min /\ f.max = g.max => f = g
    PROVE  /\ \A a \in S : (\A g \in S \ {a} : Before(a, g)) => First(Bare(S)) = Name(a)
           /\ \A a \in S : (\A g \in S \ {a} : Before(g, a)) => Last(Bare(S)) = Name(a)
           /\ \A a \in S : (\A g \in S : g.max <= a.max) => MaxTxid(Bare(S)) = a.max
<1> DEFINE G == Bare(S)
<1>0. /\ \A f \in S : Name(f) \in G
      /\ \A g \in G : \E f \in S : g = Name(f)
      /\ \A f : Name(f).lvl = f.lvl /\ Name(f).min = f.min /\ Name(f).max = f.max
    BY BareIs
<1>1. \A g \in G : g.min \in Nat /\ g.max \in Nat
    BY <1>0
<1> HIDE DEF G
<1>2. ASSUME NEW a \in S, \A g \in S \ {a} : Before(a, g) PROVE First(G) = Name(a)
    <2>1. \A g \in G \ {Name(a)} : Before(Name(a), g)
        BY <1>0, <1>2 DEF Before
    <2>2. QED BY <1>0, <1>1, <2>1, FirstUnique
<1>3. ASSUME NEW a \in S, \A g \in S \ {a} : Before(g, a) PROVE Last(G) = Name(a)
    <2>1. \A g \in G \ {Name(a)} : Before(g, Name(a))
        BY <1>0, <1>3 DEF Before
    <2>2. QED BY <1>0, <1>1, <2>1, LastUnique
<1>4. ASSUME NEW a \in S, \A g \in S : g.max <= a.max PROVE MaxTxid(G) = a.max
    <2>1. \A g \in G : g.max <= Name(a).max
        BY <1>0, <1>4
    <2>2. MaxTxid(G) = Name(a).max
        BY SMTT(20), SMTT(30), <1>0, <1>1, <2>1, MaxTxidUnique
    <2>3. QED BY <1>0, <2>2
<1>5. QED BY <1>2, <1>3, <1>4 DEF G

\* Inputs that continue one another still do.
LEMMA BareMergeable ==
    ASSUME NEW S, \A f \in S : f.min \in Nat /\ f.max \in Nat,
           \A f, g \in S : f.min = g.min /\ f.max = g.max => f = g,
           NEW n \in Nat, \A f \in S : f.min <= n /\ f.max <= n, Mergeable(S)
    PROVE  Mergeable(Bare(S))
<1> SUFFICES ASSUME NEW y \in Bare(S), {g \in Bare(S) : Before(g, y)} # {}
             PROVE  is_contiguous(Last({g \in Bare(S) : Before(g, y)}).max, y)
    BY DEF Mergeable
<1>1. PICK x \in S : y = Name(x)
    BY BareIs
<1> DEFINE P == {g \in S : Before(g, x)}
<1>2. {g \in Bare(S) : Before(g, y)} = Bare(P)
    BY <1>1 DEF Bare, Name, Before
<1>3. P # {} /\ P \subseteq S
    BY Zenon, <1>2, BareIs
<1> HIDE DEF P
<1>4. /\ \A f \in P : f.min \in Nat /\ f.max \in Nat /\ f.min <= n /\ f.max <= n
      /\ \A f, g \in P : f.min = g.min /\ f.max = g.max => f = g
    BY <1>3
<1> DEFINE a == Last(P)
<1>5. a \in P /\ \A g \in P \ {a} : Before(g, a)
    BY <1>3, <1>4, LastIs
<1>6. is_contiguous(a.max, x)
    BY <1>3 DEF Mergeable, P
<1> HIDE DEF a
<1>7. Last(Bare(P)) = Name(a)
    BY <1>4, <1>5, BareEnds
<1>8. Name(a).max = a.max /\ Name(x).min = x.min /\ Name(x).max = x.max
    BY DEF Name
<1>9. QED BY Zenon, <1>1, <1>2, <1>6, <1>7, <1>8 DEF is_contiguous

----------------------------------------------------------------------------
(* The steps of maintain, as steps of Upkeep *)

\* The operators of module Bucket are the same in both specifications.
LEMMA SameOperators ==
    ASSUME NEW F
    PROVE  /\ U!First(F) = First(F) /\ U!Last(F) = Last(F) /\ U!MaxTxid(F) = MaxTxid(F)
           /\ \A l, t : U!ltx_files(F, l, t) = ltx_files(F, l, t)
           /\ \A x : U!write_ltx_file(F, x) = write_ltx_file(F, x)
           /\ \A l : U!max_ltx_file_info(F, l) = max_ltx_file_info(F, l)
           /\ U!Mergeable(F) <=> Mergeable(F)
<1>1. U!First(F) = First(F) /\ U!Last(F) = Last(F) /\ U!MaxTxid(F) = MaxTxid(F)
    BY DEF U!First, First, U!Last, Last, U!Before, Before, U!MaxTxid, MaxTxid
<1>2. \A l, t : U!ltx_files(F, l, t) = ltx_files(F, l, t)
    BY DEF U!ltx_files, ltx_files
<1>3. \A x : U!write_ltx_file(F, x) = write_ltx_file(F, x)
    BY DEF U!write_ltx_file, write_ltx_file, U!SameKey, SameKey
<1>4. \A l : U!max_ltx_file_info(F, l) = max_ltx_file_info(F, l)
    BY DEF U!max_ltx_file_info, max_ltx_file_info, U!ltx_files, ltx_files, U!Last, Last, U!Before, Before, U!MaxTxid, MaxTxid
<1>5. U!Mergeable(F) <=> Mergeable(F)
    BY DEF U!Mergeable, Mergeable, U!Last, Last, U!Before, Before, U!is_contiguous, is_contiguous
<1>6. QED BY SMTT(20), SMTT(30), <1>1, <1>2, <1>3, <1>4, <1>5

\* A step that leaves the bucket alone is no step of Upkeep.
LEMMA Stutters ==
    ASSUME bucket' = bucket, head' = head, gen' = gen, lost' = lost
    PROVE  UNCHANGED U!upkeepVars
BY DEF U!upkeepVars

\* A push of one transaction.
LEMMA PushStep ==
    ASSUME MaintInv, head < TxidBound, bucket' = Pushed(bucket, 1), head' = head + 1, gen' = gen, lost' = lost
    PROVE  U!Push
<1> DEFINE x == [lvl |-> 0, min |-> head + 1, max |-> head + 1, gen |-> gen, at |-> clock]
<1>0. Sound(bucket, head, lost) /\ head \in Nat /\ Proper(bucket)
    BY DEF MaintInv, Sound
<1>1. bucket' = bucket \cup {x}
    BY <1>0 DEF Pushed
<1>2. x.lvl = 0 /\ x.min = head + 1 /\ x.max = head + 1 /\ Name(x) = U!File(0, head + 1, head + 1)
    BY DEF Name, U!File
<1> HIDE DEF x
<1>3. Bare(bucket') = Bare(bucket) \cup {Name(x)}
    BY <1>0, <1>1, BareOperators
<1>4. QED BY <1>2, <1>3 DEF U!Push, Bare, Name

\* A merge.
LEMMA MergeStep ==
    ASSUME MaintInv, NEW l \in MergedLevels, Sources(l) # {}, Mergeable(Sources(l)),
           bucket' = write_ltx_file(bucket, Merged(l, Sources(l))), head' = head, gen' = gen, lost' = lost
    PROVE  U!Merge(l)
<1> USE SnapshotLevelAssumption
<1> DEFINE S == Sources(l)
           x == Merged(l, S)
           B == Bare(bucket)
<1>0. /\ Sound(bucket, head, lost) /\ Proper(bucket) /\ head \in Nat /\ (\A f \in bucket : f.max <= head)
      /\ \A f \in bucket : f.min \in Nat /\ f.max \in Nat /\ f.min <= head
    BY DEF MaintInv, Sound, Proper
<1>1. /\ x.lvl = l /\ x.gen = gen
      /\ x.min = First(S).min /\ x.max = MaxTxid(S)
    BY <1>0, MergedIs
<1>2. S = SourcesOf(bucket, l)
    BY DEF Sources, SourcesOf, At
<1>3. \A f \in S : f \in bucket /\ f.lvl = l - 1
    BY <1>0, <1>2, SourcesAre
<1>4. bucket' = write_ltx_file(bucket, x) /\ S # {} /\ Mergeable(S)
    OBVIOUS
<1>5. /\ First(S) \in S /\ (\A g \in S : g # First(S) => Before(First(S), g))
      /\ Last(S) \in S /\ (\A g \in S : g.max <= Last(S).max) /\ MaxTxid(S) = Last(S).max
    <2>1. S \subseteq bucket /\ l - 1 \in 0..(SNAPSHOT_LEVEL - 1)
        BY <1>3 DEF MergedLevels
    <2>2. QED BY SMTT(20), SMTT(30), <1>0, <1>3, <1>4, <2>1, RangeOf
<1>6. U!Sources(l) = Bare(S)
    <2>1. U!Sources(l) = SourcesOf(B, l)
        BY Zenon, SameOperators DEF U!Sources, U!At, SourcesOf, Bare, Name
    <2>2. QED BY SMTT(20), SMTT(30), <1>0, <1>2, <2>1, BareSources
<1> HIDE DEF S, x, B
<1>8. /\ \A f \in S : f.min \in Nat /\ f.max \in Nat /\ f.min <= head /\ f.max <= head
      /\ \A f, g \in S : f.min = g.min /\ f.max = g.max => f = g
    BY <1>0, <1>3 DEF Proper, SameKey
<1>9. First(Bare(S)) = Name(First(S)) /\ MaxTxid(Bare(S)) = MaxTxid(S) /\ Mergeable(Bare(S)) /\ Bare(S) # {}
    <2>1. First(Bare(S)) = Name(First(S)) /\ MaxTxid(Bare(S)) = MaxTxid(S)
        BY SMTT(20), SMTT(30), <1>5, <1>8, BareEnds
    <2>2. Mergeable(Bare(S))
        BY SMTT(20), SMTT(30), <1>0, <1>4, <1>8, BareMergeable
    <2>3. QED BY SMTT(20), SMTT(30), <1>4, <2>1, <2>2, BareIs
<1>10. Name(x) = U!File(l, First(Bare(S)).min, MaxTxid(Bare(S)))
    <2>1. Name(x) = [lvl |-> l, min |-> x.min, max |-> x.max, gen |-> gen]
        BY <1>1 DEF Name
    <2>2. First(Bare(S)).min = x.min /\ MaxTxid(Bare(S)) = x.max
        BY <1>1, <1>9, BareIs
    <2>3. QED BY SMTT(20), SMTT(30), <2>1, <2>2 DEF U!File
<1>11. Bare(bucket') = write_ltx_file(B, Name(x))
    BY SMTT(20), SMTT(30), <1>0, <1>4, BareOperators DEF B
<1>12. U!Merge(l)
    <2>1. U!Sources(l) # {} /\ U!Mergeable(U!Sources(l))
        BY SMTT(20), SMTT(30), <1>6, <1>9, SameOperators
    <2>2. Bare(bucket') = U!write_ltx_file(B, U!File(l, U!First(U!Sources(l)).min, U!MaxTxid(U!Sources(l))))
        BY SMTT(20), SMTT(30), <1>6, <1>10, <1>11, SameOperators
    <2>3. QED BY <2>1, <2>2 DEF U!Merge, B, Bare, Name
<1>13. QED BY <1>12

\* A snapshot.
LEMMA PutStep ==
    ASSUME MaintInv, head > 0, head' = head, gen' = gen, lost' = lost,
           bucket' = write_ltx_file(bucket, [lvl |-> SNAPSHOT_LEVEL, min |-> 1, max |-> head, gen |-> gen, at |-> clock])
    PROVE  U!PutSnapshot
<1> DEFINE x == [lvl |-> SNAPSHOT_LEVEL, min |-> 1, max |-> head, gen |-> gen, at |-> clock]
<1>0. Sound(bucket, head, lost) /\ Proper(bucket)
    BY DEF MaintInv, Sound
<1>1. x.lvl = SNAPSHOT_LEVEL /\ x.min = 1 /\ x.max = head /\ Name(x) = U!File(SNAPSHOT_LEVEL, 1, head)
    BY DEF Name, U!File
<1>2. bucket' = write_ltx_file(bucket, x)
    OBVIOUS
<1> HIDE DEF x
<1>3. Bare(bucket') = write_ltx_file(Bare(bucket), Name(x))
    BY SMTT(20), SMTT(30), <1>0, <1>2, BareOperators
<1>4. Bare(bucket') = U!write_ltx_file(Bare(bucket), U!File(SNAPSHOT_LEVEL, 1, head))
    BY SMTT(20), SMTT(30), <1>1, <1>3, SameOperators
<1>5. QED BY <1>4 DEF U!PutSnapshot, Bare, Name

\* A deletion.
LEMMA DeleteStep ==
    ASSUME MaintInv, doomed # {}, NEW f, f = First(doomed),
           bucket' = bucket \ {f}, head' = head, gen' = gen,
           lost' = IF f.lvl = SNAPSHOT_LEVEL /\ f.max > lost THEN f.max ELSE lost
    PROVE  U!DropL0 \/ U!DropSnapshot \/ \E l \in MergedLevels : U!DropMerged(l)
<1> USE SnapshotLevelAssumption
<1> DEFINE B == Bare(bucket)
           L == ltx_files(bucket, f.lvl, 0)
<1>0. /\ Sound(bucket, head, lost) /\ Proper(bucket) /\ head \in Nat /\ lost \in Nat
      /\ \A g \in bucket : g.min \in Nat /\ g.max \in Nat /\ g.lvl \in Levels /\ g.max <= head
    BY DEF MaintInv, Sound, Proper
<1>1. /\ f \in bucket /\ f.lvl \in Levels
      /\ \A g \in bucket : g.lvl = f.lvl /\ g # f => Before(f, g)
      /\ f.lvl = 0 => \E k \in bucket : k.lvl = 1 /\ f.max <= k.max
      /\ f.lvl \in MergedLevels => f.max < lost
    BY FirstDoomed
<1>2. PICK y \in bucket : y.lvl = f.lvl /\ y # f /\ f.max < y.max
    BY FirstDoomed
<1>3. \A l : \A g : g \in ltx_files(bucket, l, 0) <=> g \in bucket /\ g.lvl = l
    BY <1>0, LevelIs
<1>4. ASSUME NEW l PROVE U!At(l) = Bare(ltx_files(bucket, l, 0))
    <2>1. U!At(l) = U!ltx_files(B, l, 0)
        BY DEF U!At, Bare, Name
    <2> HIDE DEF B
    <2>2. U!ltx_files(B, l, 0) = ltx_files(B, l, 0)
        BY SameOperators
    <2>3. ltx_files(B, l, 0) = Bare(ltx_files(bucket, l, 0))
        BY <1>0, BareOperators DEF B
    <2>4. QED BY SMTT(20), SMTT(30), <2>1, <2>2, <2>3
<1>5. /\ \A g \in L : g.min \in Nat /\ g.max \in Nat /\ g.max <= head
      /\ \A g, k \in L : g.min = k.min /\ g.max = k.max => g = k
      /\ f \in L /\ y \in L
    BY SMTT(20), SMTT(30), <1>0, <1>1, <1>2, <1>3 DEF Proper, SameKey
<1>6. First(Bare(L)) = Name(f) /\ Bare(L) # {}
    <2>1. \A g \in L \ {f} : Before(f, g)
        BY <1>1, <1>3
    <2>2. First(Bare(L)) = Name(f)
        BY SMTT(20), SMTT(30), <1>5, <2>1, BareEnds
    <2>3. QED BY SMTT(20), SMTT(30), <1>5, <2>2, BareIs
<1>7. \A l, k : k \in bucket /\ k.lvl = l => k.max <= MaxTxid(Bare(ltx_files(bucket, l, 0)))
    <2> SUFFICES ASSUME NEW l, NEW k \in bucket, k.lvl = l PROVE k.max <= MaxTxid(Bare(ltx_files(bucket, l, 0)))
        OBVIOUS
    <2> DEFINE K == ltx_files(bucket, l, 0)
    <2>1. k \in K /\ \A g \in K : g \in bucket
        BY <1>3
    <2> HIDE DEF K
    <2>2. Name(k) \in Bare(K) /\ Name(k).max = k.max /\ \A g \in Bare(K) : g.max \in Nat /\ g.max <= head
        BY SMTT(20), SMTT(30), <1>0, <2>1, BareIs
    <2>3. Name(k).max <= MaxTxid(Bare(K))
        BY SMTT(20), SMTT(30), <1>0, <2>2, MaxTxidIs
    <2>4. QED BY <2>2, <2>3 DEF K
<1>8. Bare(bucket') = B \ {Name(f)} /\ Name(f).max = f.max /\ Name(f).lvl = f.lvl
    <2>1. Bare(bucket \ {f}) = Bare(bucket) \ {Name(f)}
        BY Zenon, <1>0, <1>1, BareOperators
    <2>2. Name(f).max = f.max /\ Name(f).lvl = f.lvl
        BY DEF Name
    <2>3. QED BY <2>1, <2>2
<1>9. f.max < MaxTxid(Bare(L))
    <2>1. y.max <= MaxTxid(Bare(L))
        BY <1>2, <1>7
    <2>2. MaxTxid(Bare(L)) \in Nat
        <3>1. \A g \in Bare(L) : g.max \in Nat /\ g.max <= head
            BY SMTT(20), SMTT(30), <1>5, BareIs
        <3>2. QED BY SMTT(20), SMTT(30), <1>0, <3>1, MaxTxidIs
    <2>3. QED BY SMTT(20), SMTT(30), <1>0, <1>1, <1>2, <2>1, <2>2
<1> HIDE DEF L, B
<1>10. CASE f.lvl = 0
    <2>1. PICK k \in bucket : k.lvl = 1 /\ f.max <= k.max
        BY SMTT(20), SMTT(30), <1>1, <1>10
    <2>2. lost' = lost
        BY <1>10
    <2>3. f.max <= MaxTxid(Bare(ltx_files(bucket, 1, 0)))
        <3> DEFINE m == MaxTxid(Bare(ltx_files(bucket, 1, 0)))
                   K == Bare(ltx_files(bucket, 1, 0))
        <3>1. k.max <= m
            BY <1>7, <2>1
        <3>2. m \in Nat
            <4>1. \A g \in K : g.max \in Nat /\ g.max <= head
                BY SMTT(20), SMTT(30), <1>0, <1>3, BareIs
            <4> HIDE DEF K
            <4>2. MaxTxid(K) \in Nat
                BY SMTT(20), SMTT(30), <1>0, <4>1, MaxTxidIs
            <4>3. QED BY <4>2 DEF K
        <3> HIDE DEF m
        <3>3. f.max <= m
            BY SMTT(20), SMTT(30), <1>0, <1>1, <2>1, <3>1, <3>2
        <3>4. QED BY <3>3 DEF m
    <2>4. U!DropL0
        <3>1. U!At(0) = Bare(L) /\ U!First(U!At(0)) = Name(f) /\ U!At(0) # {}
            BY SMTT(20), SMTT(30), <1>4, <1>6, <1>10, SameOperators DEF L
        <3>2. f.max <= U!MaxTxid(U!At(1)) /\ f.max < U!MaxTxid(U!At(0))
            BY SMTT(20), SMTT(30), <1>4, <1>9, <2>3, <3>1, SameOperators
        <3>3. QED BY SMTT(20), SMTT(30), <1>8, <2>2, <3>1, <3>2 DEF U!DropL0, B, Bare, Name
    <2>5. QED BY <2>4
<1>11. CASE f.lvl = SNAPSHOT_LEVEL
    <2>1. lost' = IF f.max > lost THEN f.max ELSE lost
        BY <1>11
    <2>2. U!DropSnapshot
        <3>1. U!At(SNAPSHOT_LEVEL) = Bare(L) /\ U!First(U!At(SNAPSHOT_LEVEL)) = Name(f) /\ U!At(SNAPSHOT_LEVEL) # {}
            BY SMTT(20), SMTT(30), <1>4, <1>6, <1>11, SameOperators DEF L
        <3>2. f.max < U!MaxTxid(U!At(SNAPSHOT_LEVEL))
            BY SMTT(20), SMTT(30), <1>9, <3>1, SameOperators
        <3>3. QED BY Zenon, <1>8, <2>1, <3>1, <3>2 DEF U!DropSnapshot, B, Bare, Name
    <2>3. QED BY <2>2
<1>12. CASE f.lvl # 0 /\ f.lvl # SNAPSHOT_LEVEL
    <2>1. f.lvl \in MergedLevels /\ lost' = lost /\ f.max < lost
        BY <1>1, <1>12 DEF Levels, MergedLevels
    <2>2. U!DropMerged(f.lvl)
        <3>1. U!At(f.lvl) = Bare(L) /\ U!First(U!At(f.lvl)) = Name(f) /\ U!At(f.lvl) # {}
            BY SMTT(20), SMTT(30), <1>4, <1>6, SameOperators DEF L
        <3>2. Name(f) # U!Last(U!At(f.lvl))
            <4> DEFINE z == Last(L)
            <4>1. z \in L /\ \A g \in L : g # z => Before(g, z)
                <5>1. L \subseteq bucket /\ L # {} /\ (\A g \in L : g.lvl = f.lvl) /\ f.lvl \in 0..(SNAPSHOT_LEVEL - 1)
                    BY SMTT(20), SMTT(30), <1>3, <1>5, <2>1 DEF L, MergedLevels
                <5>2. QED BY SMTT(20), SMTT(30), <1>0, <5>1, RangeOf
            <4> HIDE DEF z
            <4>2. z # f
                BY SMTT(20), SMTT(30), <1>0, <1>1, <1>2, <1>3, <1>5, <4>1 DEF Before, L
            <4>3. Last(Bare(L)) = Name(z)
                BY SMTT(20), SMTT(30), <1>5, <4>1, BareEnds DEF L
            <4>4. z \in bucket
                BY <1>3, <4>1 DEF L
            <4>5. Name(z) # Name(f)
                BY SMTT(20), SMTT(30), <1>0, <1>1, <4>2, <4>4, BareProper
            <4>6. QED BY SMTT(20), SMTT(30), <3>1, <4>3, <4>5, SameOperators
        <3>3. QED BY Zenon, <1>8, <2>1, <3>1, <3>2 DEF U!DropMerged, B, Bare, Name
    <2>3. QED BY SMTT(20), SMTT(30), <2>1, <2>2
<1>13. QED BY SMTT(20), SMTT(30), <1>10, <1>11, <1>12

\* The first state of a device is one of Upkeep.
LEMMA InitialStep == MaintInit => U!UpkeepInit
BY DEF MaintInit, U!UpkeepInit

\* Every step of the device is a step of Upkeep or leaves the bucket alone.
LEMMA ReaderStep ==
    ASSUME MaintInv, [MaintNext]_maintVars
    PROVE  U!UpkeepNext \/ UNCHANGED U!upkeepVars
<1> USE SnapshotLevelAssumption
<1>1. CASE Push
    <2>1. U!Push
        BY <1>1, PushStep DEF Push
    <2>2. QED BY <2>1 DEF U!UpkeepNext
<1>2. CASE SnapshotSync
    <2>0. head \in Nat /\ gen' = gen /\ lost' = lost
        BY <1>2 DEF SnapshotSync, MaintInv, Sound
    <2>1. PICK n \in 0..1 : head + n <= TxidBound /\ bucket' = Pushed(bucket, n) /\ head' = head + n
        BY <1>2 DEF SnapshotSync
    <2>2. CASE n = 0
        <3>1. bucket' = bucket /\ head' = head
            BY <2>0, <2>1, <2>2 DEF Pushed
        <3>2. QED BY SMTT(20), SMTT(30), <2>0, <3>1, Stutters
    <2>3. CASE n = 1
        <3>1. head < TxidBound
            BY SMTT(20), SMTT(30), <2>0, <2>1, <2>3, MaintenanceAssumption
        <3>2. U!Push
            BY SMTT(20), SMTT(30), <2>0, <2>1, <2>3, <3>1, PushStep
        <3>3. QED BY <3>2 DEF U!UpkeepNext
    <2>4. QED BY SMTT(20), SMTT(30), <2>1, <2>2, <2>3
<1>3. CASE Wipe
    BY <1>3 DEF Wipe, U!Wipe, U!UpkeepNext
<1>4. CASE CompactLevel
    <2>1. PICK k \in MergedLevels : k = mlvl
        BY <1>4 DEF CompactLevel, MaintInv, ShapeOK
    <2>2. /\ Sources(k) # {} /\ Mergeable(Sources(k))
          /\ bucket' = write_ltx_file(bucket, Merged(k, Sources(k)))
          /\ head' = head /\ gen' = gen /\ lost' = lost
        BY <1>4, <2>1 DEF CompactLevel
    <2>3. U!Merge(k)
        BY Zenon, <2>2, MergeStep
    <2>4. QED BY <2>3 DEF U!UpkeepNext, MergedLevels, U!MergedLevels
<1>5. CASE SnapshotPut
    <2>1. U!PutSnapshot
        BY <1>5, PutStep DEF SnapshotPut, MaintInv, ShapeOK
    <2>2. QED BY <2>1 DEF U!UpkeepNext
<1>6. CASE Delete
    <2>1. PICK f : f = First(doomed)
        OBVIOUS
    <2>2. /\ doomed # {} /\ bucket' = bucket \ {f} /\ head' = head /\ gen' = gen
          /\ lost' = IF f.lvl = SNAPSHOT_LEVEL /\ f.max > lost THEN f.max ELSE lost
        BY <1>6, <2>1 DEF Delete, MaintInv, ShapeOK
    <2>3. U!DropL0 \/ U!DropSnapshot \/ \E l \in MergedLevels : U!DropMerged(l)
        BY <2>1, <2>2, DeleteStep
    <2>4. QED BY <2>3 DEF U!UpkeepNext, MergedLevels, U!MergedLevels
<1>7. CASE \/ Tick \/ MaintainStart \/ Abandon \/ CompactSkip \/ SnapshotSkip \/ MaintainDone
           \/ RetainSnapshots \/ Cascade \/ L0Retain \/ UNCHANGED maintVars
    <2>1. bucket' = bucket /\ head' = head /\ gen' = gen /\ lost' = lost
        BY <1>7 DEF Tick, MaintainStart, Abandon, CompactSkip, SnapshotSkip, MaintainDone,
                    RetainSnapshots, Cascade, L0Retain, maintVars
    <2>2. QED BY SMTT(20), SMTT(30), <2>1, Stutters
<1>8. QED BY SMTT(20), SMTT(30), <1>1, <1>2, <1>3, <1>4, <1>5, <1>6, <1>7 DEF MaintNext, MaintainStep

\* Every step of maintain (compaction, the snapshot, each deletion of the three
\* retentions, an abandoned call) is a step of Upkeep or none.
THEOREM MaintenanceImplementsUpkeep == MaintSpec => ImplementsUpkeep
<1>1. MaintInit => U!UpkeepInit
    BY InitialStep
<1>2. MaintInv /\ [MaintNext]_maintVars => [U!UpkeepNext]_(U!upkeepVars)
    BY ReaderStep
<1>3. QED BY <1>1, <1>2, MaintInductive, PTL DEF MaintSpec, ImplementsUpkeep, U!UpkeepSpec
=============================================================================
