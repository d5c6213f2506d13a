---------------------------- MODULE BucketProofs ----------------------------
(***************************************************************************)
(* Facts about the operators of module Bucket, for every set of files:     *)
(* what the newest transaction and the first file of a listing are, which  *)
(* chain of files a plan is and when there is one, and what of a bucket    *)
(* its device's steps preserve.                                            *)
(***************************************************************************)
EXTENDS Bucket, TLAPS, WellFoundedInduction

----------------------------------------------------------------------------
(* Naturals *)

\* Every non-empty set of naturals has a least element.
LEMMA LeastNatural ==
    ASSUME NEW T, T \subseteq Nat, T # {}
    PROVE  \E x \in T : \A y \in T : x <= y
<1> DEFINE R == OpToRel(<, Nat)
<1>1. IsWellFoundedOn(R, Nat)
    BY Zenon, NatLessThanWellFounded
<1> HIDE DEF R
<1>2. PICK x \in T : \A y \in T : ~(<<y, x>> \in R)
    BY Zenon, <1>1, WFMin
<1>3. ASSUME NEW y \in T, ~(x <= y) PROVE FALSE
    <2>1. y < x /\ y \in Nat /\ x \in Nat
        BY <1>3
    <2>2. <<y, x>> \in R
        BY <2>1 DEF R, OpToRel
    <2>3. QED BY <2>2, <1>2
<1>4. QED BY <1>2, <1>3

\* Every non-empty bounded set of naturals has a greatest element.
LEMMA GreatestNatural ==
    ASSUME NEW S, S \subseteq Nat, S # {}, NEW n \in Nat, \A x \in S : x <= n
    PROVE  \E x \in S : \A j \in S : j <= x
<1> DEFINE T == {m \in Nat : \E x \in S : m = n - x}
<1>1. T # {} /\ T \subseteq Nat
    <2>1. PICK x \in S : TRUE
        BY Zenon
    <2>2. n - x \in T
        BY <2>1
    <2>3. QED BY Zenon, <2>2
<1>2. PICK m \in T : \A k \in T : m <= k
    BY Zenon, <1>1, LeastNatural
<1>3. PICK x \in S : m = n - x
    OBVIOUS
<1>4. \A j \in S : j <= x
    <2>1. TAKE j \in S
    <2>2. n - j \in T
        OBVIOUS
    <2>3. m <= n - j
        BY <1>2, <2>2
    <2>4. QED BY <2>3, <1>3
<1>5. QED BY Zenon, <1>3, <1>4

----------------------------------------------------------------------------
(* Listings *)

\* MaxTxid is what its name says on a set of files whose maxima are bounded.
LEMMA MaxTxidIs ==
    ASSUME NEW F, \A f \in F : f.max \in Nat, NEW n \in Nat, \A f \in F : f.max <= n
    PROVE  /\ MaxTxid(F) \in Nat /\ MaxTxid(F) <= n
           /\ \A f \in F : f.max <= MaxTxid(F)
           /\ F # {} => \E f \in F : f.max = MaxTxid(F)
<1>1. CASE F = {}
    BY <1>1 DEF MaxTxid
<1>2. CASE F # {}
    <2> DEFINE S == {x \in Nat : \E f \in F : x = f.max}
    <2>1. S # {} /\ S \subseteq Nat /\ \A x \in S : x <= n
        <3>1. PICK f \in F : TRUE
            BY Zenon, <1>2
        <3>2. f.max \in S
            OBVIOUS
        <3>3. QED BY <3>2
    <2>2. PICK x \in S : \A j \in S : j <= x
        BY Zenon, <2>1, GreatestNatural
    <2>3. PICK f \in F : x = f.max
        OBVIOUS
    <2>4. \A g \in F : g.max \in S
        OBVIOUS
    <2>5. \A g \in F : g.max <= f.max
        BY <2>2, <2>3, <2>4
    <2> DEFINE m == CHOOSE g \in F : \A h \in F : h.max <= g.max
    <2>6. m \in F /\ \A h \in F : h.max <= m.max
        BY Zenon, <2>5
    <2> HIDE DEF m
    <2>7. MaxTxid(F) = m.max
        BY Zenon, <1>2 DEF MaxTxid, m
    <2>8. QED BY <2>6, <2>7
<1>3. QED BY <1>1, <1>2

\* A listing that is not empty, with one file per range, has a first file.
LEMMA FirstIs ==
    ASSUME NEW F, F # {}, \A f \in F : f.min \in Nat /\ f.max \in Nat,
           \A f, g \in F : f.min = g.min /\ f.max = g.max => f = g
    PROVE  First(F) \in F /\ \A g \in F \ {First(F)} : Before(First(F), g)
<1> DEFINE Mins == {x \in Nat : \E f \in F : x = f.min}
<1>1. Mins # {}
    <2>1. PICK f \in F : TRUE
        BY Zenon
    <2>2. f.min \in Mins
        OBVIOUS
    <2>3. QED BY Zenon, <2>2
<1>2. PICK x \in Mins : \A y \in Mins : x <= y
    BY Zenon, <1>1, LeastNatural
<1>3. \A f \in F : x <= f.min
    BY <1>2
<1> DEFINE Maxs == {y \in Nat : \E f \in F : f.min = x /\ y = f.max}
<1>4. Maxs # {}
    <2>1. PICK f \in F : f.min = x
        BY <1>2
    <2>2. f.max \in Maxs
        BY <2>1
    <2>3. QED BY Zenon, <2>2
<1>5. PICK y \in Maxs : \A z \in Maxs : y <= z
    BY Zenon, <1>4, LeastNatural
<1>6. PICK f \in F : f.min = x /\ f.max = y
    BY <1>5
<1>7. \A g \in F \ {f} : Before(f, g)
    <2>1. TAKE g \in F \ {f}
    <2>2. CASE g.min = x
        <3>1. g.max \in Maxs
            BY <2>2
        <3>2. y <= g.max /\ g.max # y
            BY <1>5, <1>6, <2>2, <3>1
        <3>3. QED BY <1>6, <2>2, <3>2 DEF Before
    <2>3. CASE g.min # x
        BY <1>3, <1>6, <2>3 DEF Before
    <2>4. QED BY <2>2, <2>3
<1>8. QED BY Zenon, <1>7 DEF First

----------------------------------------------------------------------------
(* Plans *)

\* Files as a listing returns them: transactions are numbered from 1, and
\* there is one file per key.
Proper(F) ==
    /\ \A f \in F : f.lvl \in Levels /\ f.min \in Nat /\ f.max \in Nat /\ 1 <= f.min /\ f.min <= f.max
    /\ \A f, g \in F : SameKey(f, g) => f = g

\* Among files that are not too new there is a best one.
LEMMA BestIs ==
    ASSUME NEW F, Proper(F), F # {}, NEW n \in Nat, \A f \in F : f.max <= n
    PROVE  Best(F) \in F /\ \A g \in F \ {Best(F)} : candidate_better(g, Best(F))
<1> USE SnapshotLevelAssumption
<1>0. \A f \in F : f.lvl \in Nat /\ f.lvl <= SNAPSHOT_LEVEL /\ f.min \in Nat /\ f.max \in Nat /\ f.min <= f.max
    BY DEF Proper, Levels
<1> DEFINE Maxs == {x \in Nat : \E f \in F : x = f.max}
<1>1. PICK x \in Maxs : \A y \in Maxs : y <= x
    <2>1. Maxs # {} /\ Maxs \subseteq Nat /\ \A y \in Maxs : y <= n
        <3>1. PICK f \in F : TRUE
            BY Zenon
        <3>2. f.max \in Maxs
            BY <1>0
        <3>3. QED BY <3>2
    <2>2. QED BY Zenon, <2>1, GreatestNatural
<1> DEFINE Mins == {y \in Nat : \E f \in F : f.max = x /\ y = f.min}
<1>2. PICK y \in Mins : \A z \in Mins : y <= z
    <2>1. Mins # {} /\ Mins \subseteq Nat
        <3>1. PICK f \in F : f.max = x
            BY <1>1
        <3>2. f.min \in Mins
            BY <1>0, <3>1
        <3>3. QED BY <3>2
    <2>2. QED BY Zenon, <2>1, LeastNatural
<1> DEFINE Lvls == {z \in Nat : \E f \in F : f.max = x /\ f.min = y /\ z = f.lvl}
<1>3. PICK z \in Lvls : \A w \in Lvls : w <= z
    <2>1. Lvls # {} /\ Lvls \subseteq Nat /\ \A w \in Lvls : w <= SNAPSHOT_LEVEL
        <3>1. PICK f \in F : f.max = x /\ f.min = y
            BY <1>2
        <3>2. f.lvl \in Lvls
            BY <1>0, <3>1
        <3>3. QED BY <3>2, <1>0
    <2>2. QED BY Zenon, <2>1, GreatestNatural
<1>4. PICK b \in F : b.max = x /\ b.min = y /\ b.lvl = z
    BY <1>3
<1>5. ASSUME NEW g \in F \ {b} PROVE candidate_better(g, b)
    <2>1. g.max <= b.max
        BY <1>0, <1>1, <1>4
    <2>2. g.max = b.max => b.min <= g.min
        BY <1>0, <1>2, <1>4
    <2>3. g.max = b.max /\ g.min = b.min => g.lvl <= b.lvl
        BY <1>0, <1>3, <1>4
    <2>4. ~SameKey(g, b)
        BY <1>5 DEF Proper
    <2>5. QED BY <1>0, <2>1, <2>2, <2>3, <2>4 DEF candidate_better, SameKey
<1>6. QED BY Zenon, <1>4, <1>5 DEF Best

\* What takes a restore further is listed, and ends later.
LEMMA ExtensionsAre ==
    ASSUME NEW F, Proper(F), NEW n \in Nat, \A f \in F : f.max <= n, NEW txid, NEW c \in Nat,
           Extensions(F, txid, c) # {}
    PROVE  LET b == Best(Extensions(F, txid, c))
           IN /\ b \in Extensions(F, txid, c) /\ b \in F /\ b.lvl < SNAPSHOT_LEVEL
              /\ is_contiguous(c, b) /\ Admits(txid, b)
              /\ b.max \in Nat /\ b.max > c /\ b.max <= n
              /\ \A g \in Extensions(F, txid, c) \ {b} : candidate_better(g, b)
<1> DEFINE E == Extensions(F, txid, c)
<1>1. E \subseteq F
    BY DEF Extensions
<1>2. Proper(E) /\ \A f \in E : f.max <= n
    BY <1>1 DEF Proper
<1>3. Best(E) \in E /\ \A g \in E \ {Best(E)} : candidate_better(g, Best(E))
    BY <1>2, BestIs
<1>4. QED BY <1>1, <1>3 DEF Extensions, is_contiguous, Proper

\* The greedy chain is what its recursive definition says: every file it takes
\* ends later than the one before, so the recursion ends.
LEMMA ChainUnfolds ==
    ASSUME NEW F, Proper(F), NEW n \in Nat, \A f \in F : f.max <= n, NEW txid, NEW cur \in Nat
    PROVE  Chain(F, txid, cur) =
             IF (txid # 0 /\ cur >= txid) \/ Extensions(F, txid, cur) = {}
               THEN <<>>
               ELSE <<Best(Extensions(F, txid, cur))>> \o Chain(F, txid, Best(Extensions(F, txid, cur)).max)
<1> DEFINE Stop(c) == (txid # 0 /\ c >= txid) \/ Extensions(F, txid, c) = {}
           b(c) == Best(Extensions(F, txid, c))
           Body(g, c) == IF Stop(c) THEN <<>> ELSE <<b(c)>> \o g[b(c).max]
           Good(k) == \E g \in [Nat -> Seq(F)] : \A c \in Nat : c + k >= n => g[c] = Body(g, c)
           Bad == {k \in Nat : ~Good(k)}
<1>1. ASSUME NEW c \in Nat, ~Stop(c)
      PROVE  b(c) \in F /\ b(c).max \in Nat /\ b(c).max > c
    <2>1. Extensions(F, txid, c) # {}
        BY <1>1
    <2>2. QED BY <2>1, ExtensionsAre
<1>2. ASSUME NEW c \in Nat, c >= n PROVE Stop(c)
    BY <1>2 DEF Extensions, is_contiguous, Proper
<1> HIDE DEF Stop, b
<1>3. Good(0)
    <2> DEFINE g == [c \in Nat |-> <<>>]
    <2>1. g \in [Nat -> Seq(F)]
        OBVIOUS
    <2>2. \A c \in Nat : c + 0 >= n => g[c] = Body(g, c)
        BY <1>2
    <2>3. QED BY <2>1, <2>2
<1>4. ASSUME NEW k \in Nat, Good(k) PROVE Good(k + 1)
    <2>1. PICK g \in [Nat -> Seq(F)] : \A c \in Nat : c + k >= n => g[c] = Body(g, c)
        BY Zenon, <1>4
    <2>2. CASE k + 1 > n
        <3>1. \A c \in Nat : c + (k + 1) >= n => c + k >= n
            BY <2>2
        <3>2. QED BY Zenon, <2>1, <3>1
    <2>3. CASE k + 1 <= n
        <3> DEFINE d == n - (k + 1)
                   h == [g EXCEPT ![d] = Body(g, d)]
        <3>1. d \in Nat
            BY <2>3
        <3> HIDE DEF d
        <3>2. Body(g, d) \in Seq(F)
            <4>1. CASE Stop(d)
                BY <4>1
            <4>2. CASE ~Stop(d)
                <5>1. <<b(d)>> \in Seq(F) /\ g[b(d).max] \in Seq(F)
                    BY <4>2, <1>1, <3>1
                <5>2. QED BY <5>1, <4>2
            <4>3. QED BY <4>1, <4>2
        <3>3. h \in [Nat -> Seq(F)]
            BY <3>1, <3>2
        <3>4. ASSUME NEW c \in Nat, c >= d PROVE Body(h, c) = Body(g, c)
            <4>1. CASE Stop(c)
                BY <4>1
            <4>2. CASE ~Stop(c)
                <5>1. b(c).max \in Nat /\ b(c).max # d
                    BY <4>2, <1>1, <3>1, <3>4
                <5>2. h[b(c).max] = g[b(c).max]
                    BY <5>1
                <5>3. QED BY <5>2
            <4>3. QED BY <4>1, <4>2
        <3>5. ASSUME NEW c \in Nat, c + (k + 1) >= n PROVE h[c] = Body(h, c)
            <4>1. c >= d
                BY <3>5, <3>1 DEF d
            <4>2. CASE c = d
                BY Zenon, <4>1, <4>2, <3>4, <3>1
            <4>3. CASE c # d
                <5>1. c + k >= n
                    BY <4>1, <4>3, <3>1 DEF d
                <5>2. h[c] = g[c] /\ g[c] = Body(g, c)
                    BY Zenon, <5>1, <2>1, <4>3
                <5>3. QED BY Zenon, <5>2, <4>1, <3>4
            <4>4. QED BY <4>2, <4>3
        <3>6. QED BY Zenon, <3>3, <3>5
    <2>4. k + 1 > n \/ k + 1 <= n
        OBVIOUS
    <2>5. QED BY Zenon, <2>2, <2>3, <2>4
<1> HIDE DEF Good
<1>5. Bad = {}
    <2> SUFFICES ASSUME Bad # {} PROVE FALSE
        OBVIOUS
    <2>1. PICK k \in Bad : \A j \in Bad : k <= j
        BY Zenon, LeastNatural, Bad \subseteq Nat
    <2>2. k \in Nat /\ ~Good(k) /\ k # 0
        BY <1>3
    <2>3. k - 1 \in Nat /\ k - 1 \notin Bad
        BY <2>1, <2>2
    <2>4. Good((k - 1) + 1)
        BY <2>3, <1>4
    <2>5. QED BY <2>2, <2>4
<1>6. PICK g \in [Nat -> Seq(F)] : \A c \in Nat : g[c] = Body(g, c)
    <2>1. Good(n)
        BY <1>5
    <2>2. PICK g \in [Nat -> Seq(F)] : \A c \in Nat : c + n >= n => g[c] = Body(g, c)
        BY Zenon, <2>1 DEF Good
    <2>3. \A c \in Nat : c + n >= n
        OBVIOUS
    <2>4. QED BY Zenon, <2>2, <2>3
<1>7. g = [c \in Nat |-> Body(g, c)]
    BY Zenon, <1>6
<1> DEFINE ch == CHOOSE h : h = [c \in Nat |-> Body(h, c)]
<1>8. ch = [c \in Nat |-> Body(ch, c)]
    BY Zenon, <1>7
<1>9. \A c : Chain(F, txid, c) = ch[c]
    BY Zenon DEF Chain, Stop, b
<1> HIDE DEF ch
<1>10. ch[cur] = Body(ch, cur)
    BY Zenon, <1>8
<1>11. QED BY Zenon, <1>9, <1>10 DEF Stop, b

----------------------------------------------------------------------------

\* Where a chain from c ends.
EndFrom(c, q) == IF q = <<>> THEN c ELSE q[Len(q)].max

\* A chain of listed files from c on, each taking the one before further.
IsChain(F, txid, c, q) ==
    /\ q \in Seq(F)
    /\ \A i \in 1..Len(q) : is_contiguous(IF i = 1 THEN c ELSE q[i - 1].max, q[i]) /\ Admits(txid, q[i])

\* It ends where nothing listed goes on, or at the target.
IsComplete(F, txid, e) == (txid # 0 /\ e >= txid) \/ Extensions(F, txid, e) = {}

\* One more file in front.
LEMMA ChainCons ==
    ASSUME NEW F, NEW txid, NEW c \in Nat, NEW f \in F, is_contiguous(c, f), Admits(txid, f),
           NEW m, m = f.max, NEW q, IsChain(F, txid, m, q), NEW r, r = <<f>> \o q
    PROVE  /\ IsChain(F, txid, c, r)
           /\ r # <<>> /\ r[Len(r)].max = IF q = <<>> THEN f.max ELSE q[Len(q)].max
<1>1. q \in Seq(F) /\ <<f>> \in Seq(F)
    BY DEF IsChain
<1>2. /\ r \in Seq(F) /\ Len(r) = 1 + Len(q) /\ r[1] = f /\ Len(q) \in Nat
      /\ \A i \in 1..Len(q) : r[i + 1] = q[i]
    BY <1>1
<1>3. ASSUME NEW i \in 1..Len(r)
      PROVE  is_contiguous(IF i = 1 THEN c ELSE r[i - 1].max, r[i]) /\ Admits(txid, r[i])
    <2>1. CASE i = 1
        BY <2>1, <1>2
    <2>2. CASE i # 1
        <3>1. i - 1 \in 1..Len(q) /\ r[i] = q[i - 1]
            <4>1. i - 1 \in 1..Len(q) /\ (i - 1) + 1 = i
                BY <1>2, <2>2
            <4>2. QED BY <1>2, <4>1
        <3>2. is_contiguous(IF i - 1 = 1 THEN f.max ELSE q[(i - 1) - 1].max, q[i - 1]) /\ Admits(txid, q[i - 1])
            BY <3>1 DEF IsChain
        <3>3. r[i - 1].max = IF i - 1 = 1 THEN f.max ELSE q[(i - 1) - 1].max
            <4>1. CASE i - 1 = 1
                BY <4>1, <1>2
            <4>2. CASE i - 1 # 1
                <5>1. (i - 1) - 1 \in 1..Len(q) /\ ((i - 1) - 1) + 1 = i - 1
                    BY <3>1, <4>2
                <5>2. QED BY <5>1, <4>2, <1>2
            <4>3. QED BY Zenon, <4>1, <4>2
        <3>4. QED BY <3>1, <3>2, <3>3, <2>2
    <2>3. QED BY <2>1, <2>2
<1>4. r # <<>> /\ r[Len(r)].max = IF q = <<>> THEN f.max ELSE q[Len(q)].max
    <2>1. CASE q = <<>>
        BY <2>1, <1>2
    <2>2. CASE q # <<>>
        <3>1. Len(q) \in 1..Len(q) /\ r[Len(q) + 1] = q[Len(q)] /\ r # <<>> /\ Len(r) = Len(q) + 1
            BY <2>2, <1>1, <1>2
        <3>2. QED BY <3>1, <2>2
    <2>3. QED BY <2>1, <2>2
<1>5. QED BY <1>2, <1>3, <1>4 DEF IsChain

\* The greedy chain is a chain, and it is complete.
LEMMA ChainIs ==
    ASSUME NEW F, Proper(F), NEW n \in Nat, \A f \in F : f.max <= n, NEW txid, NEW cur \in Nat
    PROVE  LET q == Chain(F, txid, cur)
           IN /\ IsChain(F, txid, cur, q)
              /\ EndFrom(cur, q) \in Nat /\ EndFrom(cur, q) >= cur
              /\ q # <<>> => EndFrom(cur, q) > cur
              /\ IsComplete(F, txid, EndFrom(cur, q))
<1> DEFINE Q(c) == Chain(F, txid, c)
           Fine(c) == /\ IsChain(F, txid, c, Q(c))
                      /\ EndFrom(c, Q(c)) \in Nat /\ EndFrom(c, Q(c)) >= c
                      /\ Q(c) # <<>> => EndFrom(c, Q(c)) > c
                      /\ IsComplete(F, txid, EndFrom(c, Q(c)))
           Bad == {k \in Nat : \E c \in Nat : c + k >= n /\ ~Fine(c)}
<1>1. ASSUME NEW c \in Nat, IsComplete(F, txid, c) PROVE Fine(c)
    <2>1. Q(c) = <<>>
        BY Zenon, <1>1, ChainUnfolds DEF IsComplete
    <2>2. <<>> \in Seq(F) /\ Len(<<>>) = 0
        OBVIOUS
    <2> HIDE DEF Q
    <2>3. QED BY <1>1, <2>1, <2>2 DEF IsChain, EndFrom
<1>2. ASSUME NEW c \in Nat, ~IsComplete(F, txid, c),
             \A d \in Nat : d > c => Fine(d)
      PROVE  Fine(c)
    <2> DEFINE b == Best(Extensions(F, txid, c))
    <2>1. b \in F /\ is_contiguous(c, b) /\ Admits(txid, b) /\ b.max \in Nat /\ b.max > c
        BY <1>2, ExtensionsAre DEF IsComplete
    <2>2. Q(c) = <<b>> \o Q(b.max)
        BY <1>2, ChainUnfolds DEF IsComplete
    <2> HIDE DEF b, Q
    <2>3. Fine(b.max)
        BY <1>2, <2>1
    <2>4. IsChain(F, txid, c, Q(c)) /\ EndFrom(c, Q(c)) = EndFrom(b.max, Q(b.max)) /\ Q(c) # <<>>
        <3> DEFINE q == Q(b.max)
                   r == Q(c)
                   m == b.max
        <3>1. r = <<b>> \o q /\ IsChain(F, txid, m, q) /\ m = b.max
            BY <2>2, <2>3
        <3> HIDE DEF q, r, m
        <3>2. IsChain(F, txid, c, r)
            BY Zenon, <2>1, <3>1, ChainCons
        <3>5. r # <<>>
            BY <3>1 DEF IsChain
        <3>3. EndFrom(c, r) = EndFrom(b.max, q)
            BY <2>1, <3>1, ChainCons DEF EndFrom
        <3>4. QED BY <3>2, <3>3, <3>5 DEF q, r
    <2>5. QED BY <2>1, <2>3, <2>4
<1>3. ASSUME NEW c \in Nat, c >= n PROVE Fine(c)
    <2>1. Extensions(F, txid, c) = {}
        BY <1>3 DEF Extensions, is_contiguous, Proper
    <2>2. QED BY <2>1, <1>1 DEF IsComplete
<1> HIDE DEF Fine
<1>4. Bad = {}
    <2> SUFFICES ASSUME Bad # {} PROVE FALSE
        OBVIOUS
    <2>1. PICK k \in Bad : \A j \in Bad : k <= j
        BY Zenon, LeastNatural, Bad \subseteq Nat
    <2>2. PICK c \in Nat : c + k >= n /\ ~Fine(c)
        BY <2>1
    <2>3. c < n
        BY <1>3, <2>2
    <2>4. k # 0 /\ k \in Nat /\ k - 1 \in Nat
        BY <2>2, <2>3
    <2>5. k - 1 \notin Bad
        BY <2>1, <2>4
    <2>6. ASSUME NEW d \in Nat, d > c PROVE Fine(d)
        <3>1. d + (k - 1) >= n
            BY <2>2, <2>4, <2>6
        <3>2. QED BY <3>1, <2>4, <2>5
    <2>7. QED BY <1>1, <1>2, <2>2, <2>6
<1>5. Fine(cur)
    <2>1. cur + n >= n
        OBVIOUS
    <2>2. n \notin Bad
        BY Zenon, <1>4
    <2>3. QED BY Zenon, <2>1, <2>2
<1>6. QED BY <1>5 DEF Fine

\* One file further along the chain.
LEMMA ChainStep ==
    ASSUME NEW F, Proper(F), NEW n \in Nat, \A f \in F : f.max <= n, NEW txid, NEW c \in Nat,
           ~IsComplete(F, txid, c), NEW q \in Seq(F)
    PROVE  LET b == Best(Extensions(F, txid, c))
           IN Append(q, b) \o Chain(F, txid, b.max) = q \o Chain(F, txid, c)
<1> DEFINE b == Best(Extensions(F, txid, c))
           rest == Chain(F, txid, b.max)
<1>1. Chain(F, txid, c) = <<b>> \o rest
    BY Zenon, ChainUnfolds DEF IsComplete
<1>2. b \in F /\ b.max \in Nat
    BY ExtensionsAre DEF IsComplete
<1>3. rest \in Seq(F)
    BY <1>2, ChainIs DEF IsChain
<1> HIDE DEF b, rest
<1>4. Append(q, b) \o rest = q \o (<<b>> \o rest)
    BY <1>2, <1>3
<1>5. QED BY <1>1, <1>4 DEF b, rest

\* The last file of a listing.
LEMMA LastIs ==
    ASSUME NEW F, F # {}, \A f \in F : f.min \in Nat /\ f.max \in Nat,
           NEW n \in Nat, \A f \in F : f.min <= n /\ f.max <= n,
           \A f, g \in F : f.min = g.min /\ f.max = g.max => f = g
    PROVE  Last(F) \in F /\ \A g \in F \ {Last(F)} : Before(g, Last(F))
<1> DEFINE Mins == {x \in Nat : \E f \in F : x = f.min}
<1>1. PICK x \in Mins : \A y \in Mins : y <= x
    <2>1. Mins # {} /\ Mins \subseteq Nat /\ \A y \in Mins : y <= n
        <3>1. PICK f \in F : TRUE
            BY Zenon
        <3>2. f.min \in Mins
            OBVIOUS
        <3>3. QED BY <3>2
    <2>2. QED BY Zenon, <2>1, GreatestNatural
<1> DEFINE Maxs == {y \in Nat : \E f \in F : f.min = x /\ y = f.max}
<1>2. PICK y \in Maxs : \A z \in Maxs : z <= y
    <2>1. Maxs # {} /\ Maxs \subseteq Nat /\ \A z \in Maxs : z <= n
        <3>1. PICK f \in F : f.min = x
            BY <1>1
        <3>2. f.max \in Maxs
            BY <3>1
        <3>3. QED BY <3>2
    <2>2. QED BY Zenon, <2>1, GreatestNatural
<1>3. PICK f \in F : f.min = x /\ f.max = y
    BY <1>2
<1>4. ASSUME NEW g \in F \ {f} PROVE Before(g, f)
    <2>1. g.min <= x /\ (g.min = x => g.max <= y)
        BY <1>1, <1>2
    <2>2. QED BY <1>3, <2>1 DEF Before
<1>5. QED BY Zenon, <1>3, <1>4 DEF Last

\* The snapshot a plan starts from is the newest the target admits.
LEMMA SnapshotIs ==
    ASSUME NEW F, Proper(F), NEW n \in Nat, \A f \in F : f.max <= n, NEW txid,
           \A f \in F : f.lvl = SNAPSHOT_LEVEL => f.min = 1
    PROVE  LET q == SnapshotOf(F, txid)
           IN /\ IsChain(F, txid, 0, q) /\ EndOf(q) \in Nat /\ (q # <<>> => EndOf(q) > 0)
              /\ \A f \in F : f.lvl = SNAPSHOT_LEVEL /\ Admits(txid, f) => f.max <= EndOf(q)
              /\ q = <<>> \/ (Len(q) = 1 /\ q[1].lvl = SNAPSHOT_LEVEL /\ q[1] \in F)
<1> DEFINE snaps == {f \in ltx_files(F, SNAPSHOT_LEVEL, 0) : Admits(txid, f)}
           q == SnapshotOf(F, txid)
<1>0. \A f \in F : f.min \in Nat /\ f.max \in Nat /\ f.max >= 1 /\ f.min <= f.max
    BY DEF Proper
<1>1. \A f \in F : f \in snaps <=> f.lvl = SNAPSHOT_LEVEL /\ Admits(txid, f)
    BY <1>0 DEF ltx_files
<1>2. \A f \in snaps : f \in F /\ f.lvl = SNAPSHOT_LEVEL /\ Admits(txid, f)
    BY DEF ltx_files
<1>3. q = IF snaps = {} THEN <<>> ELSE <<Last(snaps)>>
    BY DEF SnapshotOf
<1> HIDE DEF snaps, q
<1>4. CASE snaps = {}
    BY <1>1, <1>3, <1>4 DEF IsChain, EndOf, q
<1>5. CASE snaps # {}
    <2>1. Last(snaps) \in snaps /\ \A g \in snaps \ {Last(snaps)} : Before(g, Last(snaps))
        <3>1. \A f \in snaps : f.min \in Nat /\ f.max \in Nat /\ f.min <= n /\ f.max <= n
            BY <1>0, <1>2
        <3>2. \A f, g \in snaps : f.min = g.min /\ f.max = g.max => f = g
            BY <1>2 DEF Proper, SameKey
        <3>3. QED BY <1>5, <3>1, <3>2, LastIs
    <2> DEFINE l == Last(snaps)
    <2>2. l \in F /\ l.min = 1 /\ Admits(txid, l) /\ l.max >= 1 /\ l.max \in Nat /\ l.lvl = SNAPSHOT_LEVEL
        BY <1>0, <1>2, <2>1
    <2>3. \A g \in snaps : g.max <= l.max
        BY <1>0, <1>2, <2>1, <2>2 DEF Before
    <2> HIDE DEF l
    <2>4. q = <<l>> /\ Len(q) = 1 /\ q[1] = l /\ q # <<>>
        BY <1>3, <1>5 DEF l
    <2>5. IsChain(F, txid, 0, q)
        BY <2>2, <2>4 DEF IsChain, is_contiguous
    <2>6. EndOf(q) = l.max
        BY <2>4 DEF EndOf
    <2>7. QED BY <1>1, <2>2, <2>3, <2>4, <2>5, <2>6 DEF q
<1>6. QED BY <1>4, <1>5

\* A plan, whatever it is worth: the newest snapshot and the chain from it on.
FullChain(F, txid) == SnapshotOf(F, txid) \o Chain(F, txid, EndOf(SnapshotOf(F, txid)))

\* It is a chain from nothing on that takes everything it can.
LEMMA FullChainIs ==
    ASSUME NEW F, Proper(F), NEW n \in Nat, \A f \in F : f.max <= n, NEW txid,
           \A f \in F : f.lvl = SNAPSHOT_LEVEL => f.min = 1
    PROVE  LET q == FullChain(F, txid)
           IN /\ IsChain(F, txid, 0, q)
              /\ EndOf(q) \in Nat /\ (q # <<>> => EndOf(q) > 0)
              /\ IsComplete(F, txid, EndOf(q))
              /\ \A f \in F : f.lvl = SNAPSHOT_LEVEL /\ Admits(txid, f) => f.max <= EndOf(q)
<1> DEFINE snap == SnapshotOf(F, txid)
           e    == EndOf(snap)
           ch   == Chain(F, txid, e)
           q    == FullChain(F, txid)
<1>1. /\ IsChain(F, txid, 0, snap) /\ e \in Nat /\ (snap # <<>> => e > 0)
      /\ \A f \in F : f.lvl = SNAPSHOT_LEVEL /\ Admits(txid, f) => f.max <= e
      /\ snap = <<>> \/ (Len(snap) = 1 /\ snap[1] \in F)
    BY SnapshotIs
<1>2. /\ IsChain(F, txid, e, ch) /\ EndFrom(e, ch) \in Nat /\ EndFrom(e, ch) >= e
      /\ (ch # <<>> => EndFrom(e, ch) > e) /\ IsComplete(F, txid, EndFrom(e, ch))
    BY <1>1, ChainIs
<1>3. q = snap \o ch
    BY DEF FullChain
<1> HIDE DEF snap, ch, q, e
<1> DEFINE Goal == /\ IsChain(F, txid, 0, q)
                   /\ EndOf(q) \in Nat /\ (q # <<>> => EndOf(q) > 0)
                   /\ IsComplete(F, txid, EndOf(q))
                   /\ \A f \in F : f.lvl = SNAPSHOT_LEVEL /\ Admits(txid, f) => f.max <= EndOf(q)
<1> SUFFICES Goal
    BY Zenon DEF q
<1>4. ch \in Seq(F) /\ snap \in Seq(F)
    BY <1>1, <1>2 DEF IsChain
<1>5. CASE snap = <<>>
    <2>1. q = ch /\ e = 0
        BY <1>3, <1>4, <1>5 DEF e, EndOf
    <2>2. EndOf(q) = EndFrom(e, ch)
        BY <2>1 DEF EndOf, EndFrom
    <2>3. /\ EndOf(q) \in Nat /\ (q # <<>> => EndOf(q) > 0)
          /\ \A f \in F : f.lvl = SNAPSHOT_LEVEL /\ Admits(txid, f) => f.max <= EndOf(q)
        <3> DEFINE z == EndFrom(e, ch)
        <3>1. z \in Nat /\ z >= e /\ (q # <<>> => z > e) /\ EndOf(q) = z
            BY <1>2, <2>1, <2>2
        <3> HIDE DEF z
        <3>2. QED BY <1>1, <2>1, <3>1 DEF Proper
    <2>4. QED BY Zenon, <1>2, <2>1, <2>2, <2>3
<1>6. CASE snap # <<>>
    <2>1. Len(snap) = 1 /\ snap[1] \in F /\ e = snap[1].max
        BY <1>1, <1>6 DEF e, EndOf
    <2>2. snap = <<snap[1]>>
        BY <1>4, <2>1
    <2>3. is_contiguous(0, snap[1]) /\ Admits(txid, snap[1])
        BY <1>1, <2>1 DEF IsChain
    <2>4. IsChain(F, txid, 0, q) /\ EndFrom(0, q) = EndFrom(e, ch) /\ q # <<>>
        <3> DEFINE f == snap[1]
        <3>1. f \in F /\ is_contiguous(0, f) /\ Admits(txid, f) /\ IsChain(F, txid, e, ch) /\ 0 \in Nat
            BY <1>2, <2>1, <2>3
        <3> HIDE DEF f
        <3>3. q = <<f>> \o ch /\ f.max = e
            BY Zenon, <1>3, <2>1, <2>2 DEF f
        <3>4. IsChain(F, txid, 0, q)
            BY Zenon, <3>1, <3>3, ChainCons
        <3>2. q # <<>>
            BY <3>3, <1>4
        <3>5. EndFrom(0, q) = EndFrom(f.max, ch)
            BY <3>1, <3>3, ChainCons DEF EndFrom
        <3>6. QED BY <3>2, <3>3, <3>4, <3>5
    <2>5. EndOf(q) = EndFrom(e, ch)
        BY <2>4 DEF EndOf, EndFrom
    <2>6. /\ EndOf(q) \in Nat /\ EndOf(q) > 0
          /\ \A f \in F : f.lvl = SNAPSHOT_LEVEL /\ Admits(txid, f) => f.max <= EndOf(q)
        <3> DEFINE z == EndFrom(e, ch)
        <3>1. z \in Nat /\ z >= e /\ EndOf(q) = z
            BY <1>2, <2>5
        <3> HIDE DEF z
        <3>2. QED BY <1>1, <1>6, <3>1 DEF Proper
    <2>7. QED BY Zenon, <1>2, <2>4, <2>5, <2>6
<1>7. QED BY Zenon, <1>5, <1>6

\* The files of a chain end one after another.
LEMMA ChainGrows ==
    ASSUME NEW F, Proper(F), NEW txid, NEW c, NEW q, IsChain(F, txid, c, q),
           NEW i \in 1..Len(q), NEW j \in 1..Len(q), i <= j
    PROVE  q[i].max <= q[j].max
<1> DEFINE n == Len(q)
           Bad == {k \in 1..n : i <= k /\ ~(q[i].max <= q[k].max)}
<1>1. q \in Seq(F) /\ n \in Nat
    BY DEF IsChain
<1>2. \A k \in 1..n : q[k].max \in Nat
    BY <1>1 DEF Proper
<1> SUFFICES ASSUME Bad # {} PROVE FALSE
    OBVIOUS
<1>3. PICK k \in Bad : \A l \in Bad : k <= l
    <2>1. Bad \subseteq Nat
        BY <1>1
    <2>2. QED BY Zenon, <2>1, LeastNatural
<1>4. k \in 1..n /\ k > i
    BY <1>1, <1>2, <1>3
<1>5. k - 1 \in 1..n /\ k - 1 \notin Bad /\ i <= k - 1 /\ k # 1
    BY <1>1, <1>3, <1>4
<1>6. q[k - 1].max < q[k].max
    BY <1>2, <1>4, <1>5 DEF IsChain, is_contiguous
<1>7. q[i].max <= q[k - 1].max
    BY <1>5
<1>8. q[i].max \in Nat /\ q[k].max \in Nat /\ q[k - 1].max \in Nat
    BY <1>2, <1>4, <1>5
<1>9. q[i].max <= q[k].max
    BY <1>6, <1>7, <1>8
<1>10. QED BY <1>3, <1>9

\* A chain from nothing covers every transaction up to its end, with files that
\* do not go beyond it.
LEMMA ChainCovers ==
    ASSUME NEW F, Proper(F), NEW txid, NEW q, q # <<>>, IsChain(F, txid, 0, q), NEW u \in Nat, 1 <= u, u <= EndOf(q)
    PROVE  \E i \in 1..Len(q) : q[i].min <= u /\ u <= q[i].max /\ q[i].max <= EndOf(q)
<1> DEFINE n == Len(q)
           e == EndOf(q)
<1>1. q \in Seq(F) /\ n \in Nat /\ n >= 1 /\ e = q[n].max
    BY DEF IsChain, EndOf
<1>2. \A i \in 1..n : q[i] \in F /\ q[i].min \in Nat /\ q[i].max \in Nat
    BY <1>1 DEF Proper
<1>3. ASSUME NEW i \in 1..n
      PROVE  q[i].min <= (IF i = 1 THEN 0 ELSE q[i - 1].max) + 1 /\ q[i].max > (IF i = 1 THEN 0 ELSE q[i - 1].max)
    BY DEF IsChain, is_contiguous
<1> HIDE DEF n, e
<1>4. \A i \in 1..n : q[i].max <= e
    <2> DEFINE Over == {i \in 1..n : ~(q[i].max <= e)}
    <2> SUFFICES ASSUME Over # {} PROVE FALSE
        OBVIOUS
    <2>1. PICK j \in Over : \A i \in Over : i <= j
        <3>1. Over \subseteq Nat /\ \A i \in Over : i <= n
            BY <1>1
        <3>2. QED BY Zenon, <1>1, <3>1, GreatestNatural
    <2>2. j \in 1..n /\ q[j].max \in Nat /\ e \in Nat /\ q[j].max > e
        BY <1>1, <1>2
    <2>3. j # n
        BY <1>1, <2>2
    <2>4. j + 1 \in 1..n /\ j + 1 # 1 /\ (j + 1) - 1 = j
        BY <1>1, <2>2, <2>3
    <2>5. q[j + 1].max > q[j].max
        BY <1>3, <2>4
    <2>6. j + 1 \in Over
        BY <1>2, <2>2, <2>4, <2>5
    <2>7. QED BY <2>1, <2>2, <2>6
<1>5. PICK i \in 1..n : u <= q[i].max /\ \A j \in 1..n : u <= q[j].max => i <= j
    <2> DEFINE Reach == {i \in 1..n : u <= q[i].max}
    <2>1. n \in Reach /\ Reach \subseteq Nat
        BY <1>1 DEF e
    <2>2. PICK i \in Reach : \A j \in Reach : i <= j
        BY Zenon, <2>1, LeastNatural
    <2>3. QED BY <2>2
<1>6. q[i].min <= u
    <2>1. CASE i = 1
        BY <1>2, <1>3, <2>1
    <2>2. CASE i # 1
        <3>1. i - 1 \in 1..n
            BY <1>1, <2>2
        <3>2. q[i - 1].max < u
            BY <1>2, <1>5, <3>1
        <3>3. QED BY <1>2, <1>3, <2>2, <3>1, <3>2
    <2>3. QED BY <2>1, <2>2
<1>7. QED BY <1>4, <1>5, <1>6 DEF n, e

----------------------------------------------------------------------------
(* A device's bucket *)

\* What a device leaves in its bucket: F holds files up to h, and lo is the
\* newest snapshot that was deleted.  Level 0 is a run of single transactions
\* that ends at h; below it, level 1 has everything from lo on.
Sound(F, h, lo) ==
    /\ h \in Nat /\ lo \in Nat
    /\ Proper(F)
    /\ \A f \in F : f.max <= h
    /\ \A f \in F : f.lvl = 0 => f.min = f.max
    /\ \A f \in F : f.lvl = SNAPSHOT_LEVEL => f.min = 1
    /\ h > 0 => \E f \in F : f.lvl = 0 /\ f.max = h
    /\ \A f \in F, t \in 1..h : f.lvl = 0 /\ f.max <= t => \E g \in F : g.lvl = 0 /\ g.max = t
    /\ \A t \in 1..h : \/ \E g \in F : g.lvl = 0 /\ g.max = t
                       \/ \E g \in F : g.lvl = 1 /\ g.max >= t
    /\ \A t \in 1..h : t >= lo /\ (\E g \in F : g.lvl = 1 /\ g.max >= t)
          => \E g \in F : g.lvl = 1 /\ g.min <= t /\ t <= g.max
    /\ \A f, g \in F : f.lvl = g.lvl /\ f.lvl # 0 /\ f.lvl # SNAPSHOT_LEVEL /\ f # g => f.max < g.min \/ g.max < f.min
    /\ lo = 0 \/ \E g \in F : g.lvl = SNAPSHOT_LEVEL /\ g.max >= lo

\* From every position that is not below a deleted snapshot a file of the
\* levels below the snapshots goes on.
LEMMA SoundGoesOn ==
    ASSUME NEW F, NEW h, NEW lo, Sound(F, h, lo), NEW p \in Nat, p >= lo, p < h
    PROVE  \E f \in F : f.lvl < SNAPSHOT_LEVEL /\ is_contiguous(p, f)
<1> USE SnapshotLevelAssumption
<1>1. h \in Nat /\ lo \in Nat /\ p + 1 \in 1..h /\ p + 1 >= lo
    BY DEF Sound
<1>2. PICK f \in F : f.lvl \in {0, 1} /\ f.min <= p + 1 /\ p + 1 <= f.max
    <2>1. CASE \E g \in F : g.lvl = 0 /\ g.max = p + 1
        BY <1>1, <2>1 DEF Sound
    <2>2. CASE \E g \in F : g.lvl = 1 /\ g.max >= p + 1
        BY <1>1, <2>2 DEF Sound
    <2>3. QED BY <1>1, <2>1, <2>2 DEF Sound
<1>3. f.max \in Nat /\ f.min \in Nat
    BY DEF Sound, Proper
<1>4. QED BY <1>2, <1>3 DEF is_contiguous

\* A restore of the latest state finds a plan from nothing to h.
LEMMA SoundRestores ==
    ASSUME NEW F, NEW h, NEW lo, Sound(F, h, lo), F # {}
    PROVE  LET plan == calc_restore_plan(F, 0)
           IN plan.res = "ok" /\ plan.infos[1].min = 1 /\ EndOf(plan.infos) = h
<1> USE SnapshotLevelAssumption
<1> DEFINE q == FullChain(F, 0)
           e == EndOf(q)
<1>1. /\ Proper(F) /\ h \in Nat /\ lo \in Nat /\ (\A f \in F : f.max <= h)
      /\ \A f \in F : f.lvl = SNAPSHOT_LEVEL => f.min = 1
      /\ lo = 0 \/ \E g \in F : g.lvl = SNAPSHOT_LEVEL /\ g.max >= lo
    BY DEF Sound
<1>2. /\ IsChain(F, 0, 0, q) /\ e \in Nat /\ (q # <<>> => e > 0) /\ IsComplete(F, 0, e)
      /\ \A f \in F : f.lvl = SNAPSHOT_LEVEL /\ Admits(0, f) => f.max <= e
    BY <1>1, FullChainIs
<1>3. q = SnapshotOf(F, 0) \o Chain(F, 0, EndOf(SnapshotOf(F, 0)))
    BY DEF FullChain
<1>4. h > 0
    BY <1>1 DEF Proper
<1> HIDE DEF q
<1>5. q \in Seq(F)
    BY <1>2 DEF IsChain
<1>6. e <= h
    <2>1. CASE q = <<>>
        BY <1>1, <2>1 DEF EndOf
    <2>2. CASE q # <<>>
        BY <1>1, <1>5, <2>2 DEF EndOf
    <2>3. QED BY <2>1, <2>2
<1> HIDE DEF e
<1>7. e >= lo
    BY <1>1, <1>2 DEF Admits, Proper
<1>8. e = h
    <2> SUFFICES ASSUME e < h PROVE FALSE
        BY <1>1, <1>2, <1>6
    <2>1. PICK f \in F : f.lvl < SNAPSHOT_LEVEL /\ is_contiguous(e, f)
        BY <1>2, <1>7, SoundGoesOn
    <2>2. f \in Extensions(F, 0, e)
        BY <2>1 DEF Extensions, Admits
    <2>3. QED BY <1>2, <2>2 DEF IsComplete
<1>9. q # <<>>
    BY <1>4, <1>8 DEF e, EndOf
<1>10. ~\E f \in F : f.lvl < SNAPSHOT_LEVEL /\ f.min > EndOf(q) + 1
    BY <1>1, <1>8 DEF Proper, e
<1> DEFINE plan == calc_restore_plan(F, 0)
<1>11. plan = [res |-> "ok", infos |-> q]
    BY <1>3, <1>9, <1>10 DEF calc_restore_plan
<1>12. q[1].min = 1
    <2>1. 1 \in 1..Len(q)
        BY <1>5, <1>9
    <2>2. q[1].min <= 0 + 1 /\ q[1] \in F
        BY <1>2, <1>5, <2>1 DEF IsChain, is_contiguous
    <2>3. QED BY <1>1, <2>2 DEF Proper
<1> HIDE DEF plan
<1>13. plan.res = "ok" /\ plan.infos = q
    BY <1>11
<1>14. QED BY <1>8, <1>12, <1>13 DEF plan, e

\* An empty bucket is sound.
LEMMA SoundEmpty == Sound({}, 0, 0)
BY DEF Sound, Proper

\* The next transaction.
LEMMA SoundPush ==
    ASSUME NEW F, NEW h, NEW lo, Sound(F, h, lo), NEW x, x.lvl = 0, x.min = h + 1, x.max = h + 1
    PROVE  Sound(F \cup {x}, h + 1, lo)
<1> USE SnapshotLevelAssumption
<1> DEFINE G == F \cup {x}
<1>1. h + 1 \in Nat /\ lo \in Nat
    BY DEF Sound, Proper, SameKey, Levels
<1>2. Proper(G)
    BY DEF Sound, Proper, SameKey, Levels
<1>3. \A f \in G : f.max <= h + 1
    BY DEF Sound, Proper, SameKey, Levels
<1>4. \A f \in G : f.lvl = 0 => f.min = f.max
    BY DEF Sound, Proper, SameKey, Levels
<1>5. \A f \in G : f.lvl = SNAPSHOT_LEVEL => f.min = 1
    BY DEF Sound, Proper, SameKey, Levels
<1>6. h + 1 > 0 => \E f \in G : f.lvl = 0 /\ f.max = h + 1
    BY DEF Sound, Proper, SameKey, Levels
<1>7. \A f \in G, t \in 1..(h + 1) : f.lvl = 0 /\ f.max <= t => \E g \in G : g.lvl = 0 /\ g.max = t
    BY DEF Sound, Proper, SameKey, Levels
<1>8. \A t \in 1..(h + 1) : (\E g \in G : g.lvl = 0 /\ g.max = t) \/ (\E g \in G : g.lvl = 1 /\ g.max >= t)
    BY DEF Sound, Proper, SameKey, Levels
<1>9. \A t \in 1..(h + 1) : t >= lo /\ (\E g \in G : g.lvl = 1 /\ g.max >= t)
          => \E g \in G : g.lvl = 1 /\ g.min <= t /\ t <= g.max
    BY DEF Sound, Proper, SameKey, Levels
<1>10. \A f, g \in G : f.lvl = g.lvl /\ f.lvl # 0 /\ f.lvl # SNAPSHOT_LEVEL /\ f # g => f.max < g.min \/ g.max < f.min
    BY DEF Sound, Proper, SameKey, Levels
<1>11. lo = 0 \/ \E g \in G : g.lvl = SNAPSHOT_LEVEL /\ g.max >= lo
    BY DEF Sound, Proper, SameKey, Levels
<1>12. QED BY <1>1, <1>2, <1>3, <1>4, <1>5, <1>6, <1>7, <1>8, <1>9, <1>10, <1>11 DEF Sound

\* A merged file that starts after its level, and in level 1 leaves nothing out.
LEMMA SoundMerge ==
    ASSUME NEW F, NEW h, NEW lo, Sound(F, h, lo), NEW x, x.lvl \in Levels \ {0, SNAPSHOT_LEVEL},
           x.min \in Nat, x.max \in Nat, 1 <= x.min, x.min <= x.max, x.max <= h,
           \A g \in F : g.lvl = x.lvl => g.max < x.min,
           \A g \in F : x.lvl = 1 /\ g.lvl = 0 /\ g.min < x.min => \E k \in F : k.lvl = 1 /\ k.max >= g.max
    PROVE  Sound(F \cup {x}, h, lo)
<1> USE SnapshotLevelAssumption
<1> DEFINE G == F \cup {x}
<1>1. h \in Nat /\ lo \in Nat
    BY DEF Sound, Proper, SameKey, Levels
<1>2. Proper(G)
    BY DEF Sound, Proper, SameKey, Levels
<1>3. \A f \in G : f.max <= h
    BY DEF Sound, Proper, SameKey, Levels
<1>4. \A f \in G : f.lvl = 0 => f.min = f.max
    BY DEF Sound, Proper, SameKey, Levels
<1>5. \A f \in G : f.lvl = SNAPSHOT_LEVEL => f.min = 1
    BY DEF Sound, Proper, SameKey, Levels
<1>6. h > 0 => \E f \in G : f.lvl = 0 /\ f.max = h
    BY DEF Sound, Proper, SameKey, Levels
<1>7. \A f \in G, t \in 1..(h) : f.lvl = 0 /\ f.max <= t => \E g \in G : g.lvl = 0 /\ g.max = t
    BY DEF Sound, Proper, SameKey, Levels
<1>8. \A t \in 1..(h) : (\E g \in G : g.lvl = 0 /\ g.max = t) \/ (\E g \in G : g.lvl = 1 /\ g.max >= t)
    BY DEF Sound, Proper, SameKey, Levels
<1>9. \A t \in 1..(h) : t >= lo /\ (\E g \in G : g.lvl = 1 /\ g.max >= t)
          => \E g \in G : g.lvl = 1 /\ g.min <= t /\ t <= g.max
    BY DEF Sound, Proper, SameKey, Levels
<1>10. \A f, g \in G : f.lvl = g.lvl /\ f.lvl # 0 /\ f.lvl # SNAPSHOT_LEVEL /\ f # g => f.max < g.min \/ g.max < f.min
    BY DEF Sound, Proper, SameKey, Levels
<1>11. lo = 0 \/ \E g \in G : g.lvl = SNAPSHOT_LEVEL /\ g.max >= lo
    BY DEF Sound, Proper, SameKey, Levels
<1>12. QED BY <1>1, <1>2, <1>3, <1>4, <1>5, <1>6, <1>7, <1>8, <1>9, <1>10, <1>11 DEF Sound

\* A snapshot of everything.
LEMMA SoundPut ==
    ASSUME NEW F, NEW h, NEW lo, Sound(F, h, lo), h > 0, NEW x, x.lvl = SNAPSHOT_LEVEL, x.min = 1, x.max = h
    PROVE  Sound({g \in F : ~SameKey(x, g)} \cup {x}, h, lo)
<1> USE SnapshotLevelAssumption
<1> DEFINE G == {g \in F : ~SameKey(x, g)} \cup {x}
<1>1. h \in Nat /\ lo \in Nat
    BY DEF Sound, Proper, SameKey, Levels
<1>2. Proper(G)
    BY DEF Sound, Proper, SameKey, Levels
<1>3. \A f \in G : f.max <= h
    BY DEF Sound, Proper, SameKey, Levels
<1>4. \A f \in G : f.lvl = 0 => f.min = f.max
    BY DEF Sound, Proper, SameKey, Levels
<1>5. \A f \in G : f.lvl = SNAPSHOT_LEVEL => f.min = 1
    BY DEF Sound, Proper, SameKey, Levels
<1>6. h > 0 => \E f \in G : f.lvl = 0 /\ f.max = h
    BY DEF Sound, Proper, SameKey, Levels
<1>7. \A f \in G, t \in 1..(h) : f.lvl = 0 /\ f.max <= t => \E g \in G : g.lvl = 0 /\ g.max = t
    BY DEF Sound, Proper, SameKey, Levels
<1>8. \A t \in 1..(h) : (\E g \in G : g.lvl = 0 /\ g.max = t) \/ (\E g \in G : g.lvl = 1 /\ g.max >= t)
    BY DEF Sound, Proper, SameKey, Levels
<1>9. \A t \in 1..(h) : t >= lo /\ (\E g \in G : g.lvl = 1 /\ g.max >= t)
          => \E g \in G : g.lvl = 1 /\ g.min <= t /\ t <= g.max
    BY DEF Sound, Proper, SameKey, Levels
<1>10. \A f, g \in G : f.lvl = g.lvl /\ f.lvl # 0 /\ f.lvl # SNAPSHOT_LEVEL /\ f # g => f.max < g.min \/ g.max < f.min
    BY DEF Sound, Proper, SameKey, Levels
<1>11. lo = 0 \/ \E g \in G : g.lvl = SNAPSHOT_LEVEL /\ g.max >= lo
    BY DEF Sound, Proper, SameKey, Levels
<1>12. QED BY <1>1, <1>2, <1>3, <1>4, <1>5, <1>6, <1>7, <1>8, <1>9, <1>10, <1>11 DEF Sound

\* The oldest transaction of level 0, when level 1 has it.
LEMMA SoundDropL0 ==
    ASSUME NEW F, NEW h, NEW lo, Sound(F, h, lo), NEW x \in F, x.lvl = 0, x.max < h,
           \E k \in F : k.lvl = 1 /\ x.max <= k.max,
           \A g \in F : g.lvl = 0 /\ g # x => x.max < g.max
    PROVE  Sound(F \ {x}, h, lo)
<1> USE SnapshotLevelAssumption
<1> DEFINE G == F \ {x}
<1>1. h \in Nat /\ lo \in Nat
    BY DEF Sound, Proper, SameKey, Levels
<1>2. Proper(G)
    BY DEF Sound, Proper, SameKey, Levels
<1>3. \A f \in G : f.max <= h
    BY DEF Sound, Proper, SameKey, Levels
<1>4. \A f \in G : f.lvl = 0 => f.min = f.max
    BY DEF Sound, Proper, SameKey, Levels
<1>5. \A f \in G : f.lvl = SNAPSHOT_LEVEL => f.min = 1
    BY DEF Sound, Proper, SameKey, Levels
<1>6. h > 0 => \E f \in G : f.lvl = 0 /\ f.max = h
    BY DEF Sound, Proper, SameKey, Levels
<1>7. \A f \in G, t \in 1..(h) : f.lvl = 0 /\ f.max <= t => \E g \in G : g.lvl = 0 /\ g.max = t
    BY DEF Sound, Proper, SameKey, Levels
<1>8. \A t \in 1..(h) : (\E g \in G : g.lvl = 0 /\ g.max = t) \/ (\E g \in G : g.lvl = 1 /\ g.max >= t)
    BY DEF Sound, Proper, SameKey, Levels
<1>9. \A t \in 1..(h) : t >= lo /\ (\E g \in G : g.lvl = 1 /\ g.max >= t)
          => \E g \in G : g.lvl = 1 /\ g.min <= t /\ t <= g.max
    BY DEF Sound, Proper, SameKey, Levels
<1>10. \A f, g \in G : f.lvl = g.lvl /\ f.lvl # 0 /\ f.lvl # SNAPSHOT_LEVEL /\ f # g => f.max < g.min \/ g.max < f.min
    BY DEF Sound, Proper, SameKey, Levels
<1>11. lo = 0 \/ \E g \in G : g.lvl = SNAPSHOT_LEVEL /\ g.max >= lo
    BY DEF Sound, Proper, SameKey, Levels
<1>12. QED BY <1>1, <1>2, <1>3, <1>4, <1>5, <1>6, <1>7, <1>8, <1>9, <1>10, <1>11 DEF Sound

\* A snapshot older than another one.
LEMMA SoundDropSnapshot ==
    ASSUME NEW F, NEW h, NEW lo, Sound(F, h, lo), NEW x \in F, x.lvl = SNAPSHOT_LEVEL, NEW k \in F, k.lvl = SNAPSHOT_LEVEL, x.max < k.max
    PROVE  Sound(F \ {x}, h, (IF x.max > lo THEN x.max ELSE lo))
<1> USE SnapshotLevelAssumption
<1> DEFINE G == F \ {x}
<1>1. h \in Nat /\ (IF x.max > lo THEN x.max ELSE lo) \in Nat
    BY DEF Sound, Proper, SameKey, Levels
<1>2. Proper(G)
    BY DEF Sound, Proper, SameKey, Levels
<1>3. \A f \in G : f.max <= h
    BY DEF Sound, Proper, SameKey, Levels
<1>4. \A f \in G : f.lvl = 0 => f.min = f.max
    BY DEF Sound, Proper, SameKey, Levels
<1>5. \A f \in G : f.lvl = SNAPSHOT_LEVEL => f.min = 1
    BY DEF Sound, Proper, SameKey, Levels
<1>6. h > 0 => \E f \in G : f.lvl = 0 /\ f.max = h
    BY DEF Sound, Proper, SameKey, Levels
<1>7. \A f \in G, t \in 1..(h) : f.lvl = 0 /\ f.max <= t => \E g \in G : g.lvl = 0 /\ g.max = t
    BY DEF Sound, Proper, SameKey, Levels
<1>8. \A t \in 1..(h) : (\E g \in G : g.lvl = 0 /\ g.max = t) \/ (\E g \in G : g.lvl = 1 /\ g.max >= t)
    BY DEF Sound, Proper, SameKey, Levels
<1>9. \A t \in 1..(h) : t >= (IF x.max > lo THEN x.max ELSE lo) /\ (\E g \in G : g.lvl = 1 /\ g.max >= t)
          => \E g \in G : g.lvl = 1 /\ g.min <= t /\ t <= g.max
    BY DEF Sound, Proper, SameKey, Levels
<1>10. \A f, g \in G : f.lvl = g.lvl /\ f.lvl # 0 /\ f.lvl # SNAPSHOT_LEVEL /\ f # g => f.max < g.min \/ g.max < f.min
    BY DEF Sound, Proper, SameKey, Levels
<1>11. (IF x.max > lo THEN x.max ELSE lo) = 0 \/ \E g \in G : g.lvl = SNAPSHOT_LEVEL /\ g.max >= (IF x.max > lo THEN x.max ELSE lo)
    BY DEF Sound, Proper, SameKey, Levels
<1>12. QED BY <1>1, <1>2, <1>3, <1>4, <1>5, <1>6, <1>7, <1>8, <1>9, <1>10, <1>11 DEF Sound

\* A merged file below a deleted snapshot, when its level goes on.
LEMMA SoundDropMerged ==
    ASSUME NEW F, NEW h, NEW lo, Sound(F, h, lo), NEW x \in F, x.lvl # 0, x.lvl # SNAPSHOT_LEVEL, x.max < lo,
           NEW k \in F, k.lvl = x.lvl, x.max < k.max
    PROVE  Sound(F \ {x}, h, lo)
<1> USE SnapshotLevelAssumption
<1> DEFINE G == F \ {x}
<1>1. h \in Nat /\ lo \in Nat
    BY DEF Sound, Proper, SameKey, Levels
<1>2. Proper(G)
    BY DEF Sound, Proper, SameKey, Levels
<1>3. \A f \in G : f.max <= h
    BY DEF Sound, Proper, SameKey, Levels
<1>4. \A f \in G : f.lvl = 0 => f.min = f.max
    BY DEF Sound, Proper, SameKey, Levels
<1>5. \A f \in G : f.lvl = SNAPSHOT_LEVEL => f.min = 1
    BY DEF Sound, Proper, SameKey, Levels
<1>6. h > 0 => \E f \in G : f.lvl = 0 /\ f.max = h
    BY DEF Sound, Proper, SameKey, Levels
<1>7. \A f \in G, t \in 1..(h) : f.lvl = 0 /\ f.max <= t => \E g \in G : g.lvl = 0 /\ g.max = t
    BY DEF Sound, Proper, SameKey, Levels
<1>8. \A t \in 1..(h) : (\E g \in G : g.lvl = 0 /\ g.max = t) \/ (\E g \in G : g.lvl = 1 /\ g.max >= t)
    BY DEF Sound, Proper, SameKey, Levels
<1>9. \A t \in 1..(h) : t >= lo /\ (\E g \in G : g.lvl = 1 /\ g.max >= t)
          => \E g \in G : g.lvl = 1 /\ g.min <= t /\ t <= g.max
    BY DEF Sound, Proper, SameKey, Levels
<1>10. \A f, g \in G : f.lvl = g.lvl /\ f.lvl # 0 /\ f.lvl # SNAPSHOT_LEVEL /\ f # g => f.max < g.min \/ g.max < f.min
    BY DEF Sound, Proper, SameKey, Levels
<1>11. lo = 0 \/ \E g \in G : g.lvl = SNAPSHOT_LEVEL /\ g.max >= lo
    BY DEF Sound, Proper, SameKey, Levels
<1>12. QED BY <1>1, <1>2, <1>3, <1>4, <1>5, <1>6, <1>7, <1>8, <1>9, <1>10, <1>11 DEF Sound

\* The files of a level.
LEMMA LevelIs ==
    ASSUME NEW F, Proper(F), NEW l
    PROVE  \A f : f \in ltx_files(F, l, 0) <=> f \in F /\ f.lvl = l
BY DEF ltx_files, Proper

\* What comes first, last or reaches furthest is that.
LEMMA FirstUnique ==
    ASSUME NEW F, \A f \in F : f.min \in Nat /\ f.max \in Nat, NEW a \in F, \A g \in F \ {a} : Before(a, g)
    PROVE  First(F) = a
<1>1. \E x \in F : \A g \in F \ {x} : Before(x, g)
    BY Zenon
<1> DEFINE b == First(F)
<1>2. b \in F /\ \A g \in F \ {b} : Before(b, g)
    BY Zenon, <1>1 DEF First
<1> HIDE DEF b
<1>3. b = a
    BY <1>2 DEF Before
<1>4. QED BY <1>3 DEF b

\* So for the last.
LEMMA LastUnique ==
    ASSUME NEW F, \A f \in F : f.min \in Nat /\ f.max \in Nat, NEW a \in F, \A g \in F \ {a} : Before(g, a)
    PROVE  Last(F) = a
<1>1. \E x \in F : \A g \in F \ {x} : Before(g, x)
    BY Zenon
<1> DEFINE b == Last(F)
<1>2. b \in F /\ \A g \in F \ {b} : Before(g, b)
    BY Zenon, <1>1 DEF Last
<1> HIDE DEF b
<1>3. b = a
    BY <1>2 DEF Before
<1>4. QED BY <1>3 DEF b

\* So for the newest transaction.
LEMMA MaxTxidUnique ==
    ASSUME NEW F, \A f \in F : f.max \in Nat, NEW a \in F, \A g \in F : g.max <= a.max
    PROVE  MaxTxid(F) = a.max
<1> DEFINE b == CHOOSE f \in F : \A g \in F : g.max <= f.max
<1>1. b \in F /\ \A g \in F : g.max <= b.max
    BY Zenon
<1> HIDE DEF b
<1>2. b.max = a.max
    BY <1>1
<1>3. MaxTxid(F) = b.max
    BY Zenon DEF MaxTxid, b
<1>4. QED BY <1>2, <1>3

\* The newest file of a level.
LEMMA NewestIs ==
    ASSUME NEW F, Proper(F), NEW n \in Nat, \A f \in F : f.max <= n, NEW l, ltx_files(F, l, 0) # {}
    PROVE  LET x == max_ltx_file_info(F, l)
           IN x \in F /\ x.lvl = l /\ \A g \in F : g.lvl = l => g.max <= x.max
<1> DEFINE L == ltx_files(F, l, 0)
           T == {f \in L : f.max = MaxTxid(L)}
           x == Last(T)
<1>1. \A f : f \in L <=> f \in F /\ f.lvl = l
    BY LevelIs
<1> HIDE DEF L
<1>2. /\ \A f \in L : f.max \in Nat /\ f.min \in Nat /\ f.max <= n /\ f.min <= n
      /\ \A f, g \in L : f.min = g.min /\ f.max = g.max => f = g
    BY <1>1 DEF Proper, SameKey
<1>3. (\A f \in L : f.max <= MaxTxid(L)) /\ \E f \in L : f.max = MaxTxid(L)
    BY <1>2, MaxTxidIs DEF L
<1>4. T # {} /\ T \subseteq L
    BY <1>3
<1>5. x \in T
    <2> HIDE DEF T
    <2>1. /\ \A f \in T : f.max \in Nat /\ f.min \in Nat /\ f.max <= n /\ f.min <= n
          /\ \A f, g \in T : f.min = g.min /\ f.max = g.max => f = g
        BY <1>2, <1>4
    <2>2. QED BY <1>4, <2>1, LastIs
<1>6. max_ltx_file_info(F, l) = x
    BY DEF max_ltx_file_info, L
<1> HIDE DEF x
<1>7. x \in F /\ x.lvl = l /\ \A g \in F : g.lvl = l => g.max <= x.max
    BY <1>1, <1>3, <1>5
<1>8. QED BY <1>6, <1>7

\* The files of the level below that start after the level's last transaction.
SourcesOf(F, l) ==
    ltx_files(F, l - 1, IF ltx_files(F, l, 0) = {} THEN 0 ELSE max_ltx_file_info(F, l).max + 1)

\* Which files a merge into a level reads (compaction.rs: list from
\* max_ltx_file_info + 1).
LEMMA SourcesAre ==
    ASSUME NEW F, Proper(F), NEW n \in Nat, \A f \in F : f.max <= n, NEW l
    PROVE  \A f : f \in SourcesOf(F, l) <=> f \in F /\ f.lvl = l - 1 /\ \A g \in F : g.lvl = l => f.min > g.max
<1>1. \A f : f \in ltx_files(F, l, 0) <=> f \in F /\ f.lvl = l
    BY LevelIs
<1>2. CASE ltx_files(F, l, 0) = {}
    BY <1>1, <1>2 DEF SourcesOf, ltx_files, Proper
<1>3. CASE ltx_files(F, l, 0) # {}
    <2> DEFINE x == max_ltx_file_info(F, l)
    <2>1. x \in F /\ x.lvl = l /\ \A g \in F : g.lvl = l => g.max <= x.max
        BY <1>3, NewestIs
    <2>2. SourcesOf(F, l) = ltx_files(F, l - 1, x.max + 1)
        BY <1>3 DEF SourcesOf
    <2> HIDE DEF x
    <2>3. QED BY <2>1, <2>2 DEF ltx_files, Proper
<1>4. QED BY <1>2, <1>3

\* The front and the back of the files of one level.
LEMMA RangeOf ==
    ASSUME NEW F, NEW h, NEW lo, Sound(F, h, lo), NEW l \in 0..(SNAPSHOT_LEVEL - 1),
           NEW S, S \subseteq F, S # {}, \A f \in S : f.lvl = l
    PROVE  /\ First(S) \in S /\ \A g \in S : g # First(S) => Before(First(S), g)
           /\ Last(S) \in S /\ \A g \in S : g # Last(S) => Before(g, Last(S))
           /\ \A g \in S : First(S).min <= g.min /\ g.max <= Last(S).max
           /\ MaxTxid(S) = Last(S).max
<1> USE SnapshotLevelAssumption
<1>1. /\ \A f \in S : f.min \in Nat /\ f.max \in Nat /\ f.min <= h /\ f.max <= h /\ f.min <= f.max
      /\ \A f, g \in S : f.min = g.min /\ f.max = g.max => f = g
      /\ h \in Nat
    BY DEF Sound, Proper, SameKey
<1> DEFINE a == First(S)
           b == Last(S)
<1>2. a \in S /\ \A g \in S \ {a} : Before(a, g)
    BY <1>1, FirstIs
<1>3. b \in S /\ \A g \in S \ {b} : Before(g, b)
    BY <1>1, LastIs
<1> HIDE DEF a, b
<1>4. \A g \in S : a.min <= g.min
    BY <1>1, <1>2 DEF Before
<1>5. ASSUME NEW g \in S PROVE g.max <= b.max
    <2>1. CASE g = b
        BY <1>1, <1>3, <2>1
    <2>2. CASE g # b
        <3>1. Before(g, b) /\ g \in F /\ b \in F /\ g.lvl = l /\ b.lvl = l
            BY <1>3, <2>2
        <3>2. CASE l = 0
            BY <1>1, <1>3, <3>1, <3>2 DEF Before, Sound
        <3>3. CASE l # 0
            <4>1. g.max < b.min \/ b.max < g.min
                BY <2>2, <3>1, <3>3 DEF Sound
            <4>2. QED BY <1>1, <1>3, <3>1, <4>1 DEF Before
        <3>4. QED BY <3>2, <3>3
    <2>3. QED BY <2>1, <2>2
<1>6. MaxTxid(S) = b.max
    BY <1>1, <1>3, <1>5, MaxTxidUnique
<1>7. QED BY <1>2, <1>3, <1>4, <1>5, <1>6 DEF a, b
=============================================================================
