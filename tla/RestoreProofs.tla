--------------------------- MODULE RestoreProofs ---------------------------
(***************************************************************************)
(* Proofs about RestorePlan, for every listing, every target and every     *)
(* number of levels: calc_restore_plan, which reads each level once and    *)
(* keeps one candidate per level, computes the greedy plan, and the greedy *)
(* plan reaches the target exactly when some chain of files does.          *)
(***************************************************************************)
EXTENDS RestorePlan, BucketProofs

\* What the bucket of a plan is.
ListedOK ==
    /\ Proper(bucket)
    /\ \A f \in bucket : f.max <= ListBound
    /\ \A f \in bucket : f.lvl = SNAPSHOT_LEVEL => f.min = 1

\* A cursor holds at most one file of its level; it has consumed only what
\* starts within reach, and what it forgot is stale, beyond the target, or worse
\* than what it holds.
CursorOK(l) ==
    /\ unread[l] \subseteq {f \in bucket : f.lvl = l}
    /\ candidate[l] \subseteq {f \in bucket : f.lvl = l}
    /\ \A c, d \in candidate[l] : c = d
    /\ \A c \in candidate[l] : c \notin unread[l] /\ Admits(txid, c)
    /\ \A f \in bucket : f.lvl = l /\ f \notin unread[l] =>
          /\ f.min <= current_max + 1
          /\ \/ f.max <= current_max \/ ~Admits(txid, f)
             \/ \E c \in candidate[l] : c = f \/ candidate_better(f, c)

\* After a refresh the candidates extend the plan, and what is unread does not.
Refreshedness(l) ==
    /\ \A c \in candidate[l] : c.max > current_max
    /\ \A f \in unread[l] : f.min > current_max + 1

\* The plan so far is a beginning of the whole plan.
OnPlan ==
    /\ infos \in Seq(bucket) /\ current_max = EndOf(infos) /\ current_max \in Nat
    /\ infos \o Chain(bucket, txid, current_max) = FullChain(bucket, txid)

\* The inductive invariant.
PlanInv ==
    /\ ListedOK
    /\ txid \in Nat
    /\ OnPlan
    /\ candidate \in [CursorLevels -> SUBSET bucket]
    /\ \A l \in CursorLevels : CursorOK(l)
    /\ pc \in {"refresh", "pick", "finish", "done"}
    /\ pc = "pick" => \A l \in CursorLevels : Refreshedness(l)
    /\ pc \in {"refresh", "pick"} => ~(txid # 0 /\ current_max >= txid)
    /\ pc \in {"finish", "done"} => IsComplete(bucket, txid, current_max)
    /\ pc = "done" => res = Verdict

----------------------------------------------------------------------------

\* Every bucket a plan may meet has one file per key.
LEMMA ListedInit == Init => ListedOK
<1> SUFFICES ASSUME Init PROVE ListedOK
    OBVIOUS
<1> USE SnapshotLevelAssumption, ListBoundAssumption
<1>1. PICK t \in [Levels -> UNION {Listings(l) : l \in Levels}] :
          /\ \A l \in Levels : t[l] \in Listings(l)
          /\ bucket = UNION {t[l] : l \in Levels}
    BY DEF Init
<1>2. ASSUME NEW l \in Levels, NEW F \in Listings(l), NEW f \in F
      PROVE  f \in Ranges(l) /\ (l = SNAPSHOT_LEVEL => f.min = 1)
    BY DEF Listings
<1>3. \A f \in bucket : \E l \in Levels : f \in t[l]
    BY <1>1
<1>4. ASSUME NEW f \in bucket
      PROVE  /\ f = [lvl |-> f.lvl, min |-> f.min, max |-> f.max]
             /\ f.lvl \in Levels /\ f.min \in 1..ListBound /\ f.max \in 1..ListBound /\ f.min <= f.max
             /\ f.lvl = SNAPSHOT_LEVEL => f.min = 1
    <2>1. PICK l \in Levels : f \in t[l]
        BY <1>3
    <2>2. f \in Ranges(l) /\ (l = SNAPSHOT_LEVEL => f.min = 1)
        BY <1>1, <1>2, <2>1
    <2>3. QED BY <2>2 DEF Ranges
<1>5. \A f, g \in bucket : SameKey(f, g) => f = g
    BY <1>4 DEF SameKey
<1>6. QED BY <1>4, <1>5 DEF ListedOK, Proper

\* The cursors before the first listing.
LEMMA PlanInit == Init => PlanInv
<1> SUFFICES ASSUME Init PROVE PlanInv
    OBVIOUS
<1> USE SnapshotLevelAssumption, ListBoundAssumption
<1>1. ListedOK
    BY ListedInit
<1>2. /\ IsChain(bucket, txid, 0, SnapshotOf(bucket, txid)) /\ EndOf(SnapshotOf(bucket, txid)) \in Nat
    BY <1>1, SnapshotIs DEF ListedOK
<1>3. OnPlan
    BY <1>2 DEF Init, OnPlan, FullChain, IsChain
<1>4. ASSUME NEW l \in CursorLevels PROVE CursorOK(l)
    <2>1. unread[l] = ltx_files(bucket, l, 0) /\ candidate[l] = {}
        BY DEF Init
    <2>2. \A f \in bucket : f.lvl = l <=> f \in unread[l]
        BY <1>1, <2>1 DEF ListedOK, Proper, ltx_files
    <2>3. unread[l] \subseteq {f \in bucket : f.lvl = l}
        BY <2>1 DEF ltx_files
    <2>4. QED BY <2>1, <2>2, <2>3 DEF CursorOK
<1>5. pc = "done" => res = Verdict
    <2> SUFFICES ASSUME pc = "done" PROVE res = Verdict
        OBVIOUS
    <2>1. res = "ok" /\ txid # 0 /\ txid \in Nat /\ current_max >= txid /\ current_max = EndOf(infos)
        BY DEF Init
    <2>2. infos # <<>>
        BY <2>1 DEF EndOf
    <2>3. ~(EndOf(infos) < txid)
        BY <1>2, <2>1 DEF Init
    <2>4. QED BY <2>1, <2>2, <2>3 DEF Verdict
<1>6. txid \in Nat
    BY DEF Init
<1>7. candidate \in [CursorLevels -> SUBSET bucket]
    BY DEF Init
<1>8. QED BY <1>1, <1>3, <1>4, <1>5, <1>6, <1>7 DEF PlanInv, Init, IsComplete

\* Better is a strict order on the files of a listing.
LEMMA BetterOrders ==
    ASSUME NEW F, Proper(F), NEW f \in F, NEW g \in F, NEW h \in F
    PROVE  /\ candidate_better(f, g) /\ candidate_better(g, h) => candidate_better(f, h)
           /\ ~(candidate_better(f, g) /\ candidate_better(g, f))
           /\ candidate_better(f, g) => f.max <= g.max
BY SnapshotLevelAssumption DEF Proper, candidate_better, Levels

\* refresh: every cursor drops what is stale and reads on as far as files start
\* within reach, keeping the best.
LEMMA PlanRefresh == PlanInv /\ Refresh => PlanInv'
<1> SUFFICES ASSUME PlanInv, Refresh PROVE PlanInv'
    OBVIOUS
<1> USE SnapshotLevelAssumption, ListBoundAssumption
<1>1. /\ pc = "refresh" /\ pc' = "pick"
      /\ bucket' = bucket /\ txid' = txid /\ infos' = infos /\ current_max' = current_max /\ res' = res
    BY DEF Refresh
<1>2. ListedOK' /\ OnPlan' /\ txid' \in Nat
    BY <1>1 DEF PlanInv, ListedOK, OnPlan
<1>3. ASSUME NEW l \in CursorLevels PROVE CursorOK(l)' /\ Refreshedness(l)'
    <2> DEFINE read == {f \in unread[l] : f.min <= current_max + 1}
               fit == {c \in candidate[l] : c.max > current_max}
                        \cup {f \in read : f.max > current_max /\ Admits(txid, f)}
    <2>0. CursorOK(l) /\ Proper(bucket) /\ (\A f \in bucket : f.max <= ListBound) /\ current_max \in Nat
        BY DEF PlanInv, ListedOK, OnPlan
    <2>1. unread'[l] = unread[l] \ read /\ candidate'[l] = IF fit = {} THEN {} ELSE {Best(fit)}
        BY DEF Refresh, Refreshed
    <2>2. fit \subseteq bucket /\ \A f \in fit : f.lvl = l /\ f.max > current_max /\ Admits(txid, f) /\ f \notin unread'[l]
        BY <2>0, <2>1 DEF CursorOK
    <2>3. Proper(fit)
        BY <2>0, <2>2 DEF Proper
    <2>4. fit # {} => Best(fit) \in fit /\ \A g \in fit \ {Best(fit)} : candidate_better(g, Best(fit))
        BY <2>0, <2>2, <2>3, BestIs
    <2>5. candidate'[l] \subseteq fit /\ \A c, d \in candidate'[l] : c = d
        BY <2>1, <2>4
    <2>6. \A f \in unread'[l] : f \in unread[l] /\ f.min > current_max + 1 /\ f \in bucket /\ f.lvl = l
        BY <2>0, <2>1 DEF CursorOK, Proper
    <2>7. ASSUME NEW g \in fit PROVE \E c \in candidate'[l] : c = g \/ candidate_better(g, c)
        BY <2>1, <2>4
    <2>8. ASSUME NEW f \in bucket, f.lvl = l, f \notin unread'[l]
          PROVE  /\ f.min <= current_max + 1
                 /\ \/ f.max <= current_max \/ ~Admits(txid, f)
                    \/ \E c \in candidate'[l] : c = f \/ candidate_better(f, c)
        <3>1. CASE f \in unread[l]
            <4>1. f \in read
                BY <2>1, <2>8, <3>1
            <4>2. f.max \in Nat
                BY <2>0 DEF Proper
            <4>3. f.max <= current_max \/ ~Admits(txid, f) \/ f \in fit
                BY <2>0, <4>1, <4>2
            <4>4. QED BY <2>7, <4>1, <4>3
        <3>2. CASE f \notin unread[l]
            <4>1. /\ f.min <= current_max + 1
                  /\ \/ f.max <= current_max \/ ~Admits(txid, f)
                     \/ \E c \in candidate[l] : c = f \/ candidate_better(f, c)
                BY <2>0, <2>8, <3>2 DEF CursorOK
            <4>2. ASSUME NEW c \in candidate[l], c = f \/ candidate_better(f, c), ~(f.max <= current_max)
                  PROVE  \E d \in candidate'[l] : d = f \/ candidate_better(f, d)
                <5>1. c \in bucket
                    BY <2>0 DEF CursorOK
                <5>2. c.max > current_max
                    <6>1. f.max <= c.max
                        BY <2>0, <4>2, <5>1, BetterOrders DEF Proper
                    <6>2. QED BY <2>0, <4>2, <5>1, <6>1 DEF Proper
                <5>3. c \in fit
                    BY <5>2
                <5>4. PICK d \in candidate'[l] : d = c \/ candidate_better(c, d)
                    BY <2>7, <5>3
                <5>5. d \in bucket
                    BY <2>2, <2>5
                <5>6. d = f \/ candidate_better(f, d)
                    BY <2>0, <4>2, <5>1, <5>4, <5>5, BetterOrders
                <5>7. QED BY <5>6
            <4>3. QED BY <4>1, <4>2
        <3>3. QED BY <3>1, <3>2
    <2> HIDE DEF read, fit
    <2>9. CursorOK(l)'
        BY <1>1, <2>2, <2>5, <2>6, <2>8 DEF CursorOK
    <2>10. Refreshedness(l)'
        BY <1>1, <2>2, <2>5, <2>6 DEF Refreshedness
    <2>11. QED BY <2>9, <2>10
<1>4. (~(txid # 0 /\ current_max >= txid))'
    BY <1>1 DEF PlanInv
<1>5. candidate' \in [CursorLevels -> SUBSET bucket]
    <2>1. \A l \in CursorLevels : candidate'[l] \subseteq bucket
        BY <1>1, <1>3 DEF CursorOK
    <2>2. QED BY <2>1 DEF Refresh
<1>6. QED BY <1>1, <1>2, <1>3, <1>4, <1>5 DEF PlanInv

\* What the cursors hold after a refresh is what is left of the files that
\* extend the plan; the best of them is the best of all.
LEMMA CandidatesAre ==
    ASSUME PlanInv, pc = "pick"
    PROVE  LET all == UNION {candidate[l] : l \in CursorLevels}
               ext == Extensions(bucket, txid, current_max)
           IN /\ all \subseteq ext
              /\ ext = {} <=> all = {}
              /\ all # {} => /\ Best(all) = Best(ext)
                             /\ Best(all) \in candidate[Best(all).lvl] /\ Best(all).lvl \in CursorLevels
                             /\ \A f \in all : f.max <= Best(all).max
<1> USE SnapshotLevelAssumption, ListBoundAssumption
<1> DEFINE all == UNION {candidate[l] : l \in CursorLevels}
           ext == Extensions(bucket, txid, current_max)
<1>0. /\ Proper(bucket) /\ (\A f \in bucket : f.max <= ListBound) /\ current_max \in Nat
      /\ \A l \in CursorLevels : CursorOK(l) /\ Refreshedness(l)
    BY DEF PlanInv, ListedOK, OnPlan
<1>1. ASSUME NEW f \in all PROVE f \in ext /\ f.lvl \in CursorLevels /\ f \in candidate[f.lvl]
    <2>1. PICK l \in CursorLevels : f \in candidate[l]
        OBVIOUS
    <2>2. f \in bucket /\ f.lvl = l /\ Admits(txid, f) /\ f \notin unread[l] /\ f.max > current_max
        BY <1>0, <2>1 DEF CursorOK, Refreshedness
    <2>3. f.min <= current_max + 1
        BY <1>0, <2>2 DEF CursorOK
    <2>4. QED BY <2>1, <2>2, <2>3 DEF Extensions, is_contiguous, CursorLevels
<1>2. ASSUME NEW f \in ext PROVE \E c \in all : c = f \/ candidate_better(f, c)
    <2>1. f \in bucket /\ f.lvl \in CursorLevels /\ f.min <= current_max + 1 /\ f.max > current_max /\ Admits(txid, f)
        BY <1>0 DEF Extensions, is_contiguous, CursorLevels, Proper, Levels
    <2>2. f \notin unread[f.lvl]
        BY <1>0, <2>1 DEF Refreshedness, Proper
    <2>3. ~(f.max <= current_max)
        BY <1>0, <2>1 DEF Proper
    <2>4. \E c \in candidate[f.lvl] : c = f \/ candidate_better(f, c)
        BY <1>0, <2>1, <2>2, <2>3 DEF CursorOK
    <2>5. QED BY <2>1, <2>4
<1>3. ext \subseteq bucket /\ all \subseteq bucket
    BY <1>1 DEF Extensions
<1> HIDE DEF all, ext
<1>4. ext = {} <=> all = {}
    BY <1>1, <1>2
<1>5. ASSUME all # {}
      PROVE  /\ Best(all) = Best(ext) /\ Best(all) \in all
             /\ \A f \in all : f.max <= Best(all).max
    <2>1. Proper(all) /\ Proper(ext) /\ (\A f \in all : f.max <= ListBound) /\ (\A f \in ext : f.max <= ListBound)
        BY <1>0, <1>3 DEF Proper
    <2> DEFINE a == Best(all)
               b == Best(ext)
    <2>2. a \in all /\ \A g \in all \ {a} : candidate_better(g, a)
        BY <1>5, <2>1, BestIs
    <2>3. b \in ext /\ \A g \in ext \ {b} : candidate_better(g, b)
        BY <1>4, <1>5, <2>1, BestIs
    <2> HIDE DEF a, b
    <2>4. a \in bucket /\ b \in bucket /\ a \in ext
        BY <1>1, <1>3, <2>2, <2>3
    <2>5. ASSUME a # b PROVE FALSE
        <3>1. candidate_better(a, b)
            BY <2>3, <2>4, <2>5
        <3>2. PICK c \in all : c = b \/ candidate_better(b, c)
            BY <1>2, <2>3
        <3>3. c = a \/ candidate_better(c, a)
            BY <2>2
        <3>4. c \in bucket
            BY <1>3
        <3>5. candidate_better(b, a)
            BY <1>0, <2>4, <2>5, <3>2, <3>3, <3>4, BetterOrders
        <3>6. QED BY <1>0, <2>4, <3>1, <3>5, BetterOrders
    <2>6. ASSUME NEW f \in all PROVE f.max <= a.max
        <3>1. f = a \/ candidate_better(f, a)
            BY <2>2
        <3>2. QED BY <1>0, <1>3, <2>4, <3>1, BetterOrders DEF Proper
    <2>7. QED BY <2>2, <2>5, <2>6 DEF a, b
<1>6. QED BY <1>1, <1>4, <1>5 DEF all, ext

\* One round of calc_restore_plan: the best of the cursors' candidates is the
\* best extension in the whole listing.
LEMMA PlanPick == PlanInv /\ Pick => PlanInv'
<1> SUFFICES ASSUME PlanInv, Pick PROVE PlanInv'
    OBVIOUS
<1> USE SnapshotLevelAssumption, ListBoundAssumption
<1> DEFINE all  == UNION {candidate[l] : l \in CursorLevels}
           best == Best(all)
           c    == current_max
<1>0. /\ Proper(bucket) /\ (\A f \in bucket : f.max <= ListBound) /\ c \in Nat /\ txid \in Nat
      /\ infos \in Seq(bucket) /\ c = EndOf(infos)
      /\ infos \o Chain(bucket, txid, c) = FullChain(bucket, txid)
      /\ \A l \in CursorLevels : CursorOK(l)
      /\ ~(txid # 0 /\ c >= txid)
    BY DEF PlanInv, ListedOK, OnPlan, Pick
<1>1. /\ pc = "pick" /\ all # {} /\ candidate' = [candidate EXCEPT ![best.lvl] = {}]
      /\ c' = best.max /\ infos' = Append(infos, best)
      /\ pc' = IF txid # 0 /\ best.max >= txid THEN "finish" ELSE "refresh"
      /\ bucket' = bucket /\ txid' = txid /\ unread' = unread /\ res' = res
    BY DEF Pick
<1>2. /\ all \subseteq Extensions(bucket, txid, c) /\ best = Best(Extensions(bucket, txid, c))
      /\ Extensions(bucket, txid, c) # {}
      /\ best \in candidate[best.lvl] /\ best.lvl \in CursorLevels /\ \A f \in all : f.max <= best.max
    BY <1>1, CandidatesAre
<1>3. best \in bucket /\ best.max \in Nat /\ best.max > c
    BY Zenon, <1>0, <1>2, ExtensionsAre
<1> HIDE DEF best
<1>4. OnPlan'
    <2>1. ~IsComplete(bucket, txid, c)
        BY <1>0, <1>2 DEF IsComplete
    <2>2. Append(infos, best) \o Chain(bucket, txid, best.max) = infos \o Chain(bucket, txid, c)
        BY Zenon, <1>0, <1>2, <2>1, ChainStep
    <2>5. Append(infos, best) \in Seq(bucket) /\ EndOf(Append(infos, best)) = best.max
        BY <1>0, <1>3 DEF EndOf
    <2>6. QED BY <1>0, <1>1, <1>3, <2>2, <2>5 DEF OnPlan
<1>5. ASSUME NEW l \in CursorLevels PROVE CursorOK(l)'
    <2>1. candidate'[l] = IF l = best.lvl THEN {} ELSE candidate[l]
        <3>1. candidate \in [CursorLevels -> SUBSET bucket]
            BY DEF PlanInv
        <3>2. QED BY <1>1, <3>1
    <2>2. CursorOK(l)
        BY <1>0
    <2>3. ASSUME NEW f \in bucket, f.lvl = l, f \notin unread[l]
          PROVE  /\ f.min <= best.max + 1
                 /\ \/ f.max <= best.max \/ ~Admits(txid, f)
                    \/ \E d \in candidate'[l] : d = f \/ candidate_better(f, d)
        <3>0. f.min \in Nat /\ f.max \in Nat
            BY <1>0 DEF Proper
        <3>1. /\ f.min <= c + 1
              /\ \/ f.max <= c \/ ~Admits(txid, f)
                 \/ \E d \in candidate[l] : d = f \/ candidate_better(f, d)
            BY <2>2, <2>3 DEF CursorOK
        <3>2. f.min <= best.max + 1 /\ (f.max <= c => f.max <= best.max)
            BY <1>0, <1>3, <3>0, <3>1
        <3>3. CASE l = best.lvl
            <4>1. ASSUME NEW d \in candidate[l], d = f \/ candidate_better(f, d) PROVE f.max <= best.max
                <5>1. d = best
                    BY <1>2, <2>2, <3>3 DEF CursorOK
                <5>2. QED BY <1>0, <1>3, <3>0, <4>1, <5>1, BetterOrders
            <4>2. QED BY <3>1, <3>2, <4>1
        <3>4. CASE l # best.lvl
            BY <2>1, <3>1, <3>2, <3>4
        <3>5. QED BY <3>3, <3>4
    <2>4. /\ unread[l] \subseteq {f \in bucket : f.lvl = l}
          /\ candidate'[l] \subseteq {f \in bucket : f.lvl = l}
          /\ \A x, y \in candidate'[l] : x = y
          /\ \A x \in candidate'[l] : x \notin unread[l] /\ Admits(txid, x)
        BY <2>1, <2>2 DEF CursorOK
    <2>5. QED BY <1>1, <2>3, <2>4 DEF CursorOK
<1>6. pc' = "finish" => IsComplete(bucket, txid, best.max)
    BY <1>1 DEF IsComplete
<1>7. pc' = "refresh" => ~(txid # 0 /\ best.max >= txid)
    BY <1>1
<1>8. ListedOK'
    BY <1>1 DEF PlanInv, ListedOK
<1>9. candidate' \in [CursorLevels -> SUBSET bucket]
    BY Zenon, <1>1 DEF PlanInv
<1>10. QED BY SMTT(20), <1>0, <1>1, <1>4, <1>5, <1>6, <1>7, <1>8, <1>9 DEF PlanInv

\* The cursors never lose the shape of the search.
THEOREM PlanInductive == Spec => []PlanInv
<1>1. PlanInv /\ [Next]_vars => PlanInv'
    <2> SUFFICES ASSUME PlanInv, [Next]_vars PROVE PlanInv'
        OBVIOUS
    <2>1. CASE Refresh
        BY <2>1, PlanRefresh
    <2>2. CASE Pick
        BY <2>2, PlanPick
    <2>3. CASE Exhausted
        <3>1. Extensions(bucket, txid, current_max) = {}
            BY <2>3, CandidatesAre DEF Exhausted
        <3>2. QED BY <2>3, <3>1 DEF Exhausted, PlanInv, ListedOK, OnPlan, CursorOK, IsComplete
    <2>4. CASE Finish
        BY SMTT(20), SMTT(30), <2>4 DEF Finish, PlanInv, ListedOK, OnPlan, CursorOK, IsComplete, Verdict, GapAhead
    <2>5. CASE UNCHANGED vars
        <3>1. Verdict' = Verdict
            BY <2>5 DEF vars, Verdict, GapAhead
        <3>2. /\ ListedOK' /\ OnPlan' /\ (pc \in {"finish", "done"} => IsComplete(bucket, txid, current_max)')
              /\ \A l \in CursorLevels : CursorOK(l)' /\ (pc = "pick" => Refreshedness(l)')
            BY SMTT(20), SMTT(30), <2>5 DEF vars, PlanInv, ListedOK, OnPlan, CursorOK, Refreshedness, IsComplete
        <3>3. QED BY <2>5, <3>1, <3>2 DEF vars, PlanInv
    <2>6. QED BY <2>1, <2>2, <2>3, <2>4, <2>5 DEF Next
<1>2. QED BY <1>1, PlanInit, PTL DEF Spec

\* What the search ends with: the whole plan.
LEMMA PlanDone ==
    ASSUME PlanInv, pc = "done"
    PROVE  /\ infos = FullChain(bucket, txid) /\ current_max = EndOf(infos) /\ EndOf(infos) \in Nat
           /\ IsChain(bucket, txid, 0, infos)
           /\ infos # <<>> => EndOf(infos) > 0 /\ infos[Len(infos)] \in bucket /\ Admits(txid, infos[Len(infos)])
           /\ IsComplete(bucket, txid, EndOf(infos))
           /\ \A f \in bucket : f.lvl = SNAPSHOT_LEVEL /\ Admits(txid, f) => f.max <= EndOf(infos)
           /\ GapAhead <=> \E f \in bucket : f.lvl < SNAPSHOT_LEVEL /\ f.min > EndOf(infos) + 1
           /\ res = Verdict
<1> USE SnapshotLevelAssumption, ListBoundAssumption
<1>0. /\ Proper(bucket) /\ (\A f \in bucket : f.max <= ListBound) /\ (\A f \in bucket : f.lvl = SNAPSHOT_LEVEL => f.min = 1)
      /\ txid \in Nat /\ current_max \in Nat /\ infos \in Seq(bucket) /\ current_max = EndOf(infos)
      /\ infos \o Chain(bucket, txid, current_max) = FullChain(bucket, txid)
      /\ \A l \in CursorLevels : CursorOK(l)
      /\ IsComplete(bucket, txid, current_max) /\ res = Verdict
    BY DEF PlanInv, ListedOK, OnPlan
<1>1. Chain(bucket, txid, current_max) = <<>>
    BY Zenon, <1>0, ChainUnfolds DEF IsComplete
<1>2. infos = FullChain(bucket, txid)
    BY <1>0, <1>1
<1>3. LET q == FullChain(bucket, txid)
      IN /\ IsChain(bucket, txid, 0, q)
         /\ (q # <<>> => EndOf(q) > 0)
         /\ \A f \in bucket : f.lvl = SNAPSHOT_LEVEL /\ Admits(txid, f) => f.max <= EndOf(q)
    BY <1>0, FullChainIs
<1>4. /\ IsChain(bucket, txid, 0, infos)
      /\ (infos # <<>> => EndOf(infos) > 0)
      /\ \A f \in bucket : f.lvl = SNAPSHOT_LEVEL /\ Admits(txid, f) => f.max <= EndOf(infos)
    BY <1>2, <1>3
<1>5. infos # <<>> => infos[Len(infos)] \in bucket /\ Admits(txid, infos[Len(infos)])
    <2> SUFFICES ASSUME infos # <<>> PROVE infos[Len(infos)] \in bucket /\ Admits(txid, infos[Len(infos)])
        OBVIOUS
    <2>1. Len(infos) \in 1..Len(infos)
        BY <1>0
    <2>2. QED BY <1>0, <1>4, <2>1 DEF IsChain
<1>6. ASSUME NEW l \in CursorLevels, NEW f \in unread[l], f.min > current_max + 1
      PROVE  f \in bucket /\ f.lvl < SNAPSHOT_LEVEL
    BY <1>0, <1>6 DEF CursorOK, CursorLevels
<1>7. ASSUME NEW f \in bucket, f.lvl < SNAPSHOT_LEVEL, f.min > current_max + 1
      PROVE  f.lvl \in CursorLevels /\ f \in unread[f.lvl]
    <2>1. f.lvl \in CursorLevels
        BY <1>0, <1>7 DEF Proper, Levels, CursorLevels
    <2>2. ~(f.min <= current_max + 1)
        BY <1>0, <1>7 DEF Proper
    <2>3. QED BY <1>0, <2>1, <2>2 DEF CursorOK
<1>8. GapAhead <=> \E f \in bucket : f.lvl < SNAPSHOT_LEVEL /\ f.min > current_max + 1
    BY <1>6, <1>7 DEF GapAhead
<1>9. QED BY <1>0, <1>2, <1>4, <1>5, <1>8

\* Reading every level once, front to back, and forgetting all but one
\* candidate per level, calc_restore_plan returns what its definition on sets
\* returns, for any number of levels and transactions.
THEOREM CursorsComputeThePlan == Spec => []CursorsAgree
<1>1. PlanInv => CursorsAgree
    <2> SUFFICES ASSUME PlanInv, pc = "done"
                 PROVE  LET plan == calc_restore_plan(bucket, txid)
                        IN plan.res = res /\ (res = "ok" => plan.infos = infos)
        BY DEF CursorsAgree
    <2> DEFINE snap == SnapshotOf(bucket, txid)
               all  == snap \o Chain(bucket, txid, EndOf(snap))
               gap  == \E f \in bucket : f.lvl < SNAPSHOT_LEVEL /\ f.min > EndOf(all) + 1
               plan == calc_restore_plan(bucket, txid)
    <2>1. infos = all /\ (GapAhead <=> gap) /\ res = Verdict
        BY Zenon, PlanDone DEF FullChain
    <2>2. plan = CASE all = <<>> -> [res |-> "unavailable", infos |-> <<>>]
                   [] all # <<>> /\ txid = 0 /\ gap -> [res |-> "gap", infos |-> <<>>]
                   [] all # <<>> /\ txid # 0 /\ EndOf(all) < txid -> [res |-> "unavailable", infos |-> <<>>]
                   [] OTHER -> [res |-> "ok", infos |-> all]
        BY DEF calc_restore_plan
    <2>3. res = CASE infos # <<>> /\ txid = 0 /\ gap -> "gap"
                  [] infos = <<>> \/ (txid # 0 /\ EndOf(infos) < txid) -> "unavailable"
                  [] OTHER -> "ok"
        BY <2>1 DEF Verdict
    <2> HIDE DEF all, gap, plan
    <2>4. plan.res = res /\ (res = "ok" => plan.infos = infos)
        BY <2>1, <2>2, <2>3
    <2>5. QED BY <2>4 DEF plan
<1>2. QED BY <1>1, PlanInductive, PTL

\* The greedy search is exact, for any number of levels and transactions.
THEOREM GreedyPlanIsExact == Spec => []PlanExact
<1> USE SnapshotLevelAssumption, ListBoundAssumption
<1>1. PlanInv => PlanExact
    <2> SUFFICES ASSUME PlanInv, pc = "done"
                 PROVE  /\ res = "ok" <=> Target # 0 /\ Covered(Target)
                        /\ res = "ok" =>
                             /\ infos # <<>> /\ EndOf(infos) = Target
                             /\ \A i \in 1..Len(infos) :
                                   is_contiguous(IF i = 1 THEN 0 ELSE infos[i - 1].max, infos[i])
        BY DEF PlanExact
    <2> DEFINE e == EndOf(infos)
               gap == \E f \in bucket : f.lvl < SNAPSHOT_LEVEL /\ f.min > e + 1
    <2>1. /\ e \in Nat /\ IsChain(bucket, txid, 0, infos)
          /\ infos # <<>> => e > 0 /\ infos[Len(infos)] \in bucket /\ Admits(txid, infos[Len(infos)])
          /\ IsComplete(bucket, txid, e)
          /\ \A f \in bucket : f.lvl = SNAPSHOT_LEVEL /\ Admits(txid, f) => f.max <= e
          /\ GapAhead <=> gap
          /\ res = Verdict
        BY PlanDone
    <2>2. /\ Proper(bucket) /\ (\A f \in bucket : f.max <= ListBound) /\ txid \in Nat
          /\ \A f \in bucket : f.lvl \in Nat /\ f.lvl <= SNAPSHOT_LEVEL /\ f.min \in Nat /\ f.max \in Nat /\ f.min <= f.max
        BY DEF PlanInv, ListedOK, Proper, Levels
    <2> DEFINE m == MaxTxid(bucket)
    <2>3. /\ m \in Nat /\ (\A f \in bucket : f.max <= m)
          /\ bucket # {} => \E f \in bucket : f.max = m
        BY <2>2, MaxTxidIs
    <2>4. infos # <<>> => e = infos[Len(infos)].max
        BY DEF EndOf
    <2>5. infos = <<>> => e = 0
        BY DEF EndOf
    <2>6. res = CASE infos # <<>> /\ txid = 0 /\ gap -> "gap"
                  [] infos = <<>> \/ (txid # 0 /\ e < txid) -> "unavailable"
                  [] OTHER -> "ok"
        BY <2>1 DEF Verdict
    <2>7. Target = IF txid = 0 THEN m ELSE txid
        BY DEF Target
    <2> HIDE DEF e, gap, m
    <2>8. res = "ok" <=> infos # <<>> /\ (txid = 0 => ~gap) /\ (txid # 0 => e >= txid)
        BY <2>1, <2>2, <2>6
    <2>9. ASSUME NEW f \in bucket, f.lvl < SNAPSHOT_LEVEL, f.min <= e + 1, Admits(txid, f), txid # 0 => e < txid
          PROVE  f.max <= e
        <3>1. Extensions(bucket, txid, e) = {}
            BY <2>1, <2>2, <2>9 DEF IsComplete
        <3>2. ~is_contiguous(e, f)
            BY <2>9, <3>1 DEF Extensions
        <3>3. QED BY <2>1, <2>2, <2>9, <3>2 DEF is_contiguous
    <2>10. ASSUME res = "ok" PROVE infos # <<>> /\ e = Target /\ Target # 0
        <3>1. infos # <<>> /\ e > 0 /\ infos[Len(infos)] \in bucket /\ e = infos[Len(infos)].max
            BY <2>1, <2>4, <2>8, <2>10
        <3>2. CASE txid = 0
            <4>1. ASSUME NEW f \in bucket PROVE f.max <= e
                <5>1. CASE f.lvl = SNAPSHOT_LEVEL
                    BY <2>1, <3>2, <5>1 DEF Admits
                <5>2. CASE f.lvl < SNAPSHOT_LEVEL
                    <6>1. f.min <= e + 1
                        BY <2>1, <2>2, <2>8, <2>10, <3>2, <5>2 DEF gap
                    <6>2. QED BY <2>9, <3>2, <5>2, <6>1 DEF Admits
                <5>3. QED BY <2>2, <5>1, <5>2
            <4>2. e = m
                BY <2>1, <2>3, <3>1, <4>1
            <4>3. QED BY <2>1, <2>7, <3>1, <3>2, <4>2
        <3>3. CASE txid # 0
            <4>1. e <= txid
                BY <2>1, <3>1, <3>3 DEF Admits
            <4>2. QED BY <2>1, <2>2, <2>7, <2>8, <2>10, <3>1, <3>3, <4>1
        <3>4. QED BY <3>2, <3>3
    <2>11. ASSUME res = "ok" PROVE Covered(Target)
        <3>1. infos # <<>> /\ e = Target /\ infos \in Seq(bucket)
            BY <2>1, <2>10, <2>11 DEF IsChain
        <3>2. ASSUME NEW u \in 1..Target PROVE \E f \in bucket : f.min <= u /\ u <= f.max /\ f.max <= Target
            <4>1. u \in Nat /\ 1 <= u /\ u <= EndOf(infos)
                BY <2>1, <3>1 DEF e
            <4>2. PICK i \in 1..Len(infos) : infos[i].min <= u /\ u <= infos[i].max /\ infos[i].max <= EndOf(infos)
                BY <2>1, <2>2, <3>1, <4>1, ChainCovers
            <4>3. infos[i] \in bucket
                BY <3>1
            <4>4. QED BY <3>1, <4>2, <4>3 DEF e
        <3>3. QED BY <3>2 DEF Covered
    <2>12. ASSUME Target # 0, Covered(Target) PROVE res = "ok"
        <3>0. Target \in Nat /\ Target > 0
            BY <2>2, <2>3, <2>7, <2>12
        <3>1. e >= Target
            <4> SUFFICES ASSUME e < Target PROVE FALSE
                BY <2>1, <3>0
            <4>1. e + 1 \in 1..Target
                BY <2>1, <3>0
            <4>2. PICK f \in bucket : f.min <= e + 1 /\ e + 1 <= f.max /\ f.max <= Target
                BY <2>12, <4>1 DEF Covered
            <4>3. Admits(txid, f) /\ (txid # 0 => e < txid)
                BY <2>7, <4>2 DEF Admits
            <4>4. ~(f.max <= e)
                BY <2>1, <2>2, <4>2
            <4>5. f.lvl # SNAPSHOT_LEVEL
                BY <2>1, <4>3, <4>4
            <4>6. f.lvl < SNAPSHOT_LEVEL
                BY <2>2, <4>5
            <4>7. QED BY <2>9, <4>2, <4>3, <4>4, <4>6
        <3>2. infos # <<>>
            BY <2>5, <3>0, <3>1
        <3>3. txid = 0 => ~gap
            BY <2>1, <2>2, <2>3, <2>7, <3>1 DEF gap
        <3>4. txid # 0 => e >= txid
            BY <2>7, <3>1
        <3>5. QED BY <2>8, <3>2, <3>3, <3>4
    <2>13. \A i \in 1..Len(infos) : is_contiguous(IF i = 1 THEN 0 ELSE infos[i - 1].max, infos[i])
        BY <2>1 DEF IsChain
    <2>14. QED BY <2>10, <2>11, <2>12, <2>13 DEF e
<1>2. QED BY <1>1, PlanInductive, PTL
=============================================================================
