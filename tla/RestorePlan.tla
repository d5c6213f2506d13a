---------------------------- MODULE RestorePlan ----------------------------
(***************************************************************************)
(* calc_restore_plan of crates/liters/src/plan.rs, loop by loop: one       *)
(* cursor per level reads its listing once, front to back, and holds at    *)
(* most one candidate.  The listings are any a bucket can have: single     *)
(* transactions in level 0, disjoint ranges in the levels above it, with   *)
(* holes wherever retention or another writer may have left them, and      *)
(* snapshots from transaction 1.                                           *)
(***************************************************************************)
EXTENDS Bucket

CONSTANT ListBound     \* bound: transactions 1..ListBound appear in listings

ASSUME ListBoundAssumption == ListBound \in Nat

VARIABLES
    txid,          \* the target, 0 for the latest state
    unread,        \* per level: the files its cursor has not consumed
    candidate,     \* per level: its candidate, a set of at most one file
    infos,         \* the plan so far
    current_max,   \* where it ends
    pc, res

vars == <<bucket, txid, unread, candidate, infos, current_max, pc, res>>

CursorLevels == 0..(SNAPSHOT_LEVEL - 1)

\* The sets of files one level can list.
Ranges(lvl) == {f \in [lvl : {lvl}, min : 1..ListBound, max : 1..ListBound] : f.min <= f.max}
Listings(lvl) ==
    CASE lvl = 0 -> SUBSET {f \in Ranges(0) : f.min = f.max}
      [] lvl = SNAPSHOT_LEVEL -> SUBSET {f \in Ranges(lvl) : f.min = 1}
      [] OTHER -> {F \in SUBSET Ranges(lvl) :
                     \A f, g \in F : f # g => f.max < g.min \/ g.max < f.min}

\* The newest snapshot at or before the target starts the plan; it may end it.
Init ==
    /\ bucket \in {UNION {s[l] : l \in Levels} :
                     s \in {t \in [Levels -> UNION {Listings(l) : l \in Levels}] :
                              \A l \in Levels : t[l] \in Listings(l)}}
    /\ txid \in 0..ListBound
    /\ infos = SnapshotOf(bucket, txid)
    /\ current_max = EndOf(infos)
    /\ unread = [l \in CursorLevels |-> ltx_files(bucket, l, 0)]
    /\ candidate = [l \in CursorLevels |-> {}]
    /\ \/ txid # 0 /\ current_max >= txid /\ pc = "done" /\ res = "ok"
       \/ ~(txid # 0 /\ current_max >= txid) /\ pc = "refresh" /\ res = "none"

\* LevelCursor::refresh: a stale candidate is dropped, the files read are
\* skipped or become the candidate if they are better.
Refreshed(old, read) ==
    LET fit == {c \in old : c.max > current_max}
                 \cup {f \in read : f.max > current_max /\ Admits(txid, f)}
    IN IF fit = {} THEN {} ELSE {Best(fit)}

\* Every cursor reads up to the first file that starts beyond a gap.
Refresh ==
    /\ pc = "refresh"
    /\ LET read(l) == {f \in unread[l] : f.min <= current_max + 1}
       IN /\ candidate' = [l \in CursorLevels |-> Refreshed(candidate[l], read(l))]
          /\ unread' = [l \in CursorLevels |-> unread[l] \ read(l)]
    /\ pc' = "pick"
    /\ UNCHANGED <<bucket, txid, infos, current_max, res>>

\* Mutant: among candidates that end together, the lowest level wins.
PickLowestLevel ==
    LET all  == UNION {candidate[l] : l \in CursorLevels}
        best == CHOOSE f \in all :
                    \A g \in all \ {f} : g.max < f.max \/ (g.max = f.max /\ g.lvl > f.lvl)
    IN /\ pc = "pick" /\ all # {}
       /\ candidate' = [candidate EXCEPT ![best.lvl] = {}]
       /\ current_max' = best.max
       /\ infos' = Append(infos, best)
       /\ pc' = IF txid # 0 /\ best.max >= txid THEN "finish" ELSE "refresh"
       /\ UNCHANGED <<bucket, txid, unread, res>>

\* The best candidate of all levels extends the chain.
Pick ==
    LET all  == UNION {candidate[l] : l \in CursorLevels}
        best == Best(all)
    IN /\ pc = "pick" /\ all # {}
       /\ candidate' = [candidate EXCEPT ![best.lvl] = {}]
       /\ current_max' = best.max
       /\ infos' = Append(infos, best)
       /\ pc' = IF txid # 0 /\ best.max >= txid THEN "finish" ELSE "refresh"
       /\ UNCHANGED <<bucket, txid, unread, res>>

\* No candidate is left.
Exhausted ==
    /\ pc = "pick" /\ \A l \in CursorLevels : candidate[l] = {}
    /\ pc' = "finish"
    /\ UNCHANGED <<bucket, txid, unread, candidate, infos, current_max, res>>

\* A latest restore refuses a hole: some cursor waits at a later file.
GapAhead == \E l \in CursorLevels : \E f \in unread[l] : f.min > current_max + 1

\* Mutant: the gap check is left out.
VerdictNoGapCheck ==
    IF infos = <<>> \/ (txid # 0 /\ EndOf(infos) < txid) THEN "unavailable" ELSE "ok"

\* What the function returns.
Verdict ==
    CASE infos # <<>> /\ txid = 0 /\ GapAhead -> "gap"
      [] infos = <<>> \/ (txid # 0 /\ EndOf(infos) < txid) -> "unavailable"
      [] OTHER -> "ok"

Finish ==
    /\ pc = "finish"
    /\ res' = Verdict
    /\ pc' = "done"
    /\ UNCHANGED <<bucket, txid, unread, candidate, infos, current_max>>

Next == Refresh \/ Pick \/ Exhausted \/ Finish

Spec == Init /\ [][Next]_vars

----------------------------------------------------------------------------
(* Properties. *)

TypeOK ==
    /\ bucket \subseteq UNION {Ranges(l) : l \in Levels}
    /\ txid \in 0..ListBound /\ current_max \in 0..ListBound
    /\ \A l \in CursorLevels : unread[l] \subseteq bucket /\ candidate[l] \subseteq bucket
    /\ infos \in Seq(bucket)
    /\ pc \in {"refresh", "pick", "finish", "done"}
    /\ res \in {"none", "ok", "gap", "unavailable"}

\* The state after transaction t can be rebuilt from the files listed: files
\* that do not go beyond t hold every transaction up to it.
Covered(t) ==
    \A u \in 1..t : \E f \in bucket : f.min <= u /\ u <= f.max /\ f.max <= t

Target == IF txid = 0 THEN MaxTxid(bucket) ELSE txid

\* The greedy search is exact.  A plan is returned exactly when the listed
\* files hold the target, although every cursor reads its level only once and
\* forgets all but one candidate, and a returned plan is a contiguous chain
\* from the first transaction to the target.
PlanExact ==
    pc = "done" =>
        /\ res = "ok" <=> Target # 0 /\ Covered(Target)
        /\ res = "ok" =>
             /\ infos # <<>> /\ EndOf(infos) = Target
             /\ \A i \in 1..Len(infos) :
                   is_contiguous(IF i = 1 THEN 0 ELSE infos[i - 1].max, infos[i])

\* The cursors compute what calc_restore_plan of module Bucket defines on the
\* listings as sets, the form the readers of a bucket use.
CursorsAgree ==
    pc = "done" =>
        LET plan == calc_restore_plan(bucket, txid)
        IN plan.res = res /\ (res = "ok" => plan.infos = infos)
=============================================================================
