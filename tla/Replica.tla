------------------------------ MODULE Replica ------------------------------
(***************************************************************************)
(* Replica of crates/liters/src/replica.rs: a local database file kept     *)
(* current from a bucket that other processes change meanwhile.            *)
(*                                                                         *)
(* A sync is a sequence of steps between which the bucket may change: one  *)
(* listing, one fetch, one application, one write of the -txid sidecar.    *)
(* An application writes its pages under the file lock in two steps, so    *)
(* that the process can die or fail with some of them written.             *)
(*                                                                         *)
(* A page is the lineage and the transaction that last wrote it.           *)
(* Transaction 1 of a lineage writes every page; a file holds the pages    *)
(* its transactions wrote, each as the last of them left it.  All lineages *)
(* have the same page size.                                                *)
(***************************************************************************)
EXTENDS Bucket

CONSTANTS
    Pages,
    WritesOf,      \* transaction -> the pages it writes
    Cases          \* of a run: ReplicaOptions::auto_reset, and how many faults of each kind

FaultKinds == {"fail", "busy", "crash", "badimage", "reset"}

ASSUME ReplicaAssumption ==
    Cases \subseteq [auto_reset : BOOLEAN, faults : [FaultKinds -> Nat]]

VARIABLES
    auto_reset, \* ReplicaOptions::auto_reset
    rdb,        \* the database file: page -> <<lineage, transaction>>, or NoDb
    sidecar,    \* the position in the -txid file, 0 when there is none
    rpc,        \* where the sync is
    s,          \* its locals
    outcome,    \* how the last sync ended
    high,       \* newest transaction applied since the last restore (ghost)
    faults      \* faults still to come

replicaVars == <<auto_reset, rdb, sidecar, rpc, s, outcome, high, faults>>

NoDb   == [p \in {} |-> <<0, 0>>]
NoFile == [lvl |-> 0, min |-> 0, max |-> 0, gen |-> 0]

Fresh == [from |-> 0, cur |-> 0,        \* position at the start, and now
          todo |-> {}, saw0 |-> FALSE,  \* level 0 files to come; there were any
          bridged |-> FALSE,            \* the gap before the next one was tried
          gmin |-> 0, start |-> 0,      \* the gap: where it ends, where it began
          lvl |-> 0, files |-> {},      \* the level it is at, its listing
          saw404 |-> FALSE,
          ctx |-> "none", file |-> NoFile,  \* the file being applied, and why
          plan |-> <<>>, got |-> <<>>]  \* a restore: files to open, opened

LastWrite(p, t) ==
    CHOOSE u \in 1..t : /\ u = 1 \/ p \in WritesOf[u]
                        /\ \A v \in (u + 1)..t : p \notin WritesOf[v]

StateAt(g, t) == [p \in Pages |-> <<g, LastWrite(p, t)>>]

PagesIn(f) == IF f.min = 1 THEN Pages ELSE UNION {WritesOf[u] : u \in f.min..f.max}

\* The database once the pages P of the file are written to it.
Written(f, P) == [p \in Pages |-> IF p \in P THEN StateAt(f.gen, f.max)[p] ELSE rdb[p]]

\* open_ltx_file: the file under this key now, if there is one.
Stored(f) == {g \in bucket : SameKey(f, g)}

Strike(kind) == faults[kind] > 0 /\ faults' = [faults EXCEPT ![kind] = @ - 1]

\* The sync returns.
SyncReturns(result) == rpc' = "idle" /\ s' = Fresh /\ outcome' = result

----------------------------------------------------------------------------
(* full_restore *)

StartRestore == rpc' = "list" /\ s' = [Fresh EXCEPT !.from = s.from, !.lvl = SNAPSHOT_LEVEL]

\* One listing of calc_restore_plan, from the snapshots down.
RestoreList ==
    /\ rpc = "list"
    /\ s' = [s EXCEPT !.files = @ \cup ltx_files(bucket, s.lvl, 0),
                      !.lvl = IF @ = 0 THEN 0 ELSE @ - 1]
    /\ rpc' = IF s.lvl = 0 THEN "plan" ELSE "list"
    /\ UNCHANGED <<rdb, sidecar, outcome, high, faults>>

RestorePlanned ==
    LET plan == calc_restore_plan(s.files, 0)
    IN /\ rpc = "plan"
       /\ IF plan.res = "ok"
            THEN rpc' = "open" /\ s' = [s EXCEPT !.plan = plan.infos, !.files = {}] /\ UNCHANGED outcome
            ELSE SyncReturns(plan.res)
       /\ UNCHANGED <<rdb, sidecar, high, faults>>

\* The files of the plan are opened one by one; a deleted one is an error.
RestoreOpen ==
    /\ rpc = "open" /\ s.plan # <<>>
    /\ IF Stored(Head(s.plan)) = {}
         THEN SyncReturns("notfound")
         ELSE /\ \E f \in Stored(Head(s.plan)) :
                    s' = [s EXCEPT !.plan = Tail(@), !.got = Append(@, f)]
              /\ UNCHANGED <<rpc, outcome>>
    /\ UNCHANGED <<rdb, sidecar, high, faults>>

\* Compactor::compact and decode_database_to: for each page the newest input's
\* copy.
MergedImage(got) ==
    [p \in Pages |->
        LET I == {i \in 1..Len(got) : p \in PagesIn(got[i])}
            i == CHOOSE j \in I : \A k \in I : k <= j
        IN <<got[i].gen, LastWrite(p, got[i].max)>>]

\* The new image takes the place of the old one.
RestoreRename ==
    /\ rpc = "open" /\ s.plan = <<>>
    /\ rdb' = MergedImage(s.got)
    /\ high' = EndOf(s.got)
    /\ s' = [s EXCEPT !.cur = EndOf(s.got)]
    /\ rpc' = "restored"
    /\ UNCHANGED <<sidecar, outcome, faults>>

\* check_integrity finds the image malformed and removes it.
RestoreBadImage ==
    /\ rpc = "restored"
    /\ Strike("badimage")
    /\ rdb' = NoDb
    /\ SyncReturns("malformed")
    /\ UNCHANGED <<sidecar, high>>

RestoreSidecar ==
    /\ rpc = "restored"
    /\ sidecar' = s.cur
    /\ SyncReturns("ok")
    /\ UNCHANGED <<rdb, high, faults>>

----------------------------------------------------------------------------
(* incremental_sync *)

\* Mutant: the listing starts one transaction too far.
SyncStartSeeksFar ==
    /\ rpc = "idle"
    /\ CASE rdb = NoDb \/ (sidecar = 0 /\ auto_reset) -> StartRestore /\ UNCHANGED outcome
         [] rdb # NoDb /\ sidecar = 0 /\ ~auto_reset  -> SyncReturns("unresumable")
         [] rdb # NoDb /\ sidecar # 0 ->
              LET l0 == ltx_files(bucket, 0, sidecar + 2)
              IN /\ rpc' = "l0" /\ UNCHANGED outcome
                 /\ s' = [Fresh EXCEPT !.from = sidecar, !.cur = sidecar,
                                       !.todo = l0, !.saw0 = l0 # {}]
    /\ UNCHANGED <<rdb, sidecar, high, faults>>

\* sync_with: a restore without a file, or without a sidecar if that is
\* allowed; else level 0 is listed from the position on.
SyncStart ==
    /\ rpc = "idle"
    /\ CASE rdb = NoDb \/ (sidecar = 0 /\ auto_reset) -> StartRestore /\ UNCHANGED outcome
         [] rdb # NoDb /\ sidecar = 0 /\ ~auto_reset  -> SyncReturns("unresumable")
         [] rdb # NoDb /\ sidecar # 0 ->
              LET l0 == ltx_files(bucket, 0, sidecar + 1)
              IN /\ rpc' = "l0" /\ UNCHANGED outcome
                 /\ s' = [Fresh EXCEPT !.from = sidecar, !.cur = sidecar,
                                       !.todo = l0, !.saw0 = l0 # {}]
    /\ UNCHANGED <<rdb, sidecar, high, faults>>

\* finish_incremental is entered: without progress the whole bucket is listed,
\* unless a file had vanished; with progress the position is saved.
Finish(vanished) ==
    CASE s.cur = s.from /\ ~vanished ->
           rpc' = "scan" /\ s' = [s EXCEPT !.lvl = SNAPSHOT_LEVEL, !.files = {}, !.todo = {}]
              /\ UNCHANGED outcome
      [] s.cur = s.from /\ vanished -> SyncReturns("ok")
      [] s.cur > s.from -> rpc' = "save" /\ UNCHANGED <<s, outcome>>

Fetching(f, why) == rpc' = "fetch" /\ s' = [s EXCEPT !.file = f, !.ctx = why]

\* The gap before txid is bridged from level 1 on.
Bridge(txid) ==
    /\ rpc' = "gap"
    /\ s' = [s EXCEPT !.gmin = txid, !.start = s.cur, !.lvl = 1, !.bridged = TRUE]

\* Mutant: a gap at level 0 is not noticed.
L0FileIgnoresGap ==
    LET f == First(s.todo)
    IN /\ rpc = "l0" /\ s.todo # {}
       /\ IF f.max <= s.cur
            THEN s' = [s EXCEPT !.todo = @ \ {f}, !.bridged = FALSE] /\ UNCHANGED <<rpc, outcome>>
            ELSE Fetching(f, "l0") /\ UNCHANGED outcome
       /\ UNCHANGED <<rdb, sidecar, high, faults>>

\* The next file of the level 0 listing.
L0File ==
    LET f == First(s.todo)
    IN /\ rpc = "l0" /\ s.todo # {}
       /\ CASE f.max <= s.cur ->
                 s' = [s EXCEPT !.todo = @ \ {f}, !.bridged = FALSE] /\ UNCHANGED <<rpc, outcome>>
            [] f.min > s.cur + 1 /\ ~s.bridged -> Bridge(f.min) /\ UNCHANGED outcome
            [] f.min > s.cur + 1 /\ s.bridged  -> Finish(s.saw404)
            [] is_contiguous(s.cur, f)         -> Fetching(f, "l0") /\ UNCHANGED outcome
       /\ UNCHANGED <<rdb, sidecar, high, faults>>

\* The end of the listing; an empty one is bridged like a gap.
L0End ==
    /\ rpc = "l0" /\ s.todo = {}
    /\ IF ~s.saw0 /\ ~s.bridged
         THEN Bridge(s.cur + 1) /\ UNCHANGED outcome
         ELSE Finish(s.saw404)
    /\ UNCHANGED <<rdb, sidecar, high, faults>>

\* fill_follow_gap lists a level.
GapList ==
    /\ rpc = "gap"
    /\ s' = [s EXCEPT !.files = ltx_files(bucket, s.lvl, 0)]
    /\ rpc' = "gapfile"
    /\ UNCHANGED <<rdb, sidecar, outcome, high, faults>>

BackToL0 == rpc' = "l0" /\ s' = [s EXCEPT !.files = {}, !.lvl = 0]

\* Its next file that is not behind the position, or the end of the level:
\* with progress, or after the last level, level 0 is looked at again.
GapFile ==
    LET ahead == {f \in s.files : f.max > s.cur}
        next  == First(ahead)
    IN /\ rpc = "gapfile"
       /\ IF s.cur > s.start /\ s.cur + 1 >= s.gmin THEN BackToL0
            ELSE IF ahead # {} /\ next.min <= s.cur + 1 THEN Fetching(next, "gap")
            ELSE IF s.cur > s.start \/ s.lvl + 1 = SNAPSHOT_LEVEL THEN BackToL0
            ELSE rpc' = "gap" /\ s' = [s EXCEPT !.lvl = @ + 1]
       /\ UNCHANGED <<rdb, sidecar, outcome, high, faults>>

\* One listing of finish_incremental, from the snapshots down.
ScanList ==
    /\ rpc = "scan"
    /\ s' = [s EXCEPT !.files = @ \cup ltx_files(bucket, s.lvl, 0),
                      !.lvl = IF @ = 0 THEN 0 ELSE @ - 1]
    /\ rpc' = IF s.lvl = 0 THEN "scanned" ELSE "scan"
    /\ UNCHANGED <<rdb, sidecar, outcome, high, faults>>

\* Mutant: a bucket that ends at the position counts as diverged.
ScannedOffByOne ==
    LET max == MaxTxid(s.files)
    IN /\ rpc = "scanned"
       /\ IF max # 0 /\ max <= s.cur
            THEN IF auto_reset THEN StartRestore /\ outcome' = "diverged" ELSE SyncReturns("diverged")
            ELSE SyncReturns("ok")
       /\ UNCHANGED <<rdb, sidecar, high, faults>>

\* Up to date, diverged, or a newer snapshot to apply in place.
Scanned ==
    LET max   == MaxTxid(s.files)
        snaps == ltx_files(s.files, SNAPSHOT_LEVEL, 0)
    IN /\ rpc = "scanned"
       /\ CASE max = 0 -> SyncReturns("ok")
            [] max # 0 /\ max < s.cur ->
                 IF auto_reset THEN StartRestore /\ outcome' = "diverged" ELSE SyncReturns("diverged")
            [] max >= s.cur /\ MaxTxid(snaps) > s.cur ->
                 Fetching(Last(snaps), "snapshot") /\ UNCHANGED outcome
            [] max # 0 /\ max >= s.cur /\ MaxTxid(snaps) <= s.cur -> SyncReturns("ok")
       /\ UNCHANGED <<rdb, sidecar, high, faults>>

SaveSidecar ==
    /\ rpc = "save"
    /\ sidecar' = s.cur
    /\ SyncReturns("ok")
    /\ UNCHANGED <<rdb, high, faults>>

----------------------------------------------------------------------------
(* apply_ltx_file, apply_spooled *)

\* The file is fetched to the spool and verified.
Fetch ==
    /\ rpc = "fetch" /\ Stored(s.file) # {}
    /\ \E f \in Stored(s.file) : s' = [s EXCEPT !.file = f]
    /\ rpc' = "apply"
    /\ UNCHANGED <<rdb, sidecar, outcome, high, faults>>

\* A listed file is gone: the sync keeps what it has, but a vanished snapshot
\* is an error.
Vanished ==
    /\ rpc = "fetch" /\ Stored(s.file) = {}
    /\ CASE s.ctx = "l0"       -> Finish(TRUE)
         [] s.ctx = "gap"      -> /\ rpc' = "l0" /\ UNCHANGED outcome
                                  /\ s' = [s EXCEPT !.saw404 = TRUE, !.files = {}, !.lvl = 0]
         [] s.ctx = "snapshot" -> SyncReturns("notfound")
    /\ UNCHANGED <<rdb, sidecar, high, faults>>

\* A reader keeps its lock beyond the timeout: nothing is written.
LockBusy ==
    /\ rpc = "apply"
    /\ Strike("busy")
    /\ SyncReturns("lockbusy")
    /\ UNCHANGED <<rdb, sidecar, high>>

\* The lock is taken and the first pages are written.
ApplyBegin ==
    /\ rpc = "apply"
    /\ \E P \in SUBSET PagesIn(s.file) : rdb' = Written(s.file, P)
    /\ high' = IF s.file.max > high THEN s.file.max ELSE high
    /\ rpc' = "applying"
    /\ UNCHANGED <<sidecar, s, outcome, faults>>

\* Mutant: the position goes on although the pages are not all written.
ApplyEndShort ==
    /\ rpc = "applying"
    /\ s' = [s EXCEPT !.cur = s.file.max, !.todo = IF s.ctx = "l0" THEN @ \ {First(@)} ELSE @,
                      !.bridged = FALSE, !.file = NoFile]
    /\ rpc' = CASE s.ctx = "l0" -> "l0" [] s.ctx = "gap" -> "gapfile"
                [] s.ctx = "snapshot" -> "save" [] s.ctx = "stream" -> "streamsave"
    /\ UNCHANGED <<rdb, sidecar, outcome, high, faults>>

\* All pages are written, and the lock is released.
ApplyEnd ==
    /\ rpc = "applying"
    /\ rdb' = Written(s.file, PagesIn(s.file))
    /\ s' = [s EXCEPT !.cur = s.file.max, !.todo = IF s.ctx = "l0" THEN @ \ {First(@)} ELSE @,
                      !.bridged = IF s.ctx = "l0" THEN FALSE ELSE @, !.file = NoFile]
    /\ rpc' = CASE s.ctx = "l0" -> "l0" [] s.ctx = "gap" -> "gapfile"
                [] s.ctx = "snapshot" -> "save" [] s.ctx = "stream" -> "streamsave"
    /\ UNCHANGED <<sidecar, outcome, high, faults>>

----------------------------------------------------------------------------
(* follow *)

\* After a successful sync a stream is opened at the position.
StreamOpen ==
    /\ rpc = "idle" /\ outcome = "ok" /\ rdb # NoDb /\ sidecar > 0
    /\ rpc' = "stream"
    /\ s' = [Fresh EXCEPT !.from = sidecar, !.cur = sidecar, !.ctx = "stream"]
    /\ UNCHANGED <<rdb, sidecar, outcome, high, faults>>

\* The server sends a file of level 0; one that is behind is dropped.
StreamFrame ==
    /\ rpc = "stream"
    /\ \E f \in ltx_files(bucket, 0, 0) :
          /\ is_contiguous(s.cur, f)
          /\ s' = [s EXCEPT !.file = f]
    /\ rpc' = "apply"
    /\ UNCHANGED <<rdb, sidecar, outcome, high, faults>>

StreamSave ==
    /\ rpc = "streamsave"
    /\ sidecar' = s.cur
    /\ rpc' = "stream" /\ s' = [s EXCEPT !.from = s.cur]
    /\ UNCHANGED <<rdb, outcome, high, faults>>

\* A frame that does not fit, a gap, a reset or an idle ping with a bucket
\* behind the position: back to sync.
StreamMisfit ==
    LET l0 == ltx_files(bucket, 0, s.cur + 1)
    IN /\ rpc = "stream"
       /\ \/ l0 # {} /\ \A f \in l0 : f.min > s.cur + 1
          \/ bucket # {} /\ MaxTxid(bucket) < s.cur
       /\ SyncReturns("resync")
       /\ UNCHANGED <<rdb, sidecar, high, faults>>

\* The stream ends or fails.
StreamEnd ==
    /\ rpc = "stream"
    /\ SyncReturns("resync")
    /\ UNCHANGED <<rdb, sidecar, high, faults>>

----------------------------------------------------------------------------
(* reset *)

\* The caller resets the replica: the database goes first, ...
ResetDb ==
    /\ rpc = "idle"
    /\ Strike("reset")
    /\ rdb' = NoDb /\ high' = 0
    /\ rpc' = "reset"
    /\ UNCHANGED <<sidecar, s, outcome>>

\* ... then the sidecar.
ResetSidecar ==
    /\ rpc = "reset"
    /\ sidecar' = 0
    /\ SyncReturns("none")
    /\ UNCHANGED <<rdb, high, faults>>

----------------------------------------------------------------------------
(* Faults *)

\* A storage call or a file operation fails, or the token is seen cancelled.
\* What was applied stays applied; the sidecar stays where it is.
SyncFails ==
    /\ rpc \notin {"idle", "stream"}
    /\ Strike("fail")
    /\ SyncReturns("error")
    /\ UNCHANGED <<rdb, sidecar, high>>

\* The process is killed.
Killed ==
    /\ rpc # "idle"
    /\ Strike("crash")
    /\ SyncReturns("killed")
    /\ UNCHANGED <<rdb, sidecar, high>>

----------------------------------------------------------------------------

ReplicaInit ==
    /\ \E c \in Cases : auto_reset = c.auto_reset /\ faults = c.faults
    /\ rdb = NoDb /\ sidecar = 0
    /\ rpc = "idle" /\ s = Fresh /\ outcome = "none"
    /\ high = 0

\* What the caller's loop and the code do by themselves.
ReplicaStep ==
    \/ RestoreList \/ RestorePlanned \/ RestoreOpen \/ RestoreRename \/ RestoreSidecar
    \/ SyncStart \/ L0File \/ L0End \/ GapList \/ GapFile \/ ScanList \/ Scanned \/ SaveSidecar
    \/ Fetch \/ Vanished \/ ApplyBegin \/ ApplyEnd
    \/ StreamFrame \/ StreamSave \/ StreamMisfit \/ ResetSidecar

ReplicaFault == ResetDb \/ RestoreBadImage \/ LockBusy \/ SyncFails \/ Killed
=============================================================================
