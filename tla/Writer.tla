------------------------------- MODULE Writer -------------------------------
(***************************************************************************)
(* The write side of liters: Writer (crates/liters/src/writer.rs), with    *)
(* its verify() decision tree (verify.rs), its checkpoint protocol         *)
(* (checkpoint.rs), its meta directory (meta.rs) and the bucket's L0       *)
(* files, run against a live SQLite database (SqliteWal).                  *)
(*                                                                         *)
(* One push is a sequence of steps; the application commits and            *)
(* checkpoints between them.  pc names the step the writer takes next.     *)
(*                                                                         *)
(* Abstractions.  An L0 file is a record of its header (WAL offset, size   *)
(* and salts), of the pages in it, and of whether it is a full snapshot.   *)
(* The database has a fixed size, so `commit' (the size in pages) is left  *)
(* out.  cached_pos equals the position derived from the directory unless  *)
(* a wipe of the directory stopped half-way (st.stale).                    *)
(* synced_since_checkpoint is written and never read.                      *)
(***************************************************************************)
EXTENDS SqliteWal

CONSTANTS
    AutoCheckpoint,        \* WriterOptions.auto_checkpoint
    MinCheckpointPageN,    \* WriterOptions.min_checkpoint_page_n
    TruncatePageN,         \* WriterOptions.truncate_page_n, 0 disables it
    Races,                 \* races with the application that a run admits
    MaxHistory,            \* no push starts with more committed states than this
    Budgets                \* how often each kind of event may happen: the cases of a run

Kinds == {"commit", "spill", "appckpt", "unlockedckpt", "cancel", "error", "lostack",
          "vplost", "busy", "relock", "close", "crash", "legacy", "reset", "clearfail", "foreign",
          "wipe", "backup"}

ASSUME WriterAssumption ==
    /\ AutoCheckpoint \in BOOLEAN /\ Races \subseteq {"precopy", "mark0"}
    /\ MinCheckpointPageN \in Nat /\ TruncatePageN \in Nat
    /\ MaxHistory \in Nat
    /\ Budgets \subseteq [Kinds -> Nat]

VARIABLES
    l0,         \* local L0 files: TXID -> file
    vpFile,     \* the verified-pos file, NoTxid when absent
    bucket,     \* L0 files of the bucket: TXID -> file
    pc,         \* next step of the writer, "closed" when there is none
    phase,      \* which verify_and_sync is running: "push", "pre", "post"
    ck,         \* the running checkpoint: mode and WAL header before it
    orig,       \* orig_wal_size of the running push
    info,       \* SyncInfo returned by verify()
    scan,       \* what sync() read from the WAL before it encodes
    st,         \* SyncState (its offset is also the sync-state file), and whether
                \* cached_pos is the position of a file that is gone
    vp,         \* verified_pos
    provisional,\* verified_pos_provisional
    checked,    \* lineage_checked
    remote,     \* remote_txid
    budget,     \* events left
    backup,     \* a copy of the device taken earlier, or NoBackup
    floor,      \* ghost: database state the running push must cover
    acked       \* ghost: database state the last successful push covered

pushVars   == <<pc, phase, ck, orig, info, scan, st>>
lineVars   == <<vp, provisional, checked, remote, vpFile>>
ghostVars  == <<floor, acked>>
vars == <<sqliteVars, l0, bucket, pushVars, lineVars, budget, backup, ghostVars>>

NoTxid   == -1
NoBackup == [none |-> TRUE]
NoSize   == -1      \* a WAL offset of zero bytes: no header, nothing synced
----------------------------------------------------------------------------
(* Files, positions and images. *)

IsFile(f) ==
    /\ f.off \in Nat /\ f.size \in Nat /\ f.salt \in Int /\ f.snap \in BOOLEAN
    /\ DOMAIN f.pages \subseteq Pages
    /\ \A p \in DOMAIN f.pages : f.pages[p] \in Int

\* Highest TXID in a directory or listing, 0 when it is empty.
MaxTxid(files) == IF DOMAIN files = {} THEN 0 ELSE Greatest(DOMAIN files)

Put(files, t, f) == [x \in DOMAIN files \cup {t} |-> IF x = t THEN f ELSE files[x]]

NoFiles == [t \in {} |-> 0]

\* MetaDir::pos: the TXID of the newest local L0.
Pos == MaxTxid(l0)

\* The database a restore to TXID t produces: the newest version of each page
\* among the files up to t.
RestoreImage(t) ==
    [p \in Pages |->
        LET T == {x \in DOMAIN bucket : x <= t /\ p \in DOMAIN bucket[x].pages}
        IN IF T = {} THEN 0 ELSE bucket[Greatest(T)].pages[p]]

\* The file another writer places at TXID t: a full snapshot of its database,
\* from a WAL of its own.
ForeignImage(t) == [p \in Pages |-> 0 - t]
ForeignFile(t, n) ==
    [off |-> 0, size |-> n, salt |-> 0 - t, snap |-> TRUE, pages |-> ForeignImage(t)]

Spend(kind) ==
    budget[kind] > 0 /\ budget' = [budget EXCEPT ![kind] = @ - 1]

NoInfo == [off |-> 0, salt |-> 0, snap |-> FALSE, clear |-> FALSE]
NoScan == [off |-> 0, end |-> 0, salt |-> 0, pages |-> NoFiles]
NoCk   == [mode |-> "none", hdr |-> NoHdr]

\* The locals of a push that is over.
NoLocals ==
    phase' = "none" /\ ck' = NoCk /\ orig' = NoSize /\ info' = NoInfo /\ scan' = NoScan

\* A push returns, with an error or with success; what it did so far stays.
Return == pc' = "idle" /\ NoLocals

----------------------------------------------------------------------------
(* verify(). *)

WalSize == IF whdr = NoHdr THEN NoSize ELSE Len(wal)

\* The newest local L0, and the WAL offset where it ends.
Last   == l0[Pos]
Resume == Last.off + Last.size

\* last_page_match: the frame last synced is still in the WAL, with the salts
\* of the newest L0, and its page is in that file.
LastPageMatch ==
    LET f == wal[Resume]
    IN /\ f.salt = Last.salt
       /\ f.pg \in DOMAIN Last.pages
       /\ Last.pages[f.pg] = f.val

\* detect_full_checkpoint: a generation nobody read lies above the old one.
DetectFullCheckpoint == FrameSaltsUntil(Last.salt) \ {whdr, Last.salt} # {}

\* The file of the position is gone, or the expected-truncation shortcut (#927)
\* reads the header of a WAL that has none.
VerifyFails ==
    \/ st.stale
    \/ Pos # 0 /\ Resume > WalSize /\ st.toEnd /\ whdr = NoHdr

VerifyInfo ==
    IF Pos = 0
      THEN [off |-> 0, salt |-> 0, snap |-> TRUE, clear |-> FALSE]
    ELSE IF Resume > WalSize
      THEN IF st.toEnd
             THEN [off |-> 0, salt |-> whdr, snap |-> FALSE, clear |-> TRUE]
             ELSE [off |-> Resume, salt |-> Last.salt, snap |-> TRUE, clear |-> FALSE]
    ELSE IF Resume <= 1
      THEN [off |-> Resume, salt |-> Last.salt, snap |-> whdr # Last.salt, clear |-> FALSE]
    ELSE IF ~LastPageMatch
      THEN [off |-> Resume, salt |-> Last.salt, snap |-> TRUE, clear |-> FALSE]
    ELSE IF whdr # Last.salt
      THEN [off |-> 0, salt |-> whdr, snap |-> DetectFullCheckpoint, clear |-> FALSE]
    ELSE [off |-> Resume, salt |-> Last.salt, snap |-> FALSE, clear |-> FALSE]

----------------------------------------------------------------------------
(* One push. *)

\* Where verify_and_sync goes on: push_with to its checkpoint decision, the
\* pre-copy to the release of the read lock, the post-copy to its ROLLBACK.
AfterSync ==
    /\ pc' = CASE phase = "push" -> "decide"
               [] phase = "pre"  -> "release"
               [] phase = "post" -> "lineage"
    /\ info' = NoInfo /\ scan' = NoScan
    /\ wlock' = IF phase = "post" THEN "none" ELSE wlock

\* A failed verify_and_sync: the post-copy's ROLLBACK still runs.
SyncFails ==
    /\ Return
    /\ wlock' = IF phase = "post" THEN "none" ELSE wlock
    /\ UNCHANGED <<db, wal, whdr, mx, bf, gens, pend, rmark, history, l0, bucket, st,
                   lineVars, backup, ghostVars>>

\* push_with up to its first verify_and_sync: makes sure that the WAL has a
\* header (the write may find the database busy).
PushStart ==
    /\ pc = "idle"
    /\ Len(history) <= MaxHistory
    /\ IF whdr # NoHdr
         THEN UNCHANGED sqliteVars
         ELSE CommitPage(SeqPage, FALSE) /\ UNCHANGED <<db, rmark>>
    /\ floor' = Len(history')
    /\ orig' = IF st.last > NoSize THEN st.last ELSE IF whdr' = NoHdr THEN NoSize ELSE Len(wal')
    /\ pc' = "verify" /\ phase' = "push"
    /\ UNCHANGED <<l0, bucket, ck, info, scan, st, lineVars, budget, backup, acked>>

Verify ==
    /\ pc = "verify"
    /\ IF VerifyFails
         THEN SyncFails
         ELSE /\ info' = VerifyInfo
              /\ pc' = "scan"
              /\ UNCHANGED <<sqliteVars, l0, bucket, phase, ck, orig, scan, st, lineVars,
                             backup, ghostVars>>
    /\ UNCHANGED budget

\* Where sync() opens the WAL: where verify() said, or at the top when the
\* resume frame is gone.
Reader ==
    IF info.off # 0 /\ ResumeFrameThere(info.off, info.salt)
      THEN [off |-> info.off, salt |-> info.salt]
      ELSE [off |-> 0, salt |-> whdr]

\* sync(), first half: opens the WAL and maps the committed pages.  With
\* nothing to write it is done.
Scan ==
    /\ pc = "scan"
    /\ UNCHANGED budget
    /\ IF whdr = NoHdr
         THEN SyncFails
         ELSE LET rd == Reader
                  m  == PageMap(rd.off, rd.salt)
              IN /\ IF ~info.snap /\ m.end = rd.off
                      THEN /\ st' = [st EXCEPT !.last = rd.off, !.toEnd = @ /\ ~info.clear]
                           /\ AfterSync
                      ELSE /\ scan' = [off |-> rd.off, end |-> m.end, salt |-> rd.salt,
                                      pages |-> m.pages]
                           /\ pc' = "encode"
                           /\ UNCHANGED <<info, st, wlock>>
                 /\ UNCHANGED <<db, wal, whdr, mx, bf, gens, pend, rmark, history, l0, bucket,
                                phase, ck, orig, lineVars, backup, ghostVars>>

\* The file sync() writes: every page, from the WAL or from the database
\* file, for a snapshot; the mapped pages otherwise.
EncodedFile ==
    [off   |-> scan.off,
     size  |-> scan.end - scan.off,
     salt  |-> scan.salt,
     snap  |-> info.snap,
     pages |-> [p \in (IF info.snap THEN Pages ELSE DOMAIN scan.pages) |->
                  IF p \in DOMAIN scan.pages THEN wal[scan.pages[p]].val ELSE db[p]]]

\* sync(), second half: encodes, renames the file into place, and records
\* how far the WAL was consumed.  Reading a frame of a WAL that was cut short
\* since it was mapped is an error.
Encode ==
    /\ pc = "encode"
    /\ UNCHANGED budget
    /\ IF \E p \in DOMAIN scan.pages : scan.pages[p] > Len(wal)
         THEN SyncFails
         ELSE /\ l0' = Put(l0, Pos + 1, EncodedFile)
              /\ st' = [st EXCEPT !.last = scan.end, !.toEnd = scan.end = WalSize]
              /\ AfterSync
              /\ UNCHANGED <<db, wal, whdr, mx, bf, gens, pend, rmark, history, bucket,
                             phase, ck, orig, lineVars, backup, ghostVars>>

\* A cancelled push stops at its next check: while encoding, before the
\* checkpoint, before the listing, between uploads.  (Stopped at the very
\* first check, it did nothing.)
Cancel ==
    /\ \/ pc = "encode" /\ phase = "push"
       \/ pc = "decide"
       \/ pc = "lineage" /\ ~checked
       \/ pc = "upload" /\ remote # NoTxid /\ remote < Pos
    /\ Spend("cancel")
    /\ Return
    /\ remote' = IF pc = "upload" THEN NoTxid ELSE remote
    /\ UNCHANGED <<sqliteVars, l0, bucket, st, vp, provisional, checked, vpFile, backup, ghostVars>>

----------------------------------------------------------------------------
(* The checkpoint protocol. *)

\* checkpoint_if_needed: which checkpoint the thresholds ask for.
CheckpointMode ==
    IF AutoCheckpoint /\ TruncatePageN > 0 /\ orig >= TruncatePageN THEN "truncate"
    ELSE IF AutoCheckpoint /\ st.last >= MinCheckpointPageN THEN "passive"
    ELSE "none"

\* Mutant: no pre-copy before the checkpoint.
DecideNoPrecopy ==
    /\ pc = "decide"
    /\ IF CheckpointMode = "none"
         THEN pc' = "lineage" /\ UNCHANGED ck
         ELSE pc' = "release" /\ ck' = [mode |-> CheckpointMode, hdr |-> whdr]
    /\ UNCHANGED <<sqliteVars, phase, orig, info, scan, l0, bucket, st, lineVars, budget, backup,
                   ghostVars>>

\* The start of checkpoint(): reads the WAL header (a headerless WAL is an
\* error) and begins the pre-copy.
Decide ==
    /\ pc = "decide"
    /\ IF CheckpointMode = "none"
         THEN pc' = "lineage" /\ UNCHANGED <<phase, ck, orig, info, scan>>
       ELSE IF whdr = NoHdr
         THEN Return
       ELSE /\ pc' = "verify" /\ phase' = "pre" /\ ck' = [mode |-> CheckpointMode, hdr |-> whdr]
            /\ UNCHANGED <<orig, info, scan>>
    /\ UNCHANGED <<sqliteVars, l0, bucket, st, lineVars, budget, backup, ghostVars>>

\* exec_checkpoint: releases the read lock,
Release ==
    /\ pc = "release"
    /\ rmark' = Unlocked
    /\ pc' = "pragma"
    /\ UNCHANGED <<db, wal, whdr, mx, bf, gens, wlock, pend, history, l0, bucket, phase, ck, orig,
                   info, scan, st, lineVars, budget, backup, ghostVars>>

\* runs the checkpoint (a TRUNCATE that is in somebody's way only copies),
Pragma ==
    /\ pc = "pragma"
    /\ CheckpointPassive \/ (ck.mode = "truncate" /\ CheckpointTruncate)
    /\ pc' = "reacquire"
    /\ UNCHANGED <<rmark, l0, bucket, phase, ck, orig, info, scan, st, lineVars, budget,
                   backup, ghostVars>>

\* What an error of the checkpoint means for the push: SQLITE_BUSY ends a
\* PASSIVE checkpoint but not the push.
CheckpointBusy ==
    IF ck.mode = "passive"
      THEN pc' = "lineage" /\ UNCHANGED <<phase, ck, orig, info, scan>>
      ELSE Return

\* and takes the read lock again (which may fail, and leaves it released).
Reacquire ==
    /\ pc = "reacquire"
    /\ \/ /\ rmark' = NewMark
          /\ pc' = "writeseq"
          /\ UNCHANGED <<budget, phase, ck, orig, info, scan>>
       \/ Spend("relock") /\ CheckpointBusy /\ UNCHANGED rmark
    /\ UNCHANGED <<db, wal, whdr, mx, bf, gens, wlock, pend, history, l0, bucket, st, lineVars,
                   backup, ghostVars>>

\* write_seq, then the comparison of the WAL header with the one before.
WriteSeq ==
    /\ pc = "writeseq"
    /\ \/ /\ \E restart \in BOOLEAN : CommitPage(SeqPage, restart)
          /\ pc' = IF whdr' = ck.hdr THEN "lineage" ELSE "lock"
          /\ UNCHANGED <<db, rmark, budget, phase, ck, orig, info, scan>>
       \/ /\ wlock = "app" /\ Spend("busy")
          /\ CheckpointBusy
          /\ UNCHANGED sqliteVars
    /\ UNCHANGED <<l0, bucket, st, lineVars, backup, ghostVars>>

\* The WAL restarted: the post-copy runs under the write lock.
Lock ==
    /\ pc = "lock"
    /\ \/ /\ wlock = "none" /\ wlock' = "writer"
          /\ pc' = "verify" /\ phase' = "post"
          /\ UNCHANGED <<budget, ck, orig, info, scan>>
       \/ /\ wlock = "app" /\ Spend("busy")
          /\ CheckpointBusy
          /\ UNCHANGED wlock
    /\ UNCHANGED <<db, wal, whdr, mx, bf, gens, pend, rmark, history, l0, bucket, st, lineVars,
                   backup, ghostVars>>

----------------------------------------------------------------------------
(* The lineage check and the upload. *)

\* verified_pos becomes t; writing its file is best effort.
SetVerified(t) ==
    /\ vp' = t
    /\ \/ vpFile' = t /\ UNCHANGED budget
       \/ vpFile # t /\ Spend("vplost") /\ UNCHANGED vpFile

\* The bucket holds a history this lineage did not write.
Foreign ==
    IF provisional THEN MaxTxid(bucket) > vp ELSE MaxTxid(bucket) # vp

\* The local L0 files give way to the newest file of the bucket
\* (rebaseline_from_remote), or to nothing when the bucket is empty.
\* Mutant: synced_to_wal_end is kept.
AdoptBucket == l0' = [t \in {x \in DOMAIN bucket : x = MaxTxid(bucket)} |-> bucket[t]]
RebaselineKeepsEnd == AdoptBucket /\ UNCHANGED st
Rebaseline == AdoptBucket /\ st' = [st EXCEPT !.toEnd = FALSE]

\* Mutant: the bucket is not listed, verified-pos is believed.
EnsureLineageCheckedBlind ==
    /\ pc = "lineage"
    /\ pc' = "upload" /\ checked' = TRUE
    /\ remote' = IF checked THEN remote ELSE vp
    /\ UNCHANGED <<sqliteVars, l0, bucket, phase, ck, orig, info, scan, st, vp, provisional, vpFile,
                   budget, backup, ghostVars>>

\* ensure_lineage_checked: a session's first contact with the bucket.  (A
\* rebaseline discards what this push converted; the next one snapshots.)
EnsureLineageChecked ==
    /\ pc = "lineage"
    /\ IF checked
         THEN UNCHANGED <<l0, st, lineVars, budget, floor>>
         ELSE /\ SetVerified(MaxTxid(bucket))
              /\ provisional' = FALSE
              /\ remote' = MaxTxid(bucket)
              /\ checked' = TRUE
              /\ IF Foreign
                   THEN Rebaseline /\ floor' = 0
                   ELSE UNCHANGED <<l0, st, floor>>
    /\ pc' = "upload"
    /\ UNCHANGED <<sqliteVars, bucket, phase, ck, orig, info, scan, backup, acked>>

\* The listing fails; or the rebaseline does, after it cleared the local L0
\* files and before it adopted the bucket's.
LineageFails ==
    /\ pc = "lineage" /\ ~checked
    /\ Spend("error")
    /\ Return
    /\ l0' = l0 \/ (Foreign /\ DOMAIN bucket # {} /\ l0' = NoFiles)
    /\ UNCHANGED <<sqliteVars, bucket, st, lineVars, backup, ghostVars>>

\* clear_l0 fails half-way: some files are left, and the position, if it is
\* cached, stays in memory when its file is gone.
HalfCleared(cached) ==
    \E left \in SUBSET DOMAIN l0 :
        /\ l0' = [t \in left |-> l0[t]]
        /\ st' = [st EXCEPT !.stale = @ \/ (cached /\ Pos \in DOMAIN l0 \ left)]

\* The rebaseline stops while it clears the local L0 files.
RebaselineFails ==
    /\ pc = "lineage" /\ ~checked /\ Foreign
    /\ Spend("clearfail")
    /\ Return
    /\ HalfCleared(TRUE)
    /\ UNCHANGED <<sqliteVars, bucket, lineVars, backup, ghostVars>>

\* Mutant: a bucket that moved is retried without a new lineage check.
UploadDeriveStuck ==
    /\ pc = "upload" /\ remote = NoTxid
    /\ IF MaxTxid(bucket) = vp
         THEN remote' = vp /\ UNCHANGED <<pc, phase, ck, orig, info, scan>>
         ELSE Return /\ UNCHANGED remote
    /\ UNCHANGED <<sqliteVars, l0, bucket, st, vp, provisional, vpFile, checked, budget, backup,
                   ghostVars>>

\* upload(), remote_txid unknown: lists the bucket, and refuses to go on when
\* it is not where this session left it.
UploadDerive ==
    /\ pc = "upload" /\ remote = NoTxid
    /\ IF MaxTxid(bucket) = vp
         THEN remote' = vp /\ UNCHANGED <<pc, phase, ck, orig, info, scan, checked>>
         ELSE checked' = FALSE /\ Return /\ UNCHANGED remote
    /\ UNCHANGED <<sqliteVars, l0, bucket, st, vp, provisional, vpFile, budget, backup, ghostVars>>

UploadListFails ==
    /\ pc = "upload" /\ remote = NoTxid
    /\ Spend("error")
    /\ Return
    /\ UNCHANGED <<sqliteVars, l0, bucket, st, lineVars, backup, ghostVars>>

\* Mutant: the newest file is uploaded, the backlog is not.
UploadPutNewest ==
    /\ pc = "upload" /\ remote # NoTxid /\ remote < Pos
    /\ bucket' = Put(bucket, Pos, l0[Pos])
    /\ remote' = Pos
    /\ IF Pos > vp THEN SetVerified(Pos) ELSE UNCHANGED <<vp, vpFile, budget>>
    /\ UNCHANGED <<sqliteVars, l0, pushVars, provisional, checked, backup, ghostVars>>

\* upload(), one file: stored and acknowledged.
UploadPut ==
    /\ pc = "upload" /\ remote # NoTxid /\ remote < Pos
    /\ remote + 1 \in DOMAIN l0
    /\ bucket' = Put(bucket, remote + 1, l0[remote + 1])
    /\ remote' = remote + 1
    /\ IF remote + 1 > vp
         THEN SetVerified(remote + 1)
         ELSE UNCHANGED <<vp, vpFile, budget>>
    /\ UNCHANGED <<sqliteVars, l0, pushVars, provisional, checked, backup, ghostVars>>

\* The PUT fails, with the file stored (the answer is lost) or not; or the
\* local file is missing.
UploadFails ==
    /\ pc = "upload" /\ remote # NoTxid /\ remote < Pos
    /\ \/ remote + 1 \notin DOMAIN l0 /\ UNCHANGED <<bucket, budget>>
       \/ remote + 1 \in DOMAIN l0 /\ Spend("error") /\ UNCHANGED bucket
       \/ /\ remote + 1 \in DOMAIN l0 /\ Spend("lostack")
          /\ bucket' = Put(bucket, remote + 1, l0[remote + 1])
    /\ remote' = NoTxid
    /\ Return
    /\ UNCHANGED <<sqliteVars, l0, st, vp, provisional, checked, vpFile, backup, ghostVars>>

\* prune_l0: drops the local files below a TXID, except the newest.
\* Mutant: up to that TXID, and the newest too.
PruneL0Newest(before) == [t \in {x \in DOMAIN l0 : x > before} |-> l0[t]]
PruneL0(before) == [t \in {x \in DOMAIN l0 : x >= before \/ x = Pos} |-> l0[t]]

\* Everything is uploaded: what the bucket has is pruned, and the push
\* succeeds.
PushDone ==
    /\ pc = "upload" /\ remote # NoTxid /\ remote >= Pos
    /\ l0' = PruneL0(remote)
    /\ acked' = IF floor > 0 THEN floor ELSE acked
    /\ Return
    /\ UNCHANGED <<sqliteVars, bucket, st, lineVars, budget, backup, floor>>

----------------------------------------------------------------------------
(* The life of a Writer. *)

\* The lineage baseline: the verified-pos file, or the newest local L0 of a
\* meta directory that predates it.  Mutant: without the latter.
BaselineFileOnly == vpFile
Baseline == IF vpFile # NoTxid THEN vpFile ELSE Pos

Open ==
    /\ pc = "closed"
    /\ rmark' = NewMark
    /\ IF whdr # NoHdr
         THEN UNCHANGED <<wal, whdr, mx, bf, gens, wlock, pend, history>>
         ELSE CommitPage(SeqPage, FALSE)
    /\ vp' = Baseline
    /\ provisional' = (vpFile = NoTxid /\ DOMAIN l0 # {})
    /\ vpFile' = IF vpFile = NoTxid /\ DOMAIN l0 = {} THEN 0 ELSE vpFile
    /\ remote' = NoTxid /\ checked' = FALSE
    /\ st' = [st EXCEPT !.toEnd = FALSE, !.stale = FALSE]
    /\ pc' = "idle"
    /\ UNCHANGED <<db, l0, bucket, phase, ck, orig, info, scan, budget, backup, ghostVars>>

\* Dropping the Writer, or the death of its process at any step: SQLite's
\* locks go, the files stay.
Close ==
    /\ \/ pc = "idle" /\ Spend("close")
       \/ pc \notin {"idle", "closed"} /\ Spend("crash")
    /\ pc' = "closed" /\ NoLocals
    /\ rmark' = Unlocked
    /\ wlock' = IF wlock = "writer" THEN "none" ELSE wlock
    /\ UNCHANGED <<db, wal, whdr, mx, bf, gens, pend, history, l0, bucket, st, lineVars, backup,
                   ghostVars>>

\* reset_local forgets the verified position, in memory and on disk, before it
\* removes the local L0 files.
ResetLocal ==
    /\ pc = "idle" /\ Spend("reset")
    /\ vp' = 0 /\ vpFile' = 0
    /\ provisional' = FALSE /\ checked' = FALSE
    /\ l0' = NoFiles
    /\ remote' = NoTxid
    /\ st' = [st EXCEPT !.toEnd = FALSE, !.stale = FALSE]
    /\ UNCHANGED <<sqliteVars, bucket, pc, phase, ck, orig, info, scan, backup, ghostVars>>

\* It fails while it writes verified-pos, or while it removes the files (the
\* position is cached unless no push of this session got that far).
ResetFails ==
    /\ pc = "idle" /\ Spend("clearfail")
    /\ vp' = 0
    /\ \/ UNCHANGED <<l0, st, provisional, checked, vpFile>>
       \/ /\ \E cached \in BOOLEAN : HalfCleared(cached)
          /\ provisional' = FALSE /\ checked' = FALSE /\ vpFile' = 0
    /\ UNCHANGED <<sqliteVars, bucket, pc, phase, ck, orig, info, scan, remote, backup, ghostVars>>

----------------------------------------------------------------------------
(* The application, other writers of the bucket, and the device. *)

\* Two races are left out of a run unless Races has them.  "precopy": a commit
\* between the pre-copy's read of the WAL and the PRAGMA.  "mark0": a commit
\* that restarts the WAL under a running verify_and_sync, after verify() chose
\* where to resume, which a read transaction at mark 0 does not prevent.
AppMayCommit(restart) ==
    /\ "precopy" \in Races \/ ~(phase = "pre" /\ pc \in {"encode", "release", "pragma"})
    /\ "mark0" \in Races \/ ~(restart /\ pc \in {"scan", "encode"})

WriterUnchanged == UNCHANGED <<l0, bucket, pushVars, lineVars, backup, ghostVars>>

AppCommit ==
    /\ Spend("commit")
    /\ \E p \in Pages \ {SeqPage}, restart \in BOOLEAN :
          AppMayCommit(restart) /\ CommitPage(p, restart)
    /\ UNCHANGED <<db, rmark>> /\ WriterUnchanged

AppSpill ==
    /\ Spend("spill")
    /\ \E p \in Pages \ {SeqPage}, restart \in BOOLEAN :
          AppMayCommit(restart) /\ Spill(p, restart)
    /\ UNCHANGED <<db, rmark>> /\ WriterUnchanged

AppCommitSpilled ==
    /\ AppMayCommit(FALSE)
    /\ \E p \in Pages \ {SeqPage} : CommitSpilled(p)
    /\ UNCHANGED <<db, rmark, budget>> /\ WriterUnchanged

AppRollback == Rollback /\ UNCHANGED <<rmark, budget>> /\ WriterUnchanged

\* A checkpoint by one of the application's connections.
AppCheckpoint ==
    /\ Spend(IF rmark = Unlocked THEN "unlockedckpt" ELSE "appckpt")
    /\ CheckpointPassive \/ CheckpointTruncate
    /\ UNCHANGED rmark /\ WriterUnchanged

\* A meta directory from before the verified-pos file existed.
Legacy ==
    /\ pc = "closed" /\ Spend("legacy")
    /\ DOMAIN l0 # {}
    /\ vpFile' = NoTxid
    /\ UNCHANGED <<sqliteVars, l0, bucket, pushVars, vp, provisional, checked, remote, backup,
                   ghostVars>>

\* Between two sessions of this writer another one appends to the bucket, or
\* the bucket is wiped.
ForeignPush ==
    /\ pc = "closed" /\ Spend("foreign")
    /\ \E n \in 1..3 :
          bucket' = Put(bucket, MaxTxid(bucket) + 1, ForeignFile(MaxTxid(bucket) + 1, n))
    /\ UNCHANGED <<sqliteVars, l0, pushVars, lineVars, backup, ghostVars>>

Wipe ==
    /\ pc = "closed" /\ Spend("wipe")
    /\ bucket' = NoFiles
    /\ acked' = 0
    /\ UNCHANGED <<sqliteVars, l0, pushVars, lineVars, backup, floor>>

\* The device is backed up, and later set back to the backup.
TakeBackup ==
    /\ pc = "closed" /\ wlock = "none" /\ Spend("backup")
    /\ backup' = [db |-> db, wal |-> wal, whdr |-> whdr, mx |-> mx, bf |-> bf, l0 |-> l0,
                  vpFile |-> vpFile, last |-> st.last, image |-> Current]
    /\ UNCHANGED <<sqliteVars, l0, bucket, pushVars, lineVars, ghostVars>>

RestoreBackup ==
    /\ pc = "closed" /\ wlock = "none" /\ backup # NoBackup
    /\ db' = backup.db /\ wal' = backup.wal /\ whdr' = backup.whdr
    /\ mx' = backup.mx /\ bf' = backup.bf
    /\ history' = Append(history, backup.image)
    /\ l0' = backup.l0 /\ vpFile' = backup.vpFile
    /\ st' = [st EXCEPT !.last = backup.last]
    /\ backup' = NoBackup
    /\ acked' = 0
    /\ UNCHANGED <<gens, wlock, pend, rmark, bucket, pc, phase, ck, orig, info, scan, vp,
                   provisional, checked, remote, budget, floor>>

----------------------------------------------------------------------------
Init ==
    /\ SqliteInit
    /\ l0 = NoFiles /\ bucket = NoFiles
    /\ pc = "closed" /\ phase = "none" /\ ck = NoCk /\ orig = NoSize
    /\ info = NoInfo /\ scan = NoScan
    /\ st = [last |-> NoSize, toEnd |-> FALSE, stale |-> FALSE]
    /\ vp = 0 /\ provisional = FALSE /\ checked = FALSE /\ remote = NoTxid
    /\ vpFile = NoTxid
    /\ budget \in Budgets
    /\ backup = NoBackup
    /\ floor = 0 /\ acked = 0

\* The steps a running push goes on with.
PushStep ==
    \/ Verify \/ Scan \/ Encode
    \/ Decide \/ Release \/ Pragma \/ Reacquire \/ WriteSeq \/ Lock
    \/ EnsureLineageChecked \/ UploadDerive \/ UploadPut \/ UploadFails \/ PushDone

WriterStep ==
    \/ PushStart \/ PushStep \/ Cancel \/ LineageFails \/ RebaselineFails \/ UploadListFails
    \/ Open \/ Close \/ ResetLocal \/ ResetFails

EnvStep ==
    \/ AppCommit \/ AppSpill \/ AppCommitSpilled \/ AppRollback \/ AppCheckpoint
    \/ Legacy \/ ForeignPush \/ Wipe \/ TakeBackup \/ RestoreBackup

Next == WriterStep \/ EnvStep

Spec == Init /\ [][Next]_vars

\* The host opens the writer and pushes again and again, and a push that runs
\* goes on to its end.
FairSpec == Spec /\ WF_vars(Open) /\ WF_vars(PushStart) /\ WF_vars(PushStep)

----------------------------------------------------------------------------
(* Properties. *)

\* Type correctness of the writer's memory, of its meta directory and of the
\* bucket.
TypeOK ==
    /\ SqliteTypeOK
    /\ DOMAIN l0 \subseteq Nat \ {0} /\ \A t \in DOMAIN l0 : IsFile(l0[t])
    /\ DOMAIN bucket \subseteq Nat \ {0} /\ \A t \in DOMAIN bucket : IsFile(bucket[t])
    /\ pc \in {"closed", "idle", "verify", "scan", "encode", "decide", "release", "pragma",
               "reacquire", "writeseq", "lock", "lineage", "upload"}
    /\ phase \in {"none", "push", "pre", "post"}
    /\ ck.mode \in {"none", "passive", "truncate"} /\ ck.hdr \in Int
    /\ orig \in Int
    /\ info \in [off : Nat, salt : Int, snap : BOOLEAN, clear : BOOLEAN]
    /\ scan.off \in Nat /\ scan.end \in Nat /\ scan.off <= scan.end
    /\ st \in [last : Int, toEnd : BOOLEAN, stale : BOOLEAN]
    /\ vp \in Nat /\ vpFile \in Nat \cup {NoTxid} /\ remote \in Nat \cup {NoTxid}
    /\ provisional \in BOOLEAN /\ checked \in BOOLEAN
    /\ budget \in [Kinds -> Nat]
    /\ floor \in Nat /\ acked \in Nat

\* Position in the commit order of the database that TXID t restores to.
RestoresTo(t, i) == RestoreImage(t) = history[i]

\* No other writer has put a file into the bucket.
OwnBucket == \A t \in DOMAIN bucket : bucket[t].pages # ForeignImage(t)

\* Whatever TXID a reader restores from a bucket nobody else writes, it gets a
\* state the database really was in, whole transactions only; and a later TXID
\* never gives an older state.  (Not in the windows that Races admits, nor when
\* the answer to an upload is lost before a checkpoint: see README.md.)
RestoreOrdered ==
    OwnBucket => \A u \in DOMAIN bucket :
        \E j \in 1..Len(history) :
            /\ RestoresTo(u, j)
            /\ \A t \in DOMAIN bucket : t < u => \E i \in 1..j : RestoresTo(t, i)

\* The same when other writers share the bucket: every TXID restores to a
\* state of this database or to one of theirs, never to a mixture.
NoMixture ==
    \A t \in DOMAIN bucket :
        \/ \E i \in 1..Len(history) : RestoresTo(t, i)
        \/ \E u \in DOMAIN bucket : RestoreImage(t) = ForeignImage(u)

\* What was committed before a push that succeeded is in the bucket from then
\* on, across crashes, cancellations and checkpoints in one run, across failed
\* uploads, lost answers and sessions in another, unless another writer takes
\* the bucket.
AckedDurable ==
    acked > 0 /\ OwnBucket => \E i \in acked..Len(history) : RestoresTo(MaxTxid(bucket), i)

\* The L0 files of the bucket are contiguous from TXID 1: no upload, retry or
\* rebaseline ever skips a TXID.
BucketContiguous == \A t \in 1..MaxTxid(bucket) : t \in DOMAIN bucket

\* The writer only ever adds the next TXID to the bucket: it never replaces a
\* file, its own or another writer's.
BucketAppendOnly ==
    [][WriterStep =>
          \/ bucket' = bucket
          \/ \E f \in {l0[t] : t \in DOMAIN l0} : bucket' = Put(bucket, MaxTxid(bucket) + 1, f)
             /\ MaxTxid(bucket) + 1 \notin DOMAIN bucket]_vars

\* checkpoint(): when the WAL restarts or is truncated by the writer's own
\* checkpoint, every frame committed to it is in a local L0 file.
CheckpointCaptures ==
    [][(WriteSeq \/ Pragma) /\ whdr' # whdr /\ mx > 0 =>
          Last.salt = whdr /\ Resume >= mx]_vars

\* Once the application rests and failures cease, the bucket restores to the
\* current database, whatever was lost, cancelled or rebaselined before.
EventuallyReplicated ==
    <>[](DOMAIN bucket # {} /\ RestoreImage(MaxTxid(bucket)) = Current)

=============================================================================
