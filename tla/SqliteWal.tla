----------------------------- MODULE SqliteWal -----------------------------
(***************************************************************************)
(* A SQLite database in WAL mode, as liters sees it through the file       *)
(* system and through its own connections, and the WAL reader of           *)
(* crates/liters-wal/src/reader.rs.                                        *)
(*                                                                         *)
(* SQLite itself is external: its steps are modelled from how liters uses  *)
(* it (sqlite.rs, checkpoint.rs).  What is kept is what decides whether a  *)
(* committed frame can still be read from the WAL file: generations        *)
(* (salts), the overwriting of an old generation from the top of the file, *)
(* backfilling, truncation, the write lock, and the effect of a read lock  *)
(* on checkpointers.                                                       *)
(*                                                                         *)
(* Abstractions.  A salt pair is the number of its generation.  A page     *)
(* image is the number of the transaction that wrote it, so two images are *)
(* equal exactly when their bytes are.  The database has a fixed set of    *)
(* pages.  WAL offsets count frames: offset k is the byte offset           *)
(* WAL_HEADER_SIZE + k frames.  The cumulative checksum of a frame holds   *)
(* exactly when the frame follows, in the file, frames of its own          *)
(* generation; a transaction spills at most one frame before it commits.   *)
(***************************************************************************)
EXTENDS Integers, Sequences, FiniteSets

CONSTANTS
    Pages,     \* page numbers of the database
    SeqPage    \* the page that holds _litestream_seq

ASSUME PagesAssumption == SeqPage \in Pages

VARIABLES
    db,        \* the database file: page -> image
    wal,       \* the frames of the WAL file, every generation still in it
    whdr,      \* generation in the WAL header, NoHdr when the file is empty
    mx,        \* committed frames of the current generation (mxFrame)
    bf,        \* frames of them already copied to the file (nBackfill)
    gens,      \* generations ever started
    wlock,     \* holder of the write lock: "none", "app" or "writer"
    pend,      \* frames written by the application's open transaction
    rmark,     \* read mark of the writer's read transaction, or Unlocked
    history    \* every committed database state, oldest first (ghost)

sqliteVars == <<db, wal, whdr, mx, bf, gens, wlock, pend, rmark, history>>

NoHdr    == 0
Unlocked == -1

\* The committed contents of the database.
Current == history[Len(history)]

Greatest(S) == CHOOSE i \in S : \A j \in S : j <= i

----------------------------------------------------------------------------
(* Reading the WAL file: WalReader. *)

\* The frames the reader accepts from off on: it stops at the end of the file
\* or at the first frame of another generation.
ReadFrames(off, salt) ==
    {i \in (off + 1)..Len(wal) : \A j \in (off + 1)..i : wal[j].salt = salt}

\* WalReader::with_offset succeeds: the file has a header, and the frame
\* before off is there with the expected salts.
ResumeFrameThere(off, salt) ==
    off <= Len(wal) /\ wal[off].salt = salt

\* Mutant: uncommitted frames count.
PageMapUncommitted(off, salt) ==
    LET last == Greatest({off} \cup ReadFrames(off, salt))
    IN [end   |-> last,
        pages |-> [p \in {wal[i].pg : i \in (off + 1)..last} |->
                     Greatest({i \in (off + 1)..last : wal[i].pg = p})]]

\* WalReader::page_map: the newest committed frame of each page, and the end
\* of the last committed transaction (off itself when there is none).
PageMap(off, salt) ==
    LET last == Greatest({off} \cup {i \in ReadFrames(off, salt) : wal[i].commit})
    IN [end   |-> last,
        pages |-> [p \in {wal[i].pg : i \in (off + 1)..last} |->
                     Greatest({i \in (off + 1)..last : wal[i].pg = p})]]

\* WalReader::frame_salts_until: generations seen from the top of the file to
\* the first frame of generation salt, that one included.
FrameSaltsUntil(salt) ==
    {wal[i].salt : i \in {k \in 1..Len(wal) : \A j \in 1..(k - 1) : wal[j].salt # salt}}

----------------------------------------------------------------------------
(* SQLite. *)

\* A writer restarts the WAL at its top when all of it is in the database
\* file and no reader uses it.  A read transaction that began when nothing
\* was left to read from the WAL (mark 0) does not count as a user.
CanRestart == mx > 0 /\ bf = mx /\ rmark < 1

\* Frames a checkpointer may copy: not beyond the mark of a reader, and none
\* at all while a reader at mark 0 reads the database file directly.
BackfillLimit ==
    IF rmark = Unlocked THEN mx ELSE IF rmark = 0 THEN bf ELSE rmark

\* The database file once the first b frames are copied to it.
Backfilled(b) ==
    [p \in Pages |->
        LET I == {i \in 1..b : wal[i].pg = p}
        IN IF I = {} THEN db[p] ELSE wal[Greatest(I)].val]

\* The mark a read transaction takes when it begins.
NewMark == IF bf = mx THEN 0 ELSE mx

\* Puts a frame of page p at the end of the open transaction; the first frame
\* of a transaction may restart the WAL (another reader may prevent it).
WriteFrame(p, commit, restart) ==
    LET base == IF restart THEN 0 ELSE mx
        g    == IF restart \/ whdr = NoHdr THEN gens + 1 ELSE whdr
        at   == base + pend + 1
        f    == [salt |-> g, pg |-> p, val |-> Len(history), commit |-> commit]
    IN /\ restart => CanRestart /\ pend = 0
       /\ wal' = IF at <= Len(wal) THEN [wal EXCEPT ![at] = f] ELSE Append(wal, f)
       /\ whdr' = g
       /\ gens' = IF g = whdr THEN gens ELSE gens + 1
       /\ bf' = IF restart THEN 0 ELSE bf
       /\ mx' = IF commit THEN at ELSE base

\* A transaction that writes one page, from start to commit: an UPDATE of
\* _litestream_seq, or one of the application's.
CommitPage(p, restart) ==
    /\ wlock = "none" /\ pend = 0
    /\ WriteFrame(p, TRUE, restart)
    /\ history' = Append(history, [Current EXCEPT ![p] = Len(history)])
    /\ UNCHANGED <<wlock, pend>>

\* A transaction of the application writes its first frame before it commits.
Spill(p, restart) ==
    /\ wlock = "none" /\ pend = 0
    /\ WriteFrame(p, FALSE, restart)
    /\ wlock' = "app" /\ pend' = 1
    /\ UNCHANGED history

\* It commits with a second page.
CommitSpilled(p) ==
    /\ wlock = "app" /\ pend = 1
    /\ wal[mx + 1].pg # p
    /\ WriteFrame(p, TRUE, FALSE)
    /\ history' = Append(history, [Current EXCEPT ![wal[mx + 1].pg] = Len(history),
                                                  ![p] = Len(history)])
    /\ wlock' = "none" /\ pend' = 0

\* It rolls back, leaving its frame in the file.
Rollback ==
    /\ wlock = "app"
    /\ wlock' = "none" /\ pend' = 0
    /\ UNCHANGED <<db, wal, whdr, mx, bf, gens, history>>

\* PRAGMA wal_checkpoint(PASSIVE): copies committed frames, as many as the
\* readers (ours and the application's) allow.
CheckpointPassive ==
    /\ \E b \in {bf} \cup {i \in (bf + 1)..BackfillLimit : wal[i].commit} :
          /\ bf' = b
          /\ db' = Backfilled(b)
    /\ UNCHANGED <<wal, whdr, mx, gens, wlock, pend, history>>

\* PRAGMA wal_checkpoint(TRUNCATE) when nobody is in its way: copies
\* everything and empties the file; the next write starts a generation.
CheckpointTruncate ==
    /\ wlock = "none"
    /\ wal # <<>>
    /\ rmark < 1 /\ BackfillLimit = mx
    /\ db' = Backfilled(mx)
    /\ wal' = <<>> /\ whdr' = NoHdr
    /\ mx' = 0 /\ bf' = 0
    /\ UNCHANGED <<gens, wlock, pend, history>>

SqliteInit ==
    /\ db = [p \in Pages |-> 0]
    /\ wal = <<>> /\ whdr = NoHdr
    /\ mx = 0 /\ bf = 0 /\ gens = 0
    /\ wlock = "none" /\ pend = 0
    /\ rmark = Unlocked
    /\ history = <<[p \in Pages |-> 0]>>

Frame == [salt : Int, pg : Pages, val : Int, commit : BOOLEAN]
Image == [Pages -> Int]

SqliteTypeOK ==
    /\ db \in Image
    /\ wal \in Seq(Frame)
    /\ gens \in Nat /\ whdr \in Int
    /\ mx \in Nat /\ mx <= Len(wal)
    /\ bf \in Nat /\ bf <= mx
    /\ wlock \in {"none", "app", "writer"}
    /\ pend \in {0, 1}
    /\ rmark \in Nat \cup {Unlocked}
    /\ history \in Seq(Image)
    /\ history # <<>>
============================================================================
