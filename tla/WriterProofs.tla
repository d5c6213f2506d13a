---------------------------- MODULE WriterProofs ----------------------------
(***************************************************************************)
(* Proofs about SqliteWal and Writer, for every value of their constants:  *)
(* what the operators on the WAL return, that SQLite's steps preserve the  *)
(* shape of its state, and what a writer that syncs, checkpoints, crashes  *)
(* and restarts does to the log and to the bucket.                         *)
(***************************************************************************)
EXTENDS Writer, TLAPS, WellFoundedInduction

----------------------------------------------------------------------------
(* Naturals *)

\* Every non-empty set of naturals has a least element.
LEMMA LeastNatural ==
    ASSUME NEW T, T \subseteq Nat, T # {}
    PROVE  \E x \in T : \A y \in T : x <= y
<1> DEFINE R == OpToRel(<, Nat)
<1>1. IsWellFoundedOn(R, Nat)
    BY Zenon, NatLessThanWellFounded
<1> HIDE DEF R
<1>2. PICK x \in T : \A y \in T : ~(<<y, x>> \in R)
    BY Zenon, <1>1, WFMin
<1>3. ASSUME NEW y \in T, ~(x <= y) PROVE FALSE
    <2>1. y < x /\ y \in Nat /\ x \in Nat
        BY <1>3
    <2>2. <<y, x>> \in R
        BY <2>1 DEF R, OpToRel
    <2>3. QED BY <2>2, <1>2
<1>4. QED BY <1>2, <1>3

\* Every non-empty bounded set of naturals has a greatest element.
LEMMA GreatestNatural ==
    ASSUME NEW S, S \subseteq Nat, S # {}, NEW n \in Nat, \A x \in S : x <= n
    PROVE  \E x \in S : \A j \in S : j <= x
<1> DEFINE T == {m \in Nat : \E x \in S : m = n - x}
<1>1. T # {} /\ T \subseteq Nat
    <2>1. PICK x \in S : TRUE
        BY Zenon
    <2>2. n - x \in T
        BY <2>1
    <2>3. QED BY Zenon, <2>2
<1>2. PICK m \in T : \A k \in T : m <= k
    BY Zenon, <1>1, LeastNatural
<1>3. PICK x \in S : m = n - x
    OBVIOUS
<1>4. \A j \in S : j <= x
    <2>1. TAKE j \in S
    <2>2. n - j \in T
        OBVIOUS
    <2>3. m <= n - j
        BY <1>2, <2>2
    <2>4. QED BY <2>3, <1>3
<1>5. QED BY Zenon, <1>3, <1>4

\* Greatest is what its name says on every non-empty bounded set of naturals.
LEMMA GreatestIs ==
    ASSUME NEW S, S \subseteq Nat, S # {}, NEW n \in Nat, \A x \in S : x <= n
    PROVE  Greatest(S) \in S /\ \A j \in S : j <= Greatest(S)
BY Zenon, GreatestNatural DEF Greatest

----------------------------------------------------------------------------
(* The shape of SQLite's state. *)

\* All of SqliteTypeOK but the read mark, and what it takes to keep it: the
\* frames of an open transaction are in the file, and only the application
\* has one.
WalInv ==
    /\ db \in Image
    /\ wal \in Seq(Frame)
    /\ gens \in Nat /\ whdr \in Int
    /\ mx \in Nat /\ mx + pend <= Len(wal)
    /\ bf \in Nat /\ bf <= mx
    /\ wlock \in {"none", "app", "writer"}
    /\ pend \in {0, 1} /\ (pend = 1 <=> wlock = "app")
    /\ history \in Seq(Image) /\ history # <<>>

\* A read mark never lies beyond the committed frames.
MarkInv == rmark \in Nat \cup {Unlocked} /\ rmark <= mx

\* Together the two give the type invariant of SQLite's state.
LEMMA WalInvTyped == WalInv /\ MarkInv => SqliteTypeOK
BY DEF WalInv, MarkInv, SqliteTypeOK

\* The newest committed state is a database image.
LEMMA CurrentTyped == WalInv => Current \in Image
BY DEF WalInv, Current

\* What one frame written does to the WAL.
LEMMA WriteFrameInv ==
    ASSUME WalInv, NEW p \in Pages, NEW commit \in BOOLEAN, NEW restart \in BOOLEAN,
           WriteFrame(p, commit, restart)
    PROVE  /\ wal' \in Seq(Frame)
           /\ gens' \in Nat /\ whdr' \in Int
           /\ mx' \in Nat /\ bf' \in Nat /\ bf' <= mx'
           /\ mx' + (IF commit THEN 0 ELSE pend + 1) <= Len(wal')
           /\ restart \/ mx <= mx'
           /\ restart => CanRestart
<1> DEFINE base == IF restart THEN 0 ELSE mx
           g    == IF restart \/ whdr = NoHdr THEN gens + 1 ELSE whdr
           at   == base + pend + 1
           f    == [salt |-> g, pg |-> p, val |-> Len(history), commit |-> commit]
<1>1. /\ restart => CanRestart /\ pend = 0
      /\ wal' = IF at <= Len(wal) THEN [wal EXCEPT ![at] = f] ELSE Append(wal, f)
      /\ whdr' = g
      /\ gens' = IF g = whdr THEN gens ELSE gens + 1
      /\ bf' = IF restart THEN 0 ELSE bf
      /\ mx' = IF commit THEN at ELSE base
    BY DEF WriteFrame
<1>2. base \in Nat /\ at \in Nat /\ 1 <= at /\ at <= Len(wal) + 1 /\ base <= at
    BY <1>1 DEF WalInv
<1>3. g \in Int /\ f \in Frame
    BY DEF WalInv, Frame
<1>4. wal' \in Seq(Frame) /\ at <= Len(wal')
    <2> HIDE DEF at, f
    <2>1. CASE at <= Len(wal)
        BY <1>1, <1>2, <1>3, <2>1 DEF WalInv
    <2>2. CASE ~(at <= Len(wal))
        BY <1>1, <1>2, <1>3, <2>2 DEF WalInv
    <2>3. QED BY <2>1, <2>2
<1>5. QED
    BY <1>1, <1>2, <1>3, <1>4 DEF WalInv

\* A one-page transaction keeps the shape of the state; only a permitted
\* restart lets the committed frames shrink.
LEMMA CommitPageInv ==
    ASSUME WalInv, NEW p \in Pages, NEW restart \in BOOLEAN,
           CommitPage(p, restart), db' = db
    PROVE  WalInv' /\ (restart \/ mx <= mx') /\ (restart => CanRestart)
<1>1. WriteFrame(p, TRUE, restart)
    BY Zenon DEF CommitPage
<1>2. history' \in Seq(Image) /\ history' # <<>>
    BY CurrentTyped DEF CommitPage, WalInv, Image
<1>3. QED BY Zenon, <1>1, <1>2, WriteFrameInv DEF CommitPage, WalInv

\* So does the first frame of a transaction that has not committed yet.
LEMMA SpillInv ==
    ASSUME WalInv, NEW p \in Pages, NEW restart \in BOOLEAN,
           Spill(p, restart), db' = db
    PROVE  WalInv' /\ (restart \/ mx <= mx') /\ (restart => CanRestart)
<1>1. WriteFrame(p, FALSE, restart)
    BY Zenon DEF Spill
<1>2. /\ wal' \in Seq(Frame) /\ gens' \in Nat /\ whdr' \in Int
      /\ mx' \in Nat /\ bf' \in Nat /\ bf' <= mx' /\ mx' + (pend + 1) <= Len(wal')
      /\ (restart \/ mx <= mx') /\ (restart => CanRestart)
    BY Zenon, <1>1, WriteFrameInv
<1>3. pend = 0 /\ pend' = 1 /\ wlock' = "app" /\ history' = history
    BY DEF Spill
<1>4. QED BY <1>2, <1>3 DEF WalInv

\* The commit of such a transaction keeps the shape and never restarts.
LEMMA CommitSpilledInv ==
    ASSUME WalInv, NEW p \in Pages, CommitSpilled(p), db' = db
    PROVE  WalInv' /\ mx <= mx'
<1>1. WriteFrame(p, TRUE, FALSE)
    BY Zenon DEF CommitSpilled
<1>2. /\ wal' \in Seq(Frame) /\ gens' \in Nat /\ whdr' \in Int
      /\ mx' \in Nat /\ bf' \in Nat /\ bf' <= mx' /\ mx' + 0 <= Len(wal') /\ mx <= mx'
    BY Zenon, <1>1, WriteFrameInv
<1> DEFINE first == [Current EXCEPT ![wal[mx + 1].pg] = Len(history)]
           both  == [first EXCEPT ![p] = Len(history)]
<1>3. Len(history) \in Int /\ Current \in [Pages -> Int]
    BY CurrentTyped DEF WalInv, Image
<1>4. first \in [Pages -> Int]
    BY Zenon, <1>3
<1>5. both \in Image
    BY <1>3, <1>4 DEF Image
<1>6. history' = Append(history, both) /\ wlock' = "none" /\ pend' = 0
    BY DEF CommitSpilled
<1>7. history' \in Seq(Image) /\ history' # <<>>
    BY <1>5, <1>6 DEF WalInv
<1>8. QED BY <1>2, <1>6, <1>7 DEF WalInv

\* Copying committed frames to the database file leaves an image there.
LEMMA BackfilledTyped ==
    ASSUME WalInv, NEW b \in Nat, b <= mx
    PROVE  Backfilled(b) \in Image
<1> SUFFICES ASSUME NEW p \in Pages
             PROVE  (LET I == {i \in 1..b : wal[i].pg = p}
                     IN IF I = {} THEN db[p] ELSE wal[Greatest(I)].val) \in Int
    BY DEF Backfilled, Image
<1> DEFINE I == {i \in 1..b : wal[i].pg = p}
<1>1. CASE I = {}
    BY <1>1 DEF WalInv, Image
<1>2. CASE I # {}
    <2>1. Greatest(I) \in I
        BY <1>2, GreatestIs
    <2>2. Greatest(I) \in 1..Len(wal)
        BY <2>1 DEF WalInv
    <2>3. wal[Greatest(I)] \in Frame
        BY <2>2 DEF WalInv
    <2>4. wal[Greatest(I)].val \in Int
        BY <2>3 DEF Frame
    <2>5. QED BY <1>2, <2>4
<1>3. QED BY <1>1, <1>2

\* A passive checkpoint moves no committed frame.
LEMMA CheckpointPassiveInv ==
    ASSUME WalInv, MarkInv, CheckpointPassive
    PROVE  WalInv' /\ mx' = mx
<1>1. PICK b \in {bf} \cup {i \in (bf + 1)..BackfillLimit : wal[i].commit} :
          bf' = b /\ db' = Backfilled(b)
    BY DEF CheckpointPassive
<1>2. b \in Nat /\ b <= mx
    BY <1>1 DEF WalInv, MarkInv, BackfillLimit, Unlocked
<1>3. QED BY <1>1, <1>2, BackfilledTyped DEF CheckpointPassive, WalInv

\* A truncating one empties the WAL only under nobody's read mark.
LEMMA CheckpointTruncateInv ==
    ASSUME WalInv, MarkInv, CheckpointTruncate
    PROVE  WalInv' /\ rmark <= mx'
<1>1. db' \in Image
    BY BackfilledTyped DEF CheckpointTruncate, WalInv
<1>2. QED BY <1>1 DEF CheckpointTruncate, WalInv, MarkInv, NoHdr, Unlocked

\* A rollback keeps the shape of the state.
LEMMA RollbackInv ==
    ASSUME WalInv, Rollback
    PROVE  WalInv' /\ mx' = mx
BY DEF Rollback, WalInv

\* What the WAL reader returns: an end at or after its start, and pages of the
\* database at positions that exist in a WAL.
LEMMA PageMapTyped ==
    ASSUME WalInv, NEW off \in Nat, NEW salt \in Int
    PROVE  LET m == PageMap(off, salt)
           IN /\ m.end \in Nat /\ off <= m.end
              /\ DOMAIN m.pages \subseteq Pages
              /\ \A p \in DOMAIN m.pages : m.pages[p] \in Nat \ {0}
<1> DEFINE S == {off} \cup {i \in ReadFrames(off, salt) : wal[i].commit}
           last == Greatest(S)
<1>1. S \subseteq Nat /\ off \in S /\ \A x \in S : x = off \/ x \in (off + 1)..Len(wal)
    BY DEF ReadFrames, WalInv
<1>2. PICK n \in Nat : \A x \in S : x <= n
    <2>1. off + Len(wal) \in Nat /\ \A x \in S : x <= off + Len(wal)
        BY <1>1 DEF WalInv
    <2>2. QED BY Zenon, <2>1
<1> HIDE DEF S
<1>3. last \in S /\ off <= last
    BY Zenon, <1>1, <1>2, GreatestIs
<1> HIDE DEF last
<1>4. last \in Nat /\ \A i \in (off + 1)..last : i \in 1..Len(wal)
    <2>1. last \in Nat /\ (last = off \/ last \in (off + 1)..Len(wal)) /\ Len(wal) \in Nat
        BY <1>1, <1>3 DEF WalInv
    <2>2. QED BY <2>1
<1>5. ASSUME NEW p \in {wal[i].pg : i \in (off + 1)..last}
      PROVE  /\ p \in Pages
             /\ Greatest({i \in (off + 1)..last : wal[i].pg = p}) \in Nat \ {0}
    <2> DEFINE I == {i \in (off + 1)..last : wal[i].pg = p}
    <2>1. PICK i \in (off + 1)..last : p = wal[i].pg
        OBVIOUS
    <2>2. p \in Pages
        <3>1. wal[i] \in Frame
            BY <2>1, <1>4 DEF WalInv
        <3>2. QED BY <2>1, <3>1 DEF Frame
    <2>3. I # {} /\ I \subseteq Nat /\ \A x \in I : x <= last
        BY <2>1, <1>4
    <2>4. Greatest(I) \in I
        BY <2>3, <1>4, GreatestIs
    <2>5. QED BY <2>2, <2>4, <1>4
<1>6. PageMap(off, salt) =
        [end   |-> last,
         pages |-> [p \in {wal[i].pg : i \in (off + 1)..last} |->
                      Greatest({i \in (off + 1)..last : wal[i].pg = p})]]
    BY DEF PageMap, last, S
<1> DEFINE m == PageMap(off, salt)
<1>7. /\ m.end = last
      /\ DOMAIN m.pages = {wal[i].pg : i \in (off + 1)..last}
      /\ \A p \in DOMAIN m.pages :
            m.pages[p] = Greatest({i \in (off + 1)..last : wal[i].pg = p})
    BY <1>6
<1> HIDE DEF m
<1>8. /\ m.end \in Nat /\ off <= m.end
      /\ DOMAIN m.pages \subseteq Pages
      /\ \A p \in DOMAIN m.pages : m.pages[p] \in Nat \ {0}
    BY Zenon, <1>3, <1>4, <1>5, <1>7
<1>9. QED BY <1>8 DEF m

----------------------------------------------------------------------------
(* The bucket: contiguous, and only ever appended to by the writer. *)

\* Files numbered without a hole from 1: the highest number is their count.
LEMMA MaxTxidOfInterval ==
    ASSUME NEW b, NEW n \in Nat, DOMAIN b = 1..n
    PROVE  MaxTxid(b) = n
<1>1. CASE n = 0
    BY <1>1 DEF MaxTxid
<1>2. CASE n > 0
    <2>1. 1..n # {} /\ n \in 1..n /\ \A j \in 1..n : j <= n
        BY <1>2
    <2>2. Greatest(1..n) \in 1..n /\ \A j \in 1..n : j <= Greatest(1..n)
        BY Zenon, <2>1 DEF Greatest
    <2>3. Greatest(1..n) = n
        BY <2>1, <2>2
    <2>4. QED BY <2>1, <2>3 DEF MaxTxid
<1>3. QED BY <1>1, <1>2

\* Putting the next number keeps it so.
LEMMA PutNext ==
    ASSUME NEW b, NEW n \in Nat, DOMAIN b = 1..n, NEW f
    PROVE  DOMAIN Put(b, n + 1, f) = 1..(n + 1)
BY DEF Put

\* The inductive invariant.  The bucket's TXIDs have no hole; and while the
\* writer is open and believes to know the bucket's newest TXID, it does.  The
\* second is what makes every PUT an append, and holds because remote_txid is
\* dropped on every failure and on open.
BucketInv ==
    /\ \E n \in Nat : DOMAIN bucket = 1..n
    /\ pc # "closed" /\ remote # NoTxid => remote = MaxTxid(bucket)

\* The writer's PUT of remote_txid + 1 appends to the bucket.
LEMMA PutAppends ==
    ASSUME BucketInv, pc = "upload", remote # NoTxid,
           bucket' = Put(bucket, remote + 1, l0[remote + 1])
    PROVE  /\ \E n \in Nat : DOMAIN bucket' = 1..n
           /\ MaxTxid(bucket)' = remote + 1
           /\ MaxTxid(bucket) = remote
           /\ remote + 1 \notin DOMAIN bucket
<1>1. PICK n \in Nat : DOMAIN bucket = 1..n
    BY DEF BucketInv
<1>2. remote = n /\ MaxTxid(bucket) = n
    BY <1>1, MaxTxidOfInterval DEF BucketInv
<1>3. DOMAIN bucket' = 1..(n + 1) /\ n + 1 \in Nat
    BY <1>1, <1>2, PutNext
<1>4. MaxTxid(bucket)' = n + 1
    BY <1>3, MaxTxidOfInterval DEF MaxTxid
<1>5. QED BY <1>1, <1>2, <1>3, <1>4

\* An empty bucket has no hole.
LEMMA BucketInvInit == Init => BucketInv
<1> SUFFICES ASSUME Init PROVE BucketInv
    OBVIOUS
<1>1. DOMAIN bucket = 1..0
    BY SMTT(20), SMTT(30) DEF Init, NoFiles
<1>2. QED BY <1>1 DEF Init, BucketInv

\* No step makes a hole in the bucket, and remote_txid, while known, stays
\* the highest TXID of the bucket.
LEMMA BucketInvNext == BucketInv /\ [Next]_vars => BucketInv'
<1> SUFFICES ASSUME BucketInv, [Next]_vars PROVE BucketInv'
    OBVIOUS
<1> USE DEF BucketInv, MaxTxid
<1>1. CASE UNCHANGED vars
    BY <1>1 DEF vars, pushVars, lineVars
<1>2. ASSUME bucket' = bucket, remote' = remote, pc # "closed" \/ pc' = "closed"
      PROVE  BucketInv'
    BY <1>2
<1>3. ASSUME bucket' = bucket, remote' = NoTxid PROVE BucketInv'
    BY <1>3
<1>4. ASSUME bucket' = bucket, remote' = MaxTxid(bucket) PROVE BucketInv'
    BY <1>4
<1>5. CASE PushStart
    BY <1>5, <1>2 DEF PushStart, lineVars
<1>6. CASE Verify
    BY <1>6, <1>2 DEF Verify, SyncFails, lineVars
<1>7. CASE Scan
    BY <1>7, <1>2 DEF Scan, SyncFails, lineVars
<1>8. CASE Encode
    BY <1>8, <1>2 DEF Encode, SyncFails, lineVars
<1>9. CASE Cancel
    BY SMTT(20), SMTT(30), <1>9, <1>2, <1>3 DEF Cancel
<1>10. CASE Decide \/ Release \/ Pragma \/ Reacquire \/ WriteSeq \/ Lock
    BY <1>10, <1>2 DEF Decide, Release, Pragma, Reacquire, WriteSeq, Lock, lineVars
<1>11. CASE EnsureLineageChecked
    BY <1>11, <1>2, <1>4 DEF EnsureLineageChecked, lineVars
<1>12. CASE LineageFails \/ RebaselineFails \/ ResetFails
    BY Zenon, <1>12, <1>2 DEF LineageFails, RebaselineFails, ResetFails, lineVars
<1>13. CASE UploadDerive
    BY <1>13, <1>2, <1>4 DEF UploadDerive
<1>14. CASE UploadListFails
    BY <1>14, <1>2 DEF UploadListFails, lineVars
<1>15. CASE UploadPut
    BY Zenon, <1>15, PutAppends DEF UploadPut
<1>16. CASE UploadFails
    BY Zenon, <1>16, <1>3, PutAppends DEF UploadFails
<1>17. CASE PushDone
    BY <1>17, <1>2 DEF PushDone, lineVars
<1>18. CASE Open
    BY <1>18, <1>3 DEF Open
<1>19. CASE Close
    BY <1>19, <1>2 DEF Close, lineVars
<1>20. CASE ResetLocal
    BY <1>20, <1>3 DEF ResetLocal
<1>21. CASE AppCommit \/ AppSpill \/ AppCommitSpilled \/ AppRollback \/ AppCheckpoint
    BY Zenon, <1>21 DEF AppCommit, AppSpill, AppCommitSpilled, AppRollback, AppCheckpoint,
                 WriterUnchanged, pushVars, lineVars
<1>22. CASE Legacy
    BY <1>22 DEF Legacy, pushVars
<1>23. CASE ForeignPush
    <2>1. PICK n \in Nat : DOMAIN bucket = 1..n
        OBVIOUS
    <2>2. MaxTxid(bucket) = n
        BY <2>1, MaxTxidOfInterval
    <2>3. DOMAIN bucket' = 1..(n + 1) /\ n + 1 \in Nat
        BY <1>23, <2>1, <2>2, PutNext DEF ForeignPush
    <2>4. QED BY <1>23, <2>3 DEF ForeignPush, pushVars
<1>24. CASE Wipe
    <2>1. DOMAIN bucket' = 1..0
        BY <1>24 DEF Wipe, NoFiles
    <2>2. QED BY <1>24, <2>1 DEF Wipe, pushVars
<1>25. CASE TakeBackup \/ RestoreBackup
    BY <1>25 DEF TakeBackup, RestoreBackup, pushVars, lineVars
<1>26. QED
    BY SMTT(20), SMTT(30), <1>1, <1>5, <1>6, <1>7, <1>8, <1>9, <1>10, <1>11, <1>12, <1>13, <1>14, <1>15, <1>16,
       <1>17, <1>18, <1>19, <1>20, <1>21, <1>22, <1>23, <1>24, <1>25
       DEF Next, WriterStep, PushStep, EnvStep

\* Whatever fails, is lost, crashes or is restored from a backup, and whoever
\* else pushes between two sessions: the L0 files of the bucket have no hole.
THEOREM BucketIsContiguous == Spec => []BucketContiguous
<1>1. BucketInv => BucketContiguous
    <2> SUFFICES ASSUME BucketInv PROVE BucketContiguous
        OBVIOUS
    <2>1. PICK n \in Nat : DOMAIN bucket = 1..n
        BY DEF BucketInv
    <2>2. MaxTxid(bucket) = n
        BY <2>1, MaxTxidOfInterval
    <2>3. QED BY <2>1, <2>2 DEF BucketContiguous
<1>2. QED BY <1>1, BucketInvInit, BucketInvNext, PTL DEF Spec

\* What a step of the writer may do to the bucket.
AppendsOnly ==
    \/ bucket' = bucket
    \/ \E f \in {l0[t] : t \in DOMAIN l0} : bucket' = Put(bucket, MaxTxid(bucket) + 1, f)
       /\ MaxTxid(bucket) + 1 \notin DOMAIN bucket

\* One step of the writer adds the next TXID to the bucket or nothing.
LEMMA WriterAppends == BucketInv /\ WriterStep => AppendsOnly
<1> SUFFICES ASSUME BucketInv, WriterStep PROVE AppendsOnly
    OBVIOUS
<1> USE DEF AppendsOnly
<1>1. ASSUME pc = "upload", remote # NoTxid, remote + 1 \in DOMAIN l0,
             bucket' = Put(bucket, remote + 1, l0[remote + 1])
      PROVE  AppendsOnly
    BY <1>1, PutAppends
<1>2. CASE PushStart \/ Verify \/ Scan \/ Encode \/ Cancel
    BY Zenon, <1>2 DEF PushStart, Verify, Scan, Encode, Cancel, SyncFails
<1>3. CASE Decide \/ Release \/ Pragma \/ Reacquire \/ WriteSeq \/ Lock
    BY Zenon, <1>3 DEF Decide, Release, Pragma, Reacquire, WriteSeq, Lock
<1>4. CASE EnsureLineageChecked \/ LineageFails \/ UploadDerive \/ UploadListFails \/ PushDone
    BY <1>4 DEF EnsureLineageChecked, LineageFails, UploadDerive, UploadListFails, PushDone
<1>5. CASE Open \/ Close \/ ResetLocal \/ ResetFails \/ RebaselineFails
    BY Zenon, <1>5 DEF Open, Close, ResetLocal, ResetFails, RebaselineFails
<1>6. CASE UploadPut
    BY <1>6, <1>1 DEF UploadPut
<1>7. CASE UploadFails
    BY <1>7, <1>1 DEF UploadFails
<1>8. QED
    BY <1>2, <1>3, <1>4, <1>5, <1>6, <1>7 DEF WriterStep, PushStep

\* No step of the writer replaces or removes a file of the bucket, its own or
\* another writer's; it adds the next TXID or nothing.
THEOREM WriterOnlyAppends == Spec => BucketAppendOnly
<1>1. BucketInv /\ [Next]_vars => [WriterStep => AppendsOnly]_vars
    BY WriterAppends
<1>2. QED
    BY <1>1, BucketInvInit, BucketInvNext, PTL DEF Spec, BucketAppendOnly, AppendsOnly

----------------------------------------------------------------------------
(* Type correctness. *)

\* The L0 files of a directory or a bucket: finitely many, well formed.
FilesOK(files) ==
    /\ \E n \in Nat : DOMAIN files \subseteq 1..n
    /\ \A t \in DOMAIN files : IsFile(files[t])

\* The highest TXID of a set of files is one of theirs, or 0 without files.
LEMMA MaxTxidTyped ==
    ASSUME NEW files, FilesOK(files)
    PROVE  /\ MaxTxid(files) \in Nat
           /\ MaxTxid(files) # 0 => MaxTxid(files) \in DOMAIN files
           /\ DOMAIN files # {} => MaxTxid(files) \in DOMAIN files
<1>1. PICK n \in Nat : DOMAIN files \subseteq 1..n
    BY DEF FilesOK
<1>2. CASE DOMAIN files = {}
    BY <1>2 DEF MaxTxid
<1>3. CASE DOMAIN files # {}
    <2>1. DOMAIN files \subseteq Nat /\ \A x \in DOMAIN files : x <= n
        BY <1>1
    <2>2. Greatest(DOMAIN files) \in DOMAIN files
        BY <1>3, <2>1, GreatestIs
    <2>3. QED BY <1>3, <2>1, <2>2 DEF MaxTxid
<1>4. QED BY Zenon, <1>2, <1>3

\* An empty directory is well typed.
LEMMA NoFilesOK == FilesOK(NoFiles)
<1>1. DOMAIN NoFiles = {} /\ {} \subseteq 1..0
    BY DEF NoFiles
<1>2. QED BY <1>1 DEF FilesOK

\* Storing a well-typed file keeps a directory well typed.
LEMMA PutOK ==
    ASSUME NEW files, FilesOK(files), NEW t \in Nat \ {0}, NEW f, IsFile(f)
    PROVE  FilesOK(Put(files, t, f))
<1>1. PICK n \in Nat : DOMAIN files \subseteq 1..n
    BY DEF FilesOK
<1>2. DOMAIN Put(files, t, f) \subseteq 1..(n + t) /\ n + t \in Nat
    BY <1>1 DEF Put
<1>3. \A x \in DOMAIN Put(files, t, f) : IsFile(Put(files, t, f)[x])
    BY DEF Put, FilesOK
<1>4. QED BY <1>2, <1>3 DEF FilesOK

\* Deleting files (prune_l0, a rebaseline) keeps a directory well typed.
LEMMA SubsetOK ==
    ASSUME NEW files, FilesOK(files), NEW T \in SUBSET DOMAIN files
    PROVE  FilesOK([t \in T |-> files[t]])
BY DEF FilesOK

\* The inductive invariant, in parts.  SQLite's state; the read lock is gone
\* when the writer is, and a post-copy runs under the write lock.
SqlPart ==
    /\ WalInv /\ MarkInv
    /\ pc = "closed" => rmark = Unlocked
    /\ pc \in {"verify", "scan", "encode"} /\ phase = "post" => wlock = "writer"

\* The LTX files, at the device and in the bucket.
FilePart == FilesOK(l0) /\ FilesOK(bucket)

\* What a scan found.
SyncPart ==
    /\ info \in [off : Nat, salt : Int, snap : BOOLEAN, clear : BOOLEAN]
    /\ scan.off \in Nat /\ scan.end \in Nat /\ scan.off <= scan.end /\ scan.salt \in Int
    /\ DOMAIN scan.pages \subseteq Pages
    /\ \A p \in DOMAIN scan.pages : scan.pages[p] \in Nat \ {0}

\* Where the writer is.
ControlPart ==
    /\ pc \in {"closed", "idle", "verify", "scan", "encode", "decide", "release", "pragma",
               "reacquire", "writeseq", "lock", "lineage", "upload"}
    /\ phase \in {"none", "push", "pre", "post"}
    /\ pc \in {"verify", "scan", "encode"} => phase # "none"
    /\ ck.mode \in {"none", "passive", "truncate"} /\ ck.hdr \in Int
    /\ orig \in Int
    /\ st \in [last : Int, toEnd : BOOLEAN, stale : BOOLEAN]
    /\ floor \in Nat /\ acked \in Nat

\* Positions and lineage.
LinePart ==
    /\ vp \in Nat /\ vpFile \in Nat \cup {NoTxid} /\ remote \in Nat \cup {NoTxid}
    /\ provisional \in BOOLEAN /\ checked \in BOOLEAN

\* What may still go wrong.
BudgetPart == budget \in [Kinds -> Nat]

\* A backup is of a state the device was in.
BackupPart ==
    backup # NoBackup =>
        /\ backup.db \in Image /\ backup.wal \in Seq(Frame) /\ backup.whdr \in Int
        /\ backup.mx \in Nat /\ backup.mx <= Len(backup.wal)
        /\ backup.bf \in Nat /\ backup.bf <= backup.mx
        /\ FilesOK(backup.l0) /\ backup.vpFile \in Nat \cup {NoTxid}
        /\ backup.last \in Int /\ backup.image \in Image

\* All of it.
TypeInv ==
    SqlPart /\ FilePart /\ SyncPart /\ ControlPart /\ LinePart /\ BudgetPart /\ BackupPart

\* The inductive invariant gives the type invariant.
LEMMA TypeInvTyped == TypeInv => TypeOK
<1> SUFFICES ASSUME TypeInv PROVE TypeOK
    OBVIOUS
<1>1. SqliteTypeOK
    BY WalInvTyped DEF TypeInv, SqlPart
<1>2. DOMAIN l0 \subseteq Nat \ {0} /\ DOMAIN bucket \subseteq Nat \ {0}
    BY DEF TypeInv, FilePart, FilesOK
<1>3. /\ \A t \in DOMAIN l0 : IsFile(l0[t])
      /\ \A t \in DOMAIN bucket : IsFile(bucket[t])
    BY DEF TypeInv, FilePart, FilesOK
<1>4. QED
    BY <1>1, <1>2, <1>3
       DEF TypeInv, TypeOK, SyncPart, ControlPart, LinePart, BudgetPart

\* The locals of a push that is over are well typed.
LEMMA NoSyncTyped == info = NoInfo /\ scan = NoScan => SyncPart
<1> SUFFICES ASSUME info = NoInfo, scan = NoScan PROVE SyncPart
    OBVIOUS
<1>1. info \in [off : Nat, salt : Int, snap : BOOLEAN, clear : BOOLEAN]
    BY DEF NoInfo
<1>2. /\ scan.off = 0 /\ scan.end = 0 /\ scan.salt = 0
      /\ DOMAIN scan.pages = {}
    BY DEF NoScan, NoFiles
<1>3. QED BY <1>1, <1>2 DEF SyncPart

\* The inductive invariant holds on a device that never pushed.
LEMMA TypeInvInit == Init => TypeInv
<1> SUFFICES ASSUME Init PROVE TypeInv
    OBVIOUS
<1>1. SqlPart
    <2>1. [p \in Pages |-> 0] \in Image
        BY DEF Image
    <2>2. WalInv /\ MarkInv
        BY <2>1 DEF Init, SqliteInit, WalInv, MarkInv, NoHdr, Unlocked
    <2>3. QED BY <2>2 DEF Init, SqliteInit, SqlPart
<1>2. FilePart
    BY NoFilesOK DEF Init, FilePart
<1>3. SyncPart
    BY NoSyncTyped DEF Init
<1>4. ControlPart
    <2>1. ck.mode = "none" /\ ck.hdr = 0 /\ orig = -1
        BY DEF Init, NoCk, NoHdr, NoSize
    <2>2. st \in [last : Int, toEnd : BOOLEAN, stale : BOOLEAN]
        BY DEF Init, NoSize
    <2>3. pc = "closed" /\ phase = "none" /\ floor = 0 /\ acked = 0
        BY DEF Init
    <2>4. QED BY <2>1, <2>2, <2>3 DEF ControlPart
<1>5. LinePart
    BY Zenon DEF Init, LinePart
<1>6. BudgetPart /\ BackupPart
    BY WriterAssumption DEF Init, BudgetPart, BackupPart
<1>7. QED BY <1>1, <1>2, <1>3, <1>4, <1>5, <1>6 DEF TypeInv

\* An event that happens takes one off its budget.
LEMMA SpendTyped ==
    ASSUME BudgetPart, NEW kind \in Kinds, Spend(kind)
    PROVE  BudgetPart'
BY DEF Spend, BudgetPart

\* Every step leaves the event budget well typed.
LEMMA BudgetNext == TypeInv /\ [Next]_vars => BudgetPart'
<1> SUFFICES ASSUME TypeInv, [Next]_vars PROVE BudgetPart'
    OBVIOUS
<1>1. BudgetPart
    BY DEF TypeInv
<1>2. (budget' = budget \/ \E kind \in Kinds : Spend(kind)) => BudgetPart'
    BY <1>1, SpendTyped DEF BudgetPart
<1> USE <1>2 DEF Kinds
<1>3. CASE UNCHANGED vars
    BY <1>3 DEF vars
<1>4. CASE PushStart \/ Verify \/ Scan \/ Encode \/ Cancel \/ Decide \/ Release \/ Pragma
    BY Zenon, <1>4 DEF PushStart, Verify, Scan, Encode, Cancel, Decide, Release, Pragma
<1>5. CASE Reacquire \/ WriteSeq \/ Lock
    BY <1>5 DEF Reacquire, WriteSeq, Lock
<1>6. CASE EnsureLineageChecked \/ UploadPut
    BY <1>6 DEF EnsureLineageChecked, UploadPut, SetVerified
<1>7. CASE LineageFails \/ UploadDerive \/ UploadListFails \/ UploadFails \/ PushDone
    BY <1>7 DEF LineageFails, UploadDerive, UploadListFails, UploadFails, PushDone
<1>8. CASE Open \/ Close \/ ResetLocal \/ ResetFails \/ RebaselineFails
    BY Zenon, <1>8 DEF Open, Close, ResetLocal, ResetFails, RebaselineFails
<1>9. CASE AppCommit \/ AppSpill \/ AppCommitSpilled \/ AppRollback \/ AppCheckpoint
    BY Zenon, <1>9 DEF AppCommit, AppSpill, AppCommitSpilled, AppRollback, AppCheckpoint
<1>10. CASE Legacy \/ ForeignPush \/ Wipe \/ TakeBackup \/ RestoreBackup
    BY <1>10 DEF Legacy, ForeignPush, Wipe, TakeBackup, RestoreBackup
<1>11. QED
    BY <1>3, <1>4, <1>5, <1>6, <1>7, <1>8, <1>9, <1>10 DEF Next, WriterStep, PushStep, EnvStep

\* Every step leaves verified_pos, its file, remote_txid and the session flags
\* well typed.
LEMMA LineNext == TypeInv /\ [Next]_vars => LinePart'
<1> SUFFICES ASSUME TypeInv, [Next]_vars PROVE LinePart'
    OBVIOUS
<1>1. LinePart /\ MaxTxid(bucket) \in Nat /\ Pos \in Nat
    BY MaxTxidTyped DEF TypeInv, FilePart, Pos
<1>2. UNCHANGED lineVars => LinePart'
    BY <1>1 DEF LinePart, lineVars
<1>3. CASE UNCHANGED vars
    BY <1>2, <1>3 DEF vars
<1>4. CASE PushStart \/ Verify \/ Scan \/ Encode \/ Decide \/ Release \/ Pragma
    BY Zenon, <1>2, <1>4 DEF PushStart, Verify, Scan, Encode, Decide, Release, Pragma, SyncFails
<1>5. CASE Reacquire \/ WriteSeq \/ Lock
    BY <1>2, <1>5 DEF Reacquire, WriteSeq, Lock
<1>6. CASE Cancel
    BY <1>1, <1>6 DEF Cancel, LinePart
<1>7. CASE EnsureLineageChecked
    BY Zenon, <1>1, <1>2, <1>7 DEF EnsureLineageChecked, SetVerified, LinePart
<1>8. CASE LineageFails \/ RebaselineFails \/ UploadListFails \/ PushDone \/ Close
    BY Zenon, <1>2, <1>8 DEF LineageFails, RebaselineFails, UploadListFails, PushDone, Close
<1>9. CASE UploadDerive
    BY Zenon, <1>1, <1>9 DEF UploadDerive, LinePart
<1>10. CASE UploadPut
    BY <1>1, <1>10 DEF UploadPut, SetVerified, LinePart
<1>11. CASE UploadFails
    BY <1>1, <1>11 DEF UploadFails, LinePart
<1>12. CASE Open
    BY Zenon, <1>1, <1>12 DEF Open, Baseline, LinePart
<1>13. CASE ResetLocal \/ ResetFails
    <2>1. vp' = 0 /\ (vpFile' = vpFile \/ vpFile' = 0) /\ (remote' = remote \/ remote' = NoTxid)
        BY Zenon, <1>13 DEF ResetLocal, ResetFails
    <2>2. /\ provisional' = provisional \/ provisional' = FALSE
          /\ checked' = checked \/ checked' = FALSE
        BY Zenon, <1>13 DEF ResetLocal, ResetFails
    <2>3. provisional' \in BOOLEAN /\ checked' \in BOOLEAN
        BY Zenon, <1>1, <2>2 DEF LinePart
    <2>4. QED BY <1>1, <2>1, <2>3 DEF LinePart
<1>14. CASE AppCommit \/ AppSpill \/ AppCommitSpilled \/ AppRollback \/ AppCheckpoint
    BY Zenon, <1>2, <1>14
       DEF AppCommit, AppSpill, AppCommitSpilled, AppRollback, AppCheckpoint, WriterUnchanged
<1>15. CASE Legacy
    BY <1>1, <1>15 DEF Legacy, LinePart
<1>16. CASE ForeignPush \/ Wipe \/ TakeBackup
    BY <1>2, <1>16 DEF ForeignPush, Wipe, TakeBackup
<1>17. CASE RestoreBackup
    BY <1>1, <1>17 DEF RestoreBackup, LinePart, TypeInv, BackupPart
<1>18. QED
    BY SMTT(20), SMTT(30), <1>3, <1>4, <1>5, <1>6, <1>7, <1>8, <1>9, <1>10, <1>11, <1>12, <1>13, <1>14, <1>15, <1>16,
       <1>17 DEF Next, WriterStep, PushStep, EnvStep

\* A device backup stays well typed until it is restored.
LEMMA BackupNext == TypeInv /\ [Next]_vars => BackupPart'
<1> SUFFICES ASSUME TypeInv, [Next]_vars PROVE BackupPart'
    OBVIOUS
<1>1. backup' = backup => BackupPart'
    BY DEF TypeInv, BackupPart
<1>2. CASE UNCHANGED vars
    BY <1>1, <1>2 DEF vars
<1>3. CASE PushStart \/ Verify \/ Scan \/ Encode \/ Cancel \/ Decide \/ Release \/ Pragma
    BY Zenon, <1>1, <1>3 DEF PushStart, Verify, Scan, Encode, Cancel, Decide, Release, Pragma, SyncFails
<1>4. CASE Reacquire \/ WriteSeq \/ Lock \/ EnsureLineageChecked \/ UploadPut
    BY Zenon, <1>1, <1>4 DEF Reacquire, WriteSeq, Lock, EnsureLineageChecked, UploadPut
<1>5. CASE LineageFails \/ UploadDerive \/ UploadListFails \/ UploadFails \/ PushDone
    BY <1>1, <1>5 DEF LineageFails, UploadDerive, UploadListFails, UploadFails, PushDone
<1>6. CASE Open \/ Close \/ ResetLocal \/ ResetFails \/ RebaselineFails \/ Legacy \/ ForeignPush
           \/ Wipe
    BY Zenon, <1>1, <1>6
       DEF Open, Close, ResetLocal, ResetFails, RebaselineFails, Legacy, ForeignPush, Wipe
<1>7. CASE AppCommit \/ AppSpill \/ AppCommitSpilled \/ AppRollback \/ AppCheckpoint
    BY Zenon, <1>1, <1>7
       DEF AppCommit, AppSpill, AppCommitSpilled, AppRollback, AppCheckpoint, WriterUnchanged
<1>8. CASE TakeBackup
    <2>1. /\ backup'.db = db /\ backup'.wal = wal /\ backup'.whdr = whdr
          /\ backup'.mx = mx /\ backup'.bf = bf /\ backup'.l0 = l0
          /\ backup'.vpFile = vpFile /\ backup'.last = st.last /\ backup'.image = Current
        BY <1>8 DEF TakeBackup
    <2>2. db \in Image /\ wal \in Seq(Frame) /\ whdr \in Int /\ Current \in Image
        BY CurrentTyped DEF TypeInv, SqlPart, WalInv
    <2>3. mx \in Nat /\ mx <= Len(wal) /\ bf \in Nat /\ bf <= mx
        BY DEF TypeInv, SqlPart, WalInv
    <2>4. FilesOK(l0) /\ vpFile \in Nat \cup {NoTxid} /\ st.last \in Int
        BY DEF TypeInv, FilePart, LinePart, ControlPart
    <2>5. QED BY <2>1, <2>2, <2>3, <2>4 DEF BackupPart
<1>9. CASE RestoreBackup
    BY <1>9 DEF RestoreBackup, BackupPart
<1>10. QED
    BY <1>2, <1>3, <1>4, <1>5, <1>6, <1>7, <1>8, <1>9 DEF Next, WriterStep, PushStep, EnvStep

\* The newest local L0, when there is one, is a well-formed file.
LEMMA FileTyped == TypeInv /\ Pos # 0 => IsFile(Last)
BY SMTT(20), SMTT(30), MaxTxidTyped DEF TypeInv, FilePart, FilesOK, Pos, Last

\* The file sync() encodes is well formed: every page it takes from the WAL is
\* at a frame that exists.
LEMMA EncodedFileTyped ==
    ASSUME TypeInv, ~(\E p \in DOMAIN scan.pages : scan.pages[p] > Len(wal))
    PROVE  IsFile(EncodedFile)
<1>1. /\ info.snap \in BOOLEAN
      /\ scan.off \in Nat /\ scan.end \in Nat /\ scan.off <= scan.end /\ scan.salt \in Int
      /\ DOMAIN scan.pages \subseteq Pages
      /\ \A p \in DOMAIN scan.pages : scan.pages[p] \in Nat \ {0}
    BY DEF TypeInv, SyncPart
<1>2. wal \in Seq(Frame) /\ db \in [Pages -> Int]
    BY DEF TypeInv, SqlPart, WalInv, Image
<1>3. \A p \in DOMAIN scan.pages : wal[scan.pages[p]].val \in Int
    <2>1. TAKE p \in DOMAIN scan.pages
    <2>2. scan.pages[p] \in 1..Len(wal)
        BY <1>1, <1>2
    <2>3. wal[scan.pages[p]] \in Frame
        BY <1>2, <2>2
    <2>4. QED BY <2>3 DEF Frame
<1> DEFINE D == IF info.snap THEN Pages ELSE DOMAIN scan.pages
           F == [p \in D |-> IF p \in DOMAIN scan.pages THEN wal[scan.pages[p]].val ELSE db[p]]
<1>4. D \subseteq Pages /\ \A p \in D : p \in DOMAIN scan.pages \/ p \in Pages
    BY SMTT(20), SMTT(30), <1>1
<1>5. DOMAIN F \subseteq Pages /\ \A p \in DOMAIN F : F[p] \in Int
    BY SMTT(20), SMTT(30), <1>1, <1>2, <1>3, <1>4
<1> HIDE DEF F
<1>6. EncodedFile = [off |-> scan.off, size |-> scan.end - scan.off, salt |-> scan.salt,
                     snap |-> info.snap, pages |-> F]
    BY DEF EncodedFile, F
<1>7. scan.end - scan.off \in Nat
    BY <1>1
<1>8. QED BY <1>1, <1>5, <1>6, <1>7 DEF IsFile

\* The file of another writer is well formed.
LEMMA ForeignFileTyped ==
    ASSUME NEW t \in Nat, NEW n \in Nat
    PROVE  IsFile(ForeignFile(t, n))
BY DEF ForeignFile, ForeignImage, IsFile

\* Every step leaves the local L0 files and the bucket well typed.
LEMMA FileNext == TypeInv /\ [Next]_vars => FilePart'
<1> SUFFICES ASSUME TypeInv, [Next]_vars PROVE FilePart'
    OBVIOUS
<1>1. FilesOK(l0) /\ FilesOK(bucket) /\ Pos \in Nat /\ MaxTxid(bucket) \in Nat
    BY MaxTxidTyped DEF TypeInv, FilePart, Pos
<1>2. l0' = l0 => FilesOK(l0')
    BY <1>1
<1>3. bucket' = bucket => FilesOK(bucket')
    BY <1>1
<1>4. remote \in Nat \cup {NoTxid}
    BY DEF TypeInv, LinePart
<1>5. \A t \in DOMAIN l0 : t \in Nat \ {0} /\ IsFile(l0[t])
    BY <1>1 DEF FilesOK
<1>6. CASE UNCHANGED vars
    BY <1>2, <1>3, <1>6 DEF vars, FilePart
<1>7. CASE PushStart \/ Verify \/ Scan \/ Cancel \/ Decide \/ Release \/ Pragma
    BY Zenon, <1>2, <1>3, <1>7
       DEF PushStart, Verify, Scan, Cancel, Decide, Release, Pragma, SyncFails, FilePart
<1>8. CASE Encode
    <2>1. CASE \E p \in DOMAIN scan.pages : scan.pages[p] > Len(wal)
        BY Zenon, <1>2, <1>3, <1>8, <2>1 DEF Encode, SyncFails, FilePart
    <2>2. CASE ~(\E p \in DOMAIN scan.pages : scan.pages[p] > Len(wal))
        <3>1. l0' = Put(l0, Pos + 1, EncodedFile) /\ bucket' = bucket
            BY <1>8, <2>2 DEF Encode
        <3>2. Pos + 1 \in Nat \ {0}
            BY <1>1
        <3>3. IsFile(EncodedFile)
            BY <2>2, EncodedFileTyped
        <3>4. FilesOK(l0')
            BY SMTT(20), SMTT(30), <1>1, <3>1, <3>2, <3>3, PutOK
        <3>5. QED BY SMTT(20), <1>3, <3>1, <3>4 DEF FilePart
    <2>3. QED BY <2>1, <2>2
<1>9. CASE Reacquire \/ WriteSeq \/ Lock \/ UploadDerive \/ UploadListFails
    BY <1>2, <1>3, <1>9 DEF Reacquire, WriteSeq, Lock, UploadDerive, UploadListFails, FilePart
<1>10. CASE EnsureLineageChecked
    <2>1. bucket' = bucket
        BY <1>10 DEF EnsureLineageChecked
    <2>2. l0' = l0 \/ AdoptBucket
        BY <1>10 DEF EnsureLineageChecked, Rebaseline
    <2>3. AdoptBucket => FilesOK(l0')
        BY <1>1, SubsetOK DEF AdoptBucket
    <2>4. QED BY <1>2, <1>3, <2>1, <2>2, <2>3 DEF FilePart
<1>11. CASE LineageFails
    BY <1>2, <1>3, <1>11, NoFilesOK DEF LineageFails, FilePart
<1>12. CASE UploadPut \/ UploadFails
    <2>1. l0' = l0 /\ (bucket' = bucket \/ (remote + 1 \in DOMAIN l0
                                            /\ bucket' = Put(bucket, remote + 1, l0[remote + 1])))
        BY <1>12 DEF UploadPut, UploadFails
    <2>2. QED BY SMTT(20), <1>1, <1>2, <1>3, <1>5, <2>1, PutOK DEF FilePart
<1>13. CASE PushDone
    <2>1. bucket' = bucket /\ FilesOK(l0')
        BY <1>1, <1>13, SubsetOK DEF PushDone, PruneL0
    <2>2. QED BY <1>3, <2>1 DEF FilePart
<1>14. CASE Open \/ Close \/ Legacy \/ TakeBackup
    BY Zenon, <1>2, <1>3, <1>14 DEF Open, Close, Legacy, TakeBackup, FilePart
<1>15. CASE ResetLocal \/ ResetFails \/ RebaselineFails
    <2>1. \A cached : HalfCleared(cached) => FilesOK(l0')
        BY <1>1, SubsetOK DEF HalfCleared
    <2>2. bucket' = bucket /\ FilesOK(l0')
        BY Zenon, <1>2, <1>15, <2>1, NoFilesOK DEF ResetLocal, ResetFails, RebaselineFails
    <2>3. QED BY <1>3, <2>2 DEF FilePart
<1>16. CASE AppCommit \/ AppSpill \/ AppCommitSpilled \/ AppRollback \/ AppCheckpoint
    BY Zenon, <1>2, <1>3, <1>16
       DEF AppCommit, AppSpill, AppCommitSpilled, AppRollback, AppCheckpoint, WriterUnchanged, FilePart
<1>17. CASE ForeignPush
    <2>1. PICK n \in 1..3 :
              bucket' = Put(bucket, MaxTxid(bucket) + 1, ForeignFile(MaxTxid(bucket) + 1, n))
        BY <1>17 DEF ForeignPush
    <2>2. MaxTxid(bucket) + 1 \in Nat \ {0} /\ IsFile(ForeignFile(MaxTxid(bucket) + 1, n))
        BY <1>1, ForeignFileTyped
    <2>3. FilesOK(bucket') /\ l0' = l0
        BY <1>1, <1>17, <2>1, <2>2, PutOK DEF ForeignPush
    <2>4. QED BY <1>2, <2>3 DEF FilePart
<1>18. CASE Wipe
    BY <1>2, <1>18, NoFilesOK DEF Wipe, FilePart
<1>19. CASE RestoreBackup
    BY <1>3, <1>19 DEF RestoreBackup, FilePart, TypeInv, BackupPart
<1>20. QED
    BY SMTT(20), SMTT(30), <1>6, <1>7, <1>8, <1>9, <1>10, <1>11, <1>12, <1>13, <1>14, <1>15, <1>16, <1>17, <1>18,
       <1>19 DEF Next, WriterStep, PushStep, EnvStep

\* verify() returns a well-typed SyncInfo in each of its branches.
LEMMA VerifyInfoTyped ==
    TypeInv => VerifyInfo \in [off : Nat, salt : Int, snap : BOOLEAN, clear : BOOLEAN]
<1> SUFFICES ASSUME TypeInv
             PROVE  VerifyInfo \in [off : Nat, salt : Int, snap : BOOLEAN, clear : BOOLEAN]
    OBVIOUS
<1>1. Pos # 0 => Resume \in Nat /\ Last.salt \in Int
    BY FileTyped DEF IsFile, Resume
<1>2. whdr \in Int
    BY DEF TypeInv, SqlPart, WalInv
<1>3. DetectFullCheckpoint \in BOOLEAN
    BY DEF DetectFullCheckpoint
<1> HIDE DEF Pos, Resume, Last
<1> DEFINE Info == [off : Nat, salt : Int, snap : BOOLEAN, clear : BOOLEAN]
<1>4. \A b \in BOOLEAN : Pos # 0 => [off |-> Resume, salt |-> Last.salt, snap |-> b, clear |-> FALSE] \in Info
    BY <1>1
<1>5. \A b, c \in BOOLEAN : [off |-> 0, salt |-> whdr, snap |-> b, clear |-> c] \in Info
    BY <1>2
<1>6. [off |-> 0, salt |-> 0, snap |-> TRUE, clear |-> FALSE] \in Info
    OBVIOUS
<1>7. (whdr # Last.salt) \in BOOLEAN /\ TRUE \in BOOLEAN /\ FALSE \in BOOLEAN
    OBVIOUS
<1> HIDE DEF Info
<1>8. VerifyInfo \in Info
    BY Zenon, <1>3, <1>4, <1>5, <1>6, <1>7 DEF VerifyInfo
<1>9. QED BY <1>8 DEF Info

\* sync() opens the WAL at an offset, with salts.
LEMMA ReaderTyped == TypeInv => Reader.off \in Nat /\ Reader.salt \in Int
BY DEF TypeInv, SqlPart, WalInv, SyncPart, Reader

\* Every step leaves the SyncInfo and the mapped pages well typed.
LEMMA SyncNext == TypeInv /\ [Next]_vars => SyncPart'
<1> SUFFICES ASSUME TypeInv, [Next]_vars PROVE SyncPart'
    OBVIOUS
<1>1. UNCHANGED <<info, scan>> => SyncPart'
    BY DEF TypeInv, SyncPart
<1>2. ASSUME info' = NoInfo, scan' = NoScan PROVE SyncPart'
    <2>1. info' \in [off : Nat, salt : Int, snap : BOOLEAN, clear : BOOLEAN]
        BY <1>2 DEF NoInfo
    <2>2. /\ scan'.off = 0 /\ scan'.end = 0 /\ scan'.salt = 0
          /\ DOMAIN scan'.pages = {}
        BY <1>2 DEF NoScan, NoFiles
    <2>3. QED BY <2>1, <2>2 DEF SyncPart
<1>3. Return \/ NoLocals \/ AfterSync \/ SyncFails => SyncPart'
    BY <1>2 DEF Return, NoLocals, AfterSync, SyncFails
<1>4. CASE UNCHANGED vars
    BY <1>1, <1>4 DEF vars, pushVars
<1>5. CASE Verify
    <2>1. CASE VerifyFails
        BY SMTT(20), SMTT(30), <1>3, <1>5, <2>1 DEF Verify
    <2>2. CASE ~VerifyFails
        BY <1>5, <2>2, VerifyInfoTyped DEF Verify, TypeInv, SyncPart
    <2>3. QED BY <2>1, <2>2
<1>6. CASE Scan
    <2> DEFINE m == PageMap(Reader.off, Reader.salt)
    <2>1. SyncFails \/ AfterSync \/
          (info' = info /\ scan' = [off |-> Reader.off, end |-> m.end, salt |-> Reader.salt,
                                    pages |-> m.pages])
        BY SMTT(20), <1>6 DEF Scan
    <2>2. /\ m.end \in Nat /\ Reader.off <= m.end /\ DOMAIN m.pages \subseteq Pages
          /\ \A p \in DOMAIN m.pages : m.pages[p] \in Nat \ {0}
        BY SMTT(20), SMTT(30), ReaderTyped, PageMapTyped DEF TypeInv, SqlPart
    <2> HIDE DEF m
    <2>3. ASSUME info' = info, scan' = [off |-> Reader.off, end |-> m.end, salt |-> Reader.salt,
                                        pages |-> m.pages]
          PROVE  SyncPart'
        BY SMTT(20), <2>2, <2>3, ReaderTyped DEF SyncPart, TypeInv
    <2>4. QED BY SMTT(20), <1>3, <2>1, <2>3
<1>7. CASE Encode
    BY <1>3, <1>7 DEF Encode
<1>8. CASE PushStart \/ Release \/ Pragma \/ Open \/ ResetLocal \/ ResetFails
    BY ZenonT(30), <1>1, <1>8 DEF PushStart, Release, Pragma, Open, ResetLocal, ResetFails
<1>9. CASE Cancel \/ LineageFails \/ RebaselineFails \/ UploadListFails \/ UploadFails \/ PushDone
           \/ Close
    BY Zenon, <1>3, <1>9
       DEF Cancel, LineageFails, RebaselineFails, UploadListFails, UploadFails, PushDone, Close
<1>10. CASE Decide \/ UploadDerive
    BY SMTT(20), SMTT(30), <1>1, <1>3, <1>10 DEF Decide, UploadDerive
<1>11. CASE Reacquire \/ WriteSeq \/ Lock
    BY <1>1, <1>3, <1>11 DEF Reacquire, WriteSeq, Lock, CheckpointBusy
<1>12. CASE EnsureLineageChecked \/ UploadPut
    BY Zenon, <1>1, <1>12 DEF EnsureLineageChecked, UploadPut, pushVars
<1>13. CASE AppCommit \/ AppSpill \/ AppCommitSpilled \/ AppRollback \/ AppCheckpoint
    BY Zenon, <1>1, <1>13
       DEF AppCommit, AppSpill, AppCommitSpilled, AppRollback, AppCheckpoint, WriterUnchanged, pushVars
<1>14. CASE Legacy \/ ForeignPush \/ Wipe \/ TakeBackup \/ RestoreBackup
    BY <1>1, <1>14 DEF Legacy, ForeignPush, Wipe, TakeBackup, RestoreBackup, pushVars
<1>15. QED
    BY SMTT(20), SMTT(30), <1>4, <1>5, <1>6, <1>7, <1>8, <1>9, <1>10, <1>11, <1>12, <1>13, <1>14
       DEF Next, WriterStep, PushStep, EnvStep

\* The states a push can be left in.
LEMMA ReturnTyped ==
    ASSUME Return \/ (pc' = "closed" /\ NoLocals)
    PROVE  /\ pc' \in {"idle", "closed"} /\ phase' = "none"
           /\ ck'.mode = "none" /\ ck'.hdr = 0 /\ orig' = -1
BY SMTT(20), SMTT(30) DEF Return, NoLocals, NoCk, NoHdr, NoSize

\* A SyncState with another offset or other flags is one.
LEMMA StateTyped ==
    ControlPart =>
        /\ \A n \in Int, b \in BOOLEAN :
              [st EXCEPT !.last = n, !.toEnd = b]
                  \in [last : Int, toEnd : BOOLEAN, stale : BOOLEAN]
        /\ \A b \in BOOLEAN :
              /\ [st EXCEPT !.toEnd = b, !.stale = FALSE]
                    \in [last : Int, toEnd : BOOLEAN, stale : BOOLEAN]
              /\ [st EXCEPT !.toEnd = b] \in [last : Int, toEnd : BOOLEAN, stale : BOOLEAN]
              /\ [st EXCEPT !.stale = b] \in [last : Int, toEnd : BOOLEAN, stale : BOOLEAN]
BY Zenon DEF ControlPart

\* Every step leaves the control state of the push well typed; in particular a
\* verify_and_sync always knows where to return to.
LEMMA ControlNext == TypeInv /\ [Next]_vars => ControlPart'
<1> SUFFICES ASSUME TypeInv, [Next]_vars PROVE ControlPart'
    OBVIOUS
<1>1. ControlPart
    BY DEF TypeInv
<1>2. /\ [st EXCEPT !.toEnd = FALSE] \in [last : Int, toEnd : BOOLEAN, stale : BOOLEAN]
      /\ [st EXCEPT !.toEnd = FALSE, !.stale = FALSE]
            \in [last : Int, toEnd : BOOLEAN, stale : BOOLEAN]
    BY Zenon, <1>1, StateTyped
<1>3. UNCHANGED <<floor, acked>> /\ st' \in [last : Int, toEnd : BOOLEAN, stale : BOOLEAN] /\ Return => ControlPart'
    BY <1>1, ReturnTyped DEF ControlPart
<1>4. UNCHANGED <<floor, acked>> /\ st' \in [last : Int, toEnd : BOOLEAN, stale : BOOLEAN] /\ AfterSync
      /\ UNCHANGED <<phase, ck, orig>> /\ pc \in {"verify", "scan", "encode"} => ControlPart'
    BY <1>1 DEF ControlPart, AfterSync
<1>5. UNCHANGED <<pushVars, ghostVars>> => ControlPart'
    BY SMTT(20), <1>1 DEF ControlPart, pushVars, ghostVars
<1>6. SyncFails => ControlPart'
    BY <1>1, <1>3 DEF SyncFails, ghostVars, ControlPart
<1>7. st \in [last : Int, toEnd : BOOLEAN, stale : BOOLEAN] /\ st.last \in Int
    BY <1>1 DEF ControlPart
<1>8. CASE UNCHANGED vars
    BY <1>5, <1>8 DEF vars
<1>9. CASE PushStart
    <2>1. floor' \in Nat /\ orig' \in Int
        <3>1. Len(history') \in Nat /\ Len(wal') \in Nat
            <4>1. CASE UNCHANGED sqliteVars
                BY <4>1 DEF TypeInv, SqlPart, WalInv, sqliteVars
            <4>2. CASE CommitPage(SeqPage, FALSE) /\ UNCHANGED <<db, rmark>>
                <5>1. WalInv'
                    BY Zenon, <4>2, CommitPageInv, PagesAssumption DEF TypeInv, SqlPart
                <5>2. QED BY SMTT(20), <5>1 DEF WalInv
            <4>3. QED BY <1>9, <4>1, <4>2 DEF PushStart
        <3>2. QED BY <1>7, <1>9, <3>1 DEF PushStart, NoSize
    <2>2. /\ pc' = "verify" /\ phase' = "push" /\ ck' = ck /\ st' = st /\ acked' = acked
        BY <1>9 DEF PushStart
    <2>3. QED BY <1>1, <2>1, <2>2 DEF ControlPart
<1>10. CASE Verify
    BY SMTT(20), <1>1, <1>6, <1>10 DEF Verify, ControlPart, ghostVars
<1>11. CASE Scan
    <2>1. CASE SyncFails
        BY SMTT(20), <1>6, <2>1
    <2>2. CASE /\ st' = [st EXCEPT !.last = Reader.off, !.toEnd = @ /\ ~info.clear]
               /\ AfterSync /\ UNCHANGED <<phase, ck, orig, ghostVars>>
        <3>1. Reader.off \in Int /\ (st.toEnd /\ ~info.clear) \in BOOLEAN
            BY ReaderTyped
        <3>2. st' \in [last : Int, toEnd : BOOLEAN, stale : BOOLEAN]
            BY Zenon, <1>1, <2>2, <3>1, StateTyped
        <3>3. QED BY Zenon, <1>4, <1>11, <2>2, <3>2 DEF ghostVars, Scan
    <2>3. CASE pc' = "encode" /\ UNCHANGED <<phase, ck, orig, st, ghostVars>>
        BY ZenonT(30), <1>1, <1>11, <2>3 DEF Scan, ControlPart, ghostVars
    <2>4. QED BY Zenon, <1>11, <2>1, <2>2, <2>3 DEF Scan
<1>12. CASE Encode
    <2>1. CASE SyncFails
        BY <1>6, <2>1
    <2>2. CASE /\ st' = [st EXCEPT !.last = scan.end, !.toEnd = scan.end = WalSize]
               /\ AfterSync /\ UNCHANGED <<phase, ck, orig, ghostVars>>
        <3>1. scan.end \in Int /\ (scan.end = WalSize) \in BOOLEAN
            BY DEF TypeInv, SyncPart
        <3>2. st' \in [last : Int, toEnd : BOOLEAN, stale : BOOLEAN]
            BY Zenon, <1>1, <2>2, <3>1, StateTyped
        <3>3. QED BY <1>4, <1>12, <2>2, <3>2 DEF ghostVars, Encode
    <2>3. QED BY ZenonT(30), <1>12, <2>1, <2>2 DEF Encode
<1>13. CASE Cancel \/ LineageFails \/ UploadListFails \/ UploadFails
    BY Zenon, <1>3, <1>7, <1>13 DEF Cancel, LineageFails, UploadListFails, UploadFails, ghostVars
<1>14. CASE Decide
    <2>1. CASE pc' = "lineage" /\ UNCHANGED <<phase, ck, orig, st, ghostVars>>
        BY <1>1, <2>1 DEF ControlPart, ghostVars
    <2>2. CASE Return
        BY SMTT(20), SMTT(30), <1>3, <1>7, <1>14, <2>2 DEF Decide, ghostVars
    <2>3. CASE pc' = "verify" /\ phase' = "pre" /\ ck' = [mode |-> CheckpointMode, hdr |-> whdr]
        <3>1. ck'.mode \in {"none", "passive", "truncate"} /\ ck'.hdr \in Int
            BY <2>3 DEF CheckpointMode, TypeInv, SqlPart, WalInv
        <3>2. UNCHANGED <<orig, st, ghostVars>>
            BY SMTT(20), <1>14, <2>3 DEF Decide, Return
        <3>3. QED BY SMTT(20), <1>1, <2>3, <3>1, <3>2 DEF ControlPart, ghostVars
    <2>4. QED BY <1>14, <2>1, <2>2, <2>3 DEF Decide
<1>15. CASE Release \/ Pragma
    BY SMTT(20), SMTT(30), <1>1, <1>15 DEF Release, Pragma, ControlPart, ghostVars
<1>16. CASE Reacquire \/ WriteSeq \/ Lock
    <2>1. UNCHANGED <<st, ghostVars>>
        BY <1>16 DEF Reacquire, WriteSeq, Lock
    <2>2. CASE Return
        BY <1>3, <1>7, <2>1, <2>2 DEF ghostVars
    <2>3. CASE /\ UNCHANGED <<ck, orig>>
               /\ (pc' \in {"lineage", "writeseq", "lock"} /\ phase' = phase)
                     \/ (pc' = "verify" /\ phase' = "post")
        BY <1>1, <2>1, <2>3 DEF ControlPart, ghostVars
    <2>4. QED BY SMTT(20), SMTT(30), <1>16, <2>2, <2>3 DEF Reacquire, WriteSeq, Lock, CheckpointBusy
<1>17. CASE EnsureLineageChecked
    <2>1. st' \in [last : Int, toEnd : BOOLEAN, stale : BOOLEAN]
        BY Zenon, <1>2, <1>7, <1>17 DEF EnsureLineageChecked, Rebaseline
    <2>2. floor' \in Nat /\ pc' = "upload" /\ UNCHANGED <<phase, ck, orig, acked>>
        BY SMTT(20), <1>1, <1>17 DEF EnsureLineageChecked, Rebaseline, ControlPart
    <2>3. QED BY <1>1, <2>1, <2>2 DEF ControlPart
<1>18. CASE UploadDerive
    BY SMTT(20), SMTT(30), <1>1, <1>3, <1>7, <1>18 DEF UploadDerive, ControlPart, ghostVars
<1>19. CASE UploadPut \/ Legacy \/ ForeignPush \/ TakeBackup
    BY <1>5, <1>19 DEF UploadPut, Legacy, ForeignPush, TakeBackup
<1>20. CASE PushDone
    <2>1. Return /\ UNCHANGED <<st, floor>> /\ acked' \in Nat
        BY <1>1, <1>20 DEF PushDone, ControlPart
    <2>2. QED BY <1>1, <2>1, ReturnTyped DEF ControlPart
<1>21. CASE Open
    BY <1>1, <1>2, <1>21 DEF Open, ControlPart, ghostVars
<1>22. CASE Close
    <2>1. pc' = "closed" /\ NoLocals /\ UNCHANGED <<st, ghostVars>>
        BY <1>22 DEF Close
    <2>2. QED BY <1>1, <2>1, ReturnTyped DEF ControlPart, ghostVars
<1>23. CASE ResetLocal \/ ResetFails \/ RebaselineFails
    <2>1. \A cached \in BOOLEAN :
              HalfCleared(cached) => st' \in [last : Int, toEnd : BOOLEAN, stale : BOOLEAN]
        <3> SUFFICES ASSUME NEW cached \in BOOLEAN, NEW left \in SUBSET DOMAIN l0,
                            st' = [st EXCEPT !.stale = @ \/ (cached /\ Pos \in DOMAIN l0 \ left)]
                     PROVE  st' \in [last : Int, toEnd : BOOLEAN, stale : BOOLEAN]
            BY DEF HalfCleared
        <3>1. (st.stale \/ (cached /\ Pos \in DOMAIN l0 \ left)) \in BOOLEAN
            OBVIOUS
        <3>2. QED BY Zenon, <1>1, <3>1, StateTyped
    <2>2. st' \in [last : Int, toEnd : BOOLEAN, stale : BOOLEAN]
        BY Zenon, <1>2, <1>7, <1>23, <2>1 DEF ResetLocal, ResetFails, RebaselineFails
    <2>3. CASE RebaselineFails
        BY Zenon, <1>3, <2>2, <2>3 DEF RebaselineFails, ghostVars
    <2>4. CASE ResetLocal \/ ResetFails
        <3>1. UNCHANGED <<pc, phase, ck, orig, floor, acked>>
            BY Zenon, <2>4 DEF ResetLocal, ResetFails, ghostVars
        <3>2. QED BY <1>1, <2>2, <3>1 DEF ControlPart
    <2>5. QED BY <1>23, <2>3, <2>4
<1>24. CASE AppCommit \/ AppSpill \/ AppCommitSpilled \/ AppRollback \/ AppCheckpoint
    BY Zenon, <1>5, <1>24
       DEF AppCommit, AppSpill, AppCommitSpilled, AppRollback, AppCheckpoint, WriterUnchanged
<1>25. CASE Wipe
    BY <1>1, <1>25 DEF Wipe, ControlPart, pushVars
<1>26. CASE RestoreBackup
    <2>1. st' \in [last : Int, toEnd : BOOLEAN, stale : BOOLEAN]
        BY Zenon, <1>7, <1>26 DEF RestoreBackup, TypeInv, BackupPart
    <2>2. acked' = 0 /\ UNCHANGED <<pc, phase, ck, orig, floor>>
        BY <1>26 DEF RestoreBackup
    <2>3. QED BY <1>1, <2>1, <2>2 DEF ControlPart
<1>27. QED
    BY SMTT(20), SMTT(30), <1>8, <1>9, <1>10, <1>11, <1>12, <1>13, <1>14, <1>15, <1>16, <1>17, <1>18, <1>19, <1>20,
       <1>21, <1>22, <1>23, <1>24, <1>25, <1>26 DEF Next, WriterStep, PushStep, EnvStep

\* A write keeps the read mark within the committed frames: it adds frames, or
\* restarts a WAL that no mark is in.
LEMMA MarkKept ==
    ASSUME WalInv, WalInv', MarkInv, rmark' = rmark, NEW restart \in BOOLEAN,
           restart \/ mx <= mx', restart => CanRestart
    PROVE  MarkInv'
<1>1. mx \in Nat /\ mx' \in Nat
    BY DEF WalInv
<1>2. CASE restart
    BY <1>1, <1>2 DEF MarkInv, CanRestart, Unlocked
<1>3. CASE ~restart
    BY <1>1, <1>3 DEF MarkInv, Unlocked
<1>4. QED BY <1>2, <1>3

\* Every step keeps the shape of SQLite's state: the read mark lies within the
\* committed frames, a closed writer holds no lock, and the post-copy runs
\* under the write lock.
LEMMA SqlNext == TypeInv /\ [Next]_vars => SqlPart'
<1> SUFFICES ASSUME TypeInv, [Next]_vars PROVE SqlPart'
    OBVIOUS
<1>1. WalInv /\ MarkInv /\ (pc = "closed" => rmark = Unlocked)
    BY DEF TypeInv, SqlPart
<1>2. pc \in {"verify", "scan", "encode"} => phase # "none" /\ (phase = "post" => wlock = "writer")
    BY DEF TypeInv, SqlPart, ControlPart
<1>3. UNCHANGED sqliteVars => WalInv' /\ MarkInv' /\ rmark' = rmark
    BY <1>1 DEF sqliteVars, WalInv, MarkInv
<1>4. \* The write lock goes from the writer to nobody, the rest of SQLite's state stays.
      ASSUME UNCHANGED <<db, wal, whdr, mx, bf, gens, pend, history>>,
             wlock' = wlock \/ (wlock = "writer" /\ wlock' = "none")
                            \/ (wlock = "none" /\ wlock' = "writer")
      PROVE  WalInv' /\ (rmark' = rmark => MarkInv')
    BY <1>1, <1>4 DEF WalInv, MarkInv
<1>5. SyncFails /\ pc \in {"verify", "scan", "encode"} => SqlPart'
    <2> SUFFICES ASSUME SyncFails, pc \in {"verify", "scan", "encode"} PROVE SqlPart'
        OBVIOUS
    <2>1. pc' = "idle" /\ WalInv' /\ MarkInv'
        BY <1>2, <1>4 DEF SyncFails, Return
    <2>2. QED BY <2>1 DEF SqlPart
<1>6. ASSUME AfterSync, pc \in {"scan", "encode"}, phase' = phase,
             UNCHANGED <<db, wal, whdr, mx, bf, gens, pend, rmark, history>>
      PROVE  SqlPart'
    <2>1. WalInv' /\ MarkInv'
        BY <1>2, <1>4, <1>6 DEF AfterSync
    <2>2. pc' \in {"decide", "release", "lineage"}
        BY <1>2, <1>6 DEF AfterSync, TypeInv, ControlPart
    <2>3. QED BY <2>1, <2>2 DEF SqlPart
<1>7. ASSUME NEW p \in Pages, NEW restart \in BOOLEAN, CommitPage(p, restart), UNCHANGED <<db, rmark>>
      PROVE  WalInv' /\ MarkInv' /\ rmark' = rmark
    <2>1. WalInv' /\ (restart \/ mx <= mx') /\ (restart => CanRestart)
        BY SMTT(20), SMTT(30), <1>1, <1>7, CommitPageInv
    <2>2. QED BY <1>1, <1>7, <2>1, MarkKept
<1>8. CASE UNCHANGED vars
    BY <1>1, <1>2, <1>3, <1>8 DEF vars, pushVars, SqlPart, sqliteVars
<1>9. CASE PushStart
    <2>1. WalInv' /\ MarkInv'
        BY Zenon, <1>3, <1>7, <1>9, PagesAssumption DEF PushStart
    <2>2. QED BY <1>9, <2>1 DEF PushStart, SqlPart
<1>10. CASE Verify
    <2>1. CASE VerifyFails
        BY SMTT(20), SMTT(30), <1>5, <1>10, <2>1 DEF Verify
    <2>2. CASE ~VerifyFails
        <3>1. pc' = "scan" /\ UNCHANGED <<sqliteVars, phase>>
            BY <1>10, <2>2 DEF Verify
        <3>2. QED BY <1>2, <1>3, <1>10, <3>1 DEF Verify, SqlPart, sqliteVars
    <2>3. QED BY <2>1, <2>2
<1>11. CASE Scan
    <2>1. CASE SyncFails
        BY ZenonT(30), <1>5, <1>11, <2>1 DEF Scan
    <2>2. CASE AfterSync /\ UNCHANGED <<db, wal, whdr, mx, bf, gens, pend, rmark, history, phase>>
        BY Zenon, <1>6, <1>11, <2>2 DEF Scan
    <2>3. CASE /\ pc' = "encode" /\ UNCHANGED wlock
               /\ UNCHANGED <<db, wal, whdr, mx, bf, gens, pend, rmark, history, phase>>
        BY Zenon, <1>2, <1>4, <1>11, <2>3 DEF Scan, SqlPart
    <2>4. QED BY ZenonT(30), <1>11, <2>1, <2>2, <2>3 DEF Scan
<1>12. CASE Encode
    <2>1. CASE SyncFails
        BY ZenonT(30), <1>5, <1>12, <2>1 DEF Encode
    <2>2. CASE AfterSync /\ UNCHANGED <<db, wal, whdr, mx, bf, gens, pend, rmark, history, phase>>
        BY Zenon, <1>6, <1>12, <2>2 DEF Encode
    <2>3. QED BY ZenonT(30), <1>12, <2>1, <2>2 DEF Encode
<1>13. CASE Cancel \/ LineageFails \/ RebaselineFails \/ UploadListFails \/ UploadFails \/ PushDone
            \/ ResetLocal \/ ResetFails
    <2>1. UNCHANGED sqliteVars /\ pc' = "idle"
        BY Zenon, <1>13 DEF Cancel, LineageFails, RebaselineFails, UploadListFails, UploadFails, PushDone,
                     ResetLocal, ResetFails, Return
    <2>2. QED BY <1>3, <2>1 DEF SqlPart
<1>14. CASE Decide
    <2>1. UNCHANGED sqliteVars /\ (pc' \in {"lineage", "idle"} \/ (pc' = "verify" /\ phase' = "pre"))
        BY <1>14 DEF Decide, Return
    <2>2. QED BY <1>3, <2>1 DEF SqlPart
<1>15. CASE Release
    <2>1. WalInv' /\ pc' = "pragma" /\ rmark' = Unlocked /\ mx' = mx
        BY <1>4, <1>15 DEF Release
    <2>2. QED BY <1>1, <2>1 DEF SqlPart, MarkInv, WalInv, Unlocked
<1>16. CASE Pragma
    <2>1. WalInv' /\ rmark <= mx' /\ rmark' = rmark /\ pc' = "reacquire"
        BY <1>1, <1>16, CheckpointPassiveInv, CheckpointTruncateInv DEF Pragma, MarkInv
    <2>2. QED BY <1>1, <2>1 DEF SqlPart, MarkInv
<1>17. CASE Reacquire
    <2>1. WalInv' /\ mx' = mx /\ (rmark' = rmark \/ rmark' = NewMark)
        BY <1>4, <1>17 DEF Reacquire
    <2>2. MarkInv'
        BY SMTT(20), SMTT(30), <1>1, <2>1 DEF MarkInv, NewMark, WalInv
    <2>3. pc' \in {"writeseq", "lineage", "idle"}
        BY <1>17 DEF Reacquire, CheckpointBusy, Return
    <2>4. QED BY <2>1, <2>2, <2>3 DEF SqlPart
<1>18. CASE WriteSeq
    <2>1. WalInv' /\ MarkInv'
        BY <1>3, <1>7, <1>18, PagesAssumption DEF WriteSeq
    <2>2. pc' \in {"lineage", "lock", "idle"}
        BY <1>18 DEF WriteSeq, CheckpointBusy, Return
    <2>3. QED BY <2>1, <2>2 DEF SqlPart
<1>19. CASE Lock
    <2>1. WalInv' /\ MarkInv'
        BY <1>4, <1>19 DEF Lock
    <2>2. (pc' = "verify" /\ wlock' = "writer") \/ pc' \in {"lineage", "idle"}
        BY <1>19 DEF Lock, CheckpointBusy, Return
    <2>3. QED BY SMTT(20), <2>1, <2>2 DEF SqlPart
<1>20. CASE EnsureLineageChecked \/ UploadDerive \/ UploadPut
    <2>1. UNCHANGED sqliteVars /\ pc' \in {"upload", "idle"}
        BY Zenon, <1>20 DEF EnsureLineageChecked, UploadDerive, UploadPut, pushVars, Return
    <2>2. QED BY <1>3, <2>1 DEF SqlPart
<1>21. CASE Open
    <2>1. WalInv' /\ mx <= mx' /\ mx' \in Nat
        <3>1. CASE UNCHANGED <<wal, whdr, mx, bf, gens, wlock, pend, history>>
            BY <1>1, <1>4, <1>21, <3>1 DEF Open, WalInv
        <3>2. CASE CommitPage(SeqPage, FALSE)
            <4>1. WalInv' /\ mx <= mx'
                BY Zenon, <1>1, <1>21, <3>2, CommitPageInv, PagesAssumption DEF Open
            <4>2. QED BY <4>1 DEF WalInv
        <3>3. QED BY Zenon, <1>21, <3>1, <3>2 DEF Open
    <2>2. MarkInv' /\ pc' = "idle"
        BY SMTT(20), <1>1, <1>21, <2>1 DEF Open, MarkInv, NewMark, WalInv
    <2>3. QED BY <2>1, <2>2 DEF SqlPart
<1>22. CASE Close
    <2>1. WalInv' /\ rmark' = Unlocked /\ mx' = mx /\ pc' = "closed"
        BY <1>4, <1>22 DEF Close
    <2>2. QED BY <1>1, <2>1 DEF SqlPart, MarkInv, WalInv, Unlocked
<1>23. CASE AppCommit
    <2>1. WalInv' /\ MarkInv' /\ rmark' = rmark
        BY <1>7, <1>23 DEF AppCommit
    <2>2. UNCHANGED <<pc, phase>> /\ wlock' = wlock
        BY <1>23 DEF AppCommit, CommitPage, WriterUnchanged, pushVars
    <2>3. QED BY <1>1, <1>2, <2>1, <2>2 DEF SqlPart
<1>24. CASE AppSpill \/ AppCommitSpilled \/ AppRollback
    <2>1. UNCHANGED <<pc, phase>> /\ wlock # "writer" /\ rmark' = rmark
        BY Zenon, <1>24 DEF AppSpill, AppCommitSpilled, AppRollback, Spill, CommitSpilled, Rollback,
                     WriterUnchanged, pushVars
    <2>2. WalInv' /\ MarkInv'
        <3>1. CASE AppSpill
            <4>1. PICK p \in Pages, restart \in BOOLEAN : Spill(p, restart) /\ UNCHANGED <<db, rmark>>
                BY <3>1 DEF AppSpill
            <4>2. WalInv' /\ (restart \/ mx <= mx') /\ (restart => CanRestart)
                BY <1>1, <4>1, SpillInv
            <4>3. QED BY <1>1, <4>1, <4>2, MarkKept
        <3>2. CASE AppCommitSpilled
            <4>1. PICK p \in Pages : CommitSpilled(p) /\ UNCHANGED <<db, rmark>>
                BY <3>2 DEF AppCommitSpilled
            <4>2. WalInv' /\ mx <= mx'
                BY <1>1, <4>1, CommitSpilledInv
            <4>3. QED BY Zenon, <1>1, <4>1, <4>2, MarkKept
        <3>3. CASE AppRollback
            BY <1>1, <3>3, RollbackInv DEF AppRollback, MarkInv
        <3>4. QED BY <1>24, <3>1, <3>2, <3>3
    <2>3. QED BY <1>1, <1>2, <2>1, <2>2 DEF SqlPart
<1>25. CASE AppCheckpoint
    <2>1. WalInv' /\ rmark <= mx' /\ rmark' = rmark
        BY SMTT(20), <1>1, <1>25, CheckpointPassiveInv, CheckpointTruncateInv DEF AppCheckpoint, MarkInv
    <2>2. UNCHANGED <<pc, phase, wlock>>
        BY <1>25 DEF AppCheckpoint, CheckpointPassive, CheckpointTruncate, WriterUnchanged, pushVars
    <2>3. QED BY SMTT(20), <1>1, <1>2, <2>1, <2>2 DEF SqlPart, MarkInv
<1>26. CASE Legacy \/ ForeignPush \/ Wipe \/ TakeBackup
    <2>1. UNCHANGED sqliteVars /\ UNCHANGED <<pc, phase>> /\ pc = "closed"
        BY Zenon, <1>26 DEF Legacy, ForeignPush, Wipe, TakeBackup, pushVars
    <2>2. QED BY <1>1, <1>3, <2>1 DEF SqlPart
<1>27. CASE RestoreBackup
    <2>1. /\ db' \in Image /\ wal' \in Seq(Frame) /\ whdr' \in Int
          /\ mx' \in Nat /\ mx' <= Len(wal') /\ bf' \in Nat /\ bf' <= mx'
          /\ backup.image \in Image
        BY <1>27 DEF RestoreBackup, TypeInv, BackupPart
    <2>2. history' \in Seq(Image) /\ history' # <<>>
        BY SMTT(20), SMTT(30), <1>1, <1>27, <2>1 DEF RestoreBackup, WalInv
    <2>3. /\ pc' = "closed" /\ pc = "closed" /\ wlock = "none"
          /\ UNCHANGED <<gens, wlock, pend, rmark>>
        BY <1>27 DEF RestoreBackup
    <2>4. pend' = 0 /\ gens' \in Nat /\ wlock' = "none"
        BY <1>1, <2>3 DEF WalInv
    <2>5. mx' + pend' <= Len(wal')
        BY <2>1, <2>4
    <2>6. WalInv'
        BY <2>1, <2>2, <2>4, <2>5 DEF WalInv
    <2>7. MarkInv' /\ rmark' = Unlocked
        BY <1>1, <2>1, <2>3 DEF MarkInv, Unlocked
    <2>8. QED BY <2>3, <2>6, <2>7 DEF SqlPart
<1>28. QED
    BY SMTT(20), SMTT(30), <1>8, <1>9, <1>10, <1>11, <1>12, <1>13, <1>14, <1>15, <1>16, <1>17, <1>18, <1>19, <1>20,
       <1>21, <1>22, <1>23, <1>24, <1>25, <1>26, <1>27 DEF Next, WriterStep, PushStep, EnvStep

\* The writer's memory, its meta directory and the bucket stay well typed,
\* whatever it, the application and other writers do.
THEOREM TypeCorrect == Spec => []TypeOK
<1>1. TypeInv /\ [Next]_vars => TypeInv'
    BY SqlNext, FileNext, SyncNext, ControlNext, LineNext, BudgetNext, BackupNext DEF TypeInv
<1>2. QED BY <1>1, TypeInvInit, TypeInvTyped, PTL DEF Spec
=============================================================================
