---------------------------- MODULE ReplicaLock ----------------------------
(***************************************************************************)
(* The byte-range locks on a replica file: FcntlLock of                    *)
(* crates/liters/src/replica.rs, which apply_spooled takes before its      *)
(* first page, against SQLite readers in other processes.                  *)
(*                                                                         *)
(* The applier write-locks PENDING, then the SHARED range, each with       *)
(* non-blocking calls on a poll schedule.  A poll that finds the range     *)
(* taken and decides to go on changes nothing and is no step; one deadline *)
(* covers both ranges and may pass at any poll.                            *)
(***************************************************************************)
EXTENDS Naturals

CONSTANT Readers  \* SQLite connections of other processes

VARIABLES
    wlock,  \* the ranges the applier has write-locked
    rdr,    \* where each reader is
    apc     \* where the applier is: "off" outside of a follow session, "next" in
            \* a call on the storage

lockVars == <<wlock, rdr, apc>>

LockInit == wlock = {} /\ rdr = [r \in Readers |-> "away"] /\ apc = "off"

----------------------------------------------------------------------------
(* Readers.  SQLite's shared lock: PENDING is read-locked for the moment it *)
(* takes to read-lock the SHARED range.                                     *)

ReaderStarts(r) ==
    /\ rdr[r] = "away" /\ "PENDING" \notin wlock
    /\ rdr' = [rdr EXCEPT ![r] = "starting"]
    /\ UNCHANGED <<wlock, apc>>

ReaderEnters(r) ==
    /\ rdr[r] = "starting" /\ "SHARED" \notin wlock
    /\ rdr' = [rdr EXCEPT ![r] = "reading"]
    /\ UNCHANGED <<wlock, apc>>

ReaderLeaves(r) ==
    /\ rdr[r] = "reading"
    /\ rdr' = [rdr EXCEPT ![r] = "away"]
    /\ UNCHANGED <<wlock, apc>>

----------------------------------------------------------------------------
(* The applier *)

\* A verified spool is ready to be applied.
ApplySpooled == apc = "next" /\ apc' = "pending" /\ UNCHANGED <<wlock, rdr>>

\* Mutant: a reader that is inside is overlooked.
ContendedNever(range) == range = "PENDING" /\ \E r \in Readers : rdr[r] = "starting"

\* set_fcntl_lock would fail: another process holds a conflicting lock.
Contended(range) ==
    \E r \in Readers : rdr[r] = IF range = "PENDING" THEN "starting" ELSE "reading"

\* PENDING keeps new readers out.
TakePending ==
    /\ apc = "pending" /\ ~Contended("PENDING")
    /\ wlock' = {"PENDING"} /\ apc' = "shared"
    /\ UNCHANGED rdr

\* Mutant: PENDING is let go between two polls of SHARED.
TakeSharedAfresh ==
    /\ apc = "shared"
    /\ IF Contended("SHARED") THEN wlock' = {} /\ apc' = "pending"
                              ELSE wlock' = {"PENDING", "SHARED"} /\ apc' = "apply"
    /\ UNCHANGED rdr

\* Then the SHARED range, PENDING held: the readers inside drain.
TakeShared ==
    /\ apc = "shared" /\ ~Contended("SHARED")
    /\ wlock' = {"PENDING", "SHARED"} /\ apc' = "apply"
    /\ UNCHANGED rdr

\* A poll of the range the applier is at fails.
Blocked ==
    \/ apc = "pending" /\ Contended("PENDING")
    \/ apc = "shared" /\ Contended("SHARED")

\* Mutant: the guard that releases PENDING is bound after both are taken.
GiveUpKeepsPending ==
    /\ apc \in {"pending", "shared"}
    /\ apc' = "session"
    /\ UNCHANGED <<rdr, wlock>>

\* The token is cancelled, the deadline is over, or fcntl fails for another
\* reason; dropping the guard unlocks what was taken.  Follow goes back to its
\* loop: a busy lock is transient and a follower of the manager has a backoff.
GiveUp ==
    /\ apc \in {"pending", "shared"}
    /\ wlock' = {} /\ apc' = "session"
    /\ UNCHANGED rdr

\* The pages are written and synced, or a write failed; the guard is dropped.
Applied == apc = "apply" /\ wlock' = {} /\ apc' = "session" /\ UNCHANGED rdr

----------------------------------------------------------------------------
(* Properties. *)

\* Type correctness of the locks.
LockTypeOK ==
    /\ wlock \in SUBSET {"PENDING", "SHARED"}
    /\ rdr \in [Readers -> {"away", "starting", "reading"}]
    /\ apc \in {"off", "session", "next", "pending", "shared", "apply"}

\* Nobody reads the replica while its pages are written, and nobody writes
\* them before every reader that was inside has left.
ApplyExclusive == apc = "apply" => \A r \in Readers : rdr[r] = "away"
=============================================================================
