----------------------------- MODULE HttpStream -----------------------------
(***************************************************************************)
(* The follow feed GET /stream of a Mount, crates/liters-storage/src/http/ *)
(* mount.rs: a thread that sends the files of level 0 as they appear and   *)
(* sleeps on the mount's change signal in between, beside the device whose *)
(* client bumps that signal after each mutation it made.                   *)
(*                                                                         *)
(* The device is module Upkeep; a mutation and its notification are two    *)
(* steps.  Streams only read, so one of them is enough.  The interval of   *)
(* the pings and the timeout of the wait are left open.                    *)
(***************************************************************************)
EXTENDS Upkeep

CONSTANTS
    MaxFails,      \* bound: calls that fail
    MaxMutations,  \* bound: mutations the device notifies
    Found          \* the buckets a server is started over: files, head and lost

\* A bucket as a device leaves it: one file per key, nothing beyond the last
\* transaction pushed, and the file of that one in level 0.
Kept(b) ==
    /\ b.head \in Nat /\ b.lost \in 0..b.head
    /\ \A f \in b.files : f.lvl \in Levels /\ f.min \in 1..f.max /\ f.max \in 1..b.head
    /\ \A f, g \in b.files : SameKey(f, g) => f = g
    /\ b.head > 0 => \E f \in b.files : f.lvl = 0 /\ f.max = b.head

ASSUME HttpStreamAssumption ==
    /\ MaxFails \in Nat /\ MaxMutations \in Nat
    /\ \A b \in Found : Kept(b)

VARIABLES
    due,         \* what the device did that it has not notified yet, or never will
    generation,  \* Notify::generation
    cancelled,   \* the server's stop token
    woken,       \* shutdown has called wake
    spc,         \* where the stream is
    cursor,      \* the next TXID the follower needs
    since,       \* the lineage the follower was at when it asked (ghost)
    seen,        \* generation read at the top of the round
    files,       \* what is left of the listing of this round
    l0_max,      \* newest TXID of that listing
    progressed,  \* this round sent a frame
    level, max,  \* bucket_max: the next level to list, the maximum so far
    fails

deviceVars == <<due, generation>>
scanVars   == <<level, max>>
roundVars  == <<seen, files, l0_max, progressed>>
vars == <<upkeepVars, deviceVars, cancelled, woken, spc, cursor, since, roundVars, scanVars, fails>>

Over == spc \in {"gap", "reset", "stopped", "aborted"}

----------------------------------------------------------------------------
(* The device, through its NotifyingClient *)

\* The device is between two calls; the last one may have failed.
Ready == due \in {"nothing", "failed"}

\* A file is written, or the last file of a wipe is gone.
Mutate ==
    /\ \/ Ready /\ (Push \/ PutSnapshot \/ \E l \in MergedLevels : Merge(l))
       \/ (Ready \/ due = "wipe") /\ Wipe
    /\ generation < MaxMutations
    /\ due' = "mutation"

\* delete_ltx_files deletes one file after another before it notifies.
Delete ==
    /\ Ready \/ due = "deletions"
    /\ generation < MaxMutations
    /\ DropL0 \/ DropSnapshot \/ \E l \in MergedLevels : DropMerged(l)
    /\ due' = "deletions"

\* delete_all removes the files in no particular order.  One that fails half-way
\* is not notified, and is called again before anything is pushed.
WipeSome ==
    /\ Ready \/ due = "wipe"
    /\ gen < MaxGen /\ generation < MaxMutations
    /\ \E f \in bucket : bucket' = bucket \ {f}
    /\ due' = "wipe"
    /\ UNCHANGED <<head, gen, lost>>

\* Notify::notify, after a mutation that succeeded.
notify ==
    /\ due \in {"mutation", "deletions"}
    /\ due' = "nothing"
    /\ generation' = generation + 1
    /\ UNCHANGED fails

\* The call fails after it changed the bucket (a file is renamed into place and
\* its times cannot be set, a deletion is denied): nobody is notified.
MutationFails ==
    /\ due \in {"mutation", "deletions"} /\ fails < MaxFails
    /\ due' = "failed" /\ fails' = fails + 1
    /\ UNCHANGED generation

Device ==
    /\ \/ (Mutate \/ Delete \/ WipeSome) /\ UNCHANGED <<generation, fails>>
       \/ (notify \/ MutationFails) /\ UNCHANGED upkeepVars
    /\ UNCHANGED <<cancelled, woken, spc, cursor, since, roundVars, scanVars>>

\* Mutant: the streams are woken first, then told to stop.
ShutdownWakesFirst ==
    /\ \/ ~woken /\ woken' = TRUE /\ generation' = generation + 1 /\ UNCHANGED cancelled
       \/ woken /\ ~cancelled /\ cancelled' = TRUE /\ UNCHANGED <<woken, generation>>
    /\ UNCHANGED <<upkeepVars, due, spc, cursor, since, roundVars, scanVars, fails>>

\* HttpServer::shutdown cancels the streams, then wakes them.
Shutdown ==
    /\ \/ ~cancelled /\ cancelled' = TRUE /\ UNCHANGED <<woken, generation>>
       \/ cancelled /\ ~woken /\ woken' = TRUE /\ generation' = generation + 1
          /\ UNCHANGED cancelled
    /\ UNCHANGED <<upkeepVars, due, spc, cursor, since, roundVars, scanVars, fails>>

----------------------------------------------------------------------------
(* The stream *)

Goto(where) == spc' = where

\* The stream's own steps leave the rest of the system alone.
StreamOnly == UNCHANGED <<upkeepVars, deviceVars, cancelled, woken, since>>

\* A follower that has applied some prefix of the lineage asks for what follows.
Open ==
    /\ spc = "closed"
    /\ \E seek \in 1..(head + 1) : cursor' = seek
    /\ since' = gen
    /\ Goto("preamble")
    /\ UNCHANGED <<upkeepVars, deviceVars, cancelled, woken, roundVars, scanVars, fails>>

\* Mutant: a follower that has everything counts as diverged.
IsResetInclusive(m, c) == m # 0 /\ m < c

\* Only a bucket that has files, all of them behind the follower, is evidence.
is_reset(m, c) == m # 0 /\ m < c - 1

\* bucket_max lists level after level.  A listing that fails ends it, which
\* every caller treats like an empty bucket.
Scan ==
    /\ spc \in {"preamble", "confirm", "ping"} /\ level <= SNAPSHOT_LEVEL
    /\ \/ /\ max' = IF MaxTxid(At(level)) > max THEN MaxTxid(At(level)) ELSE max
          /\ level' = level + 1
          /\ UNCHANGED fails
       \/ /\ fails < MaxFails /\ fails' = fails + 1
          /\ max' = 0 /\ level' = SNAPSHOT_LEVEL + 1
    /\ StreamOnly /\ UNCHANGED <<spc, cursor, roundVars>>

\* What the maximum tells: the follower diverged, or the loop goes on.
Scanned ==
    /\ spc \in {"preamble", "confirm", "ping"} /\ level > SNAPSHOT_LEVEL
    /\ level' = 0 /\ max' = 0
    /\ \/ is_reset(max, cursor) /\ Goto("reset")
       \/ ~is_reset(max, cursor) /\ spc # "confirm" /\ Goto("top")
       \/ ~is_reset(max, cursor) /\ spc = "confirm" /\ Goto("caught up")
    /\ StreamOnly /\ UNCHANGED <<cursor, roundVars, fails>>

\* The top of a round: the generation is read before the listing.
Top ==
    /\ spc = "top"
    /\ IF cancelled THEN Goto("stopped") /\ UNCHANGED seen
                    ELSE Goto("list") /\ seen' = generation
    /\ StreamOnly /\ UNCHANGED <<cursor, files, l0_max, progressed, scanVars, fails>>

\* Files the follower has applied are skipped.
Wanted(F) == {f \in F : f.max >= cursor}

\* Level 0 is listed.
List ==
    /\ spc = "list"
    /\ files' = Wanted(At(0)) /\ l0_max' = MaxTxid(At(0)) /\ progressed' = FALSE
    /\ Goto("send")
    /\ StreamOnly /\ UNCHANGED <<cursor, seen, scanVars, fails>>

\* The listing or the backend fails, or the peer is gone.
Aborts ==
    /\ spc \in {"preamble", "list", "send", "ping"} /\ fails < MaxFails
    /\ fails' = fails + 1
    /\ Goto("aborted")
    /\ StreamOnly /\ UNCHANGED <<cursor, roundVars, scanVars>>

\* The next listed file: it leaves a gap, it is sent (from what is stored under
\* its name by now), or it is gone.
Send ==
    LET f == First(files)
    IN /\ spc = "send" /\ files # {}
       /\ \/ /\ f.min > cursor
             /\ Goto("gap")
             /\ UNCHANGED <<files, cursor, progressed>>
          \/ /\ f.min <= cursor /\ \E g \in bucket : SameKey(f, g)
             /\ IF cancelled
                  THEN Goto("aborted") /\ UNCHANGED <<files, cursor, progressed>>
                  ELSE /\ cursor' = f.max + 1 /\ progressed' = TRUE
                       /\ files' = {g \in files \ {f} : g.max >= f.max + 1}
                       /\ UNCHANGED spc
          \/ /\ f.min <= cursor /\ ~\E g \in bucket : SameKey(f, g)
             /\ files' = {}
             /\ UNCHANGED <<spc, cursor, progressed>>
       /\ StreamOnly /\ UNCHANGED <<seen, l0_max, scanVars, fails>>

\* The round is over.  A round that sent something is followed by another one;
\* otherwise a level 0 that trails the follower has to be explained.
RoundEnd ==
    /\ spc = "send" /\ files = {}
    /\ \/ progressed /\ Goto("top")
       \/ ~progressed /\ is_reset(l0_max, cursor) /\ Goto("confirm")
       \/ ~progressed /\ ~is_reset(l0_max, cursor) /\ Goto("caught up")
    /\ l0_max' = 0 /\ progressed' = FALSE
    /\ StreamOnly /\ UNCHANGED <<cursor, seen, files, scanVars, fails>>

\* Mutant: the generation to wait on is read when the wait begins.
CaughtUpReadsGeneration ==
    /\ spc = "caught up"
    /\ Goto(IF cancelled THEN "top" ELSE "parked")
    /\ seen' = generation
    /\ StreamOnly /\ UNCHANGED <<cursor, files, l0_max, progressed, scanVars, fails>>

\* A ping is due, or the stream waits unless something happened already.
CaughtUp ==
    /\ spc = "caught up"
    /\ \/ Goto("ping")
       \/ Goto(IF generation # seen \/ cancelled THEN "top" ELSE "parked")
    /\ StreamOnly /\ UNCHANGED <<cursor, roundVars, scanVars, fails>>

\* A notification ends the wait.
Wake ==
    /\ spc = "parked" /\ generation # seen
    /\ Goto("top")
    /\ StreamOnly /\ UNCHANGED <<cursor, roundVars, scanVars, fails>>

\* The poll interval, or the time to the next ping, has passed.
PollTick ==
    /\ spc = "parked"
    /\ Goto("top")
    /\ StreamOnly /\ UNCHANGED <<cursor, roundVars, scanVars, fails>>

----------------------------------------------------------------------------
Init ==
    /\ \E b \in Found : bucket = b.files /\ head = b.head /\ lost = b.lost
    /\ gen = 1
    /\ due = "nothing" /\ generation = 0
    /\ cancelled = FALSE /\ woken = FALSE
    /\ spc = "closed" /\ cursor = 1 /\ since = 0
    /\ seen = 0 /\ files = {} /\ l0_max = 0 /\ progressed = FALSE
    /\ level = 0 /\ max = 0 /\ fails = 0

StreamStep == Scan \/ Scanned \/ Top \/ List \/ Send \/ RoundEnd \/ CaughtUp \/ Wake

Next == Device \/ Shutdown \/ Open \/ StreamStep \/ Aborts \/ PollTick

Spec == Init /\ [][Next]_vars

\* The stream's thread runs and its peer reads; the device's thread gets from
\* a mutation to its notification; a shutdown that began goes on.  The poll
\* interval is relied on only after a call of the device that failed; nothing is
\* assumed of what the device does next.
LiveSpec ==
    /\ Spec
    /\ WF_vars(StreamStep)
    /\ WF_vars(notify /\ Device)
    /\ WF_vars(due = "failed" /\ PollTick)
    /\ WF_vars(cancelled /\ Shutdown)

----------------------------------------------------------------------------
(* Properties. *)

TypeOK ==
    /\ UpkeepTypeOK
    /\ due \in {"nothing", "mutation", "deletions", "wipe", "failed"}
    /\ generation \in Nat /\ seen \in 0..generation
    /\ spc \in {"closed", "preamble", "top", "list", "send", "confirm", "ping", "caught up",
                "parked", "gap", "reset", "stopped", "aborted"}
    /\ cursor \in Nat \ {0}
    /\ \A f \in files : f \in LtxFile /\ f.lvl = 0
    /\ level \in 0..(SNAPSHOT_LEVEL + 1) /\ max \in Nat /\ l0_max \in Nat

\* A follower is told to start over only when the bucket was wiped after it
\* asked, or is being wiped: listing levels one by one while the device merges
\* and deletes never looks like a reset.
NoFalseReset == spc = "reset" => since < gen \/ due = "wipe"

\* What the device pushed is delivered, unless the stream ends or the bucket is
\* wiped: without the help of the poll interval when its call succeeded, with
\* it when the call stored the file and failed.
Delivers == (spc # "closed" /\ head >= cursor) ~> (head < cursor \/ Over \/ due = "wipe")

\* A shutdown ends the stream, even one that sleeps or is about to.
Stops == (cancelled /\ spc # "closed") ~> Over
=============================================================================
