------------------------------ MODULE Sharing ------------------------------
(***************************************************************************)
(* A bucket shared by the device that writes and maintains it (module      *)
(* Upkeep, which Maintenance implements) and a replica that reads it       *)
(* (module Replica).  Nothing keeps the two apart: compaction and          *)
(* retention go on between any two steps of a restore, a sync or a stream. *)
(***************************************************************************)
EXTENDS Upkeep, Replica

vars == <<bucket, head, gen, lost, auto_reset, rdb, sidecar, rpc, s, outcome, high, faults>>

DeviceStep == UpkeepNext /\ UNCHANGED replicaVars

ReaderStep == ReplicaStep /\ UNCHANGED <<auto_reset, upkeepVars>>

ReaderEnds == (StreamOpen \/ StreamEnd) /\ UNCHANGED <<auto_reset, upkeepVars>>

ReaderFault == ReplicaFault /\ UNCHANGED <<auto_reset, upkeepVars>>

Init == UpkeepInit /\ ReplicaInit

Next == DeviceStep \/ ReaderStep \/ ReaderEnds \/ ReaderFault

Spec == Init /\ [][Next]_vars

\* The host calls sync again and again, or runs follow, which does.
LiveSpec == Spec /\ WF_vars(ReaderStep)

----------------------------------------------------------------------------
(* Properties. *)

Image == [Pages -> (1..MaxGen) \X (1..TxidBound)]

\* Type correctness of the bucket, of the replica and of the locals of a sync.
TypeOK ==
    /\ UpkeepTypeOK
    /\ rdb \in Image \cup {NoDb}
    /\ sidecar \in 0..TxidBound /\ high \in 0..TxidBound
    /\ s.from \in 0..TxidBound /\ s.cur \in 0..TxidBound
    /\ s.todo \subseteq LtxFile /\ s.files \subseteq LtxFile
    /\ s.lvl \in Levels

\* The replica never lacks a transaction its sidecar counts, and never holds
\* one nobody applied, whatever failed, was killed or was deleted meanwhile:
\* every page is as new as the position says at least, and at most as new as
\* the newest file applied.  A sync that gets that far again is therefore
\* exact.  (While the bucket has its first lineage.)
NothingMissing ==
    gen = 1 /\ rdb # NoDb => \A p \in Pages :
        /\ sidecar > 0 => rdb[p][2] >= LastWrite(p, sidecar)
        /\ rdb[p][2] <= LastWrite(p, high)

\* Divergence is only declared of a bucket that was wiped: compaction and
\* retention that move files between the listings never look like it.
NoFalseDivergence == outcome = "diverged" => gen > 1

\* Again and again the replica is at the last transaction pushed, or tells that
\* it cannot get there because it may not replace itself: no combination of
\* merges, deletions, a wiped bucket and interrupted syncs stalls it in
\* silence.  With one lineage it is then the state of that transaction.
CatchesUp ==
    []<>(\/ head > 0 => sidecar = head /\ (gen = 1 => rdb = StateAt(1, head))
         \/ ~auto_reset /\ outcome \in {"diverged", "unresumable"})

\* An error for a busy lock means the sync wrote nothing, to the database or
\* to the sidecar.
BusyMeansUntouched == [][outcome' = "lockbusy" /\ rpc = "apply" => s.cur = s.from]_vars

\* When a sync returns successfully the replica is the database as it was
\* after the transaction the position names.
OkIsCommitted ==
    rpc = "idle" /\ outcome = "ok" /\ rdb # NoDb =>
        \E g \in 1..MaxGen : rdb = StateAt(g, sidecar)

\* A bucket that was wiped and seeded again is never followed as if it were the
\* old one: the pages are all of one lineage when a sync has succeeded.
ReseedNoticed ==
    rpc = "idle" /\ outcome = "ok" /\ rdb # NoDb =>
        \A p, q \in Pages : rdb[p][1] = rdb[q][1]

\* A follower that was killed resumes where it stopped: when a sync has
\* succeeded, a replica with the pages of one lineage lacks no transaction of
\* that lineage which its position counts.
ResumesComplete ==
    /\ rpc = "idle" /\ outcome = "ok" /\ rdb # NoDb
    /\ \A p, q \in Pages : rdb[p][1] = rdb[q][1]
    => \A p \in Pages : rdb[p][2] >= LastWrite(p, sidecar)

\* A replica that has a position stays readable, also when a restore that was
\* to replace it fails.
StaysReadable == [][rdb # NoDb /\ sidecar > 0 /\ rpc # "idle" => rdb' # NoDb]_vars
=============================================================================
