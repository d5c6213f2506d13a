# Formal models of liters

liters replicates a local SQLite database to a bucket of LTX files and
materialises such a bucket elsewhere. This directory holds TLA+ models of it,
configurations that check them with TLC on small instances, and proofs that
TLAPS checks for every instance.

## The system

| Part | Source | Role |
|---|---|---|
| Writer | `crates/liters/src/{writer,verify,checkpoint,meta,sqlite}.rs` | turns committed WAL frames into L0 files, checkpoints the database, uploads |
| WAL reader | `crates/liters-wal/src/reader.rs` | finds committed frames in a live `-wal` file |
| Restore planner | `crates/liters/src/plan.rs` | chooses the files of a bucket that restore a TXID |
| Maintenance | `crates/liters/src/compaction.rs` | compacts levels, writes snapshots, deletes by retention |
| Replica | `crates/liters/src/replica.rs` | restores, applies increments, follows a bucket |
| Manager | `crates/liters/src/{manager,retry,error}.rs` | one worker thread per database, sleep/resume, shutdown, retries |
| Storage | `crates/liters-storage/src/{lib,dir,cancel,s3}.rs` | the bucket: listing, PUT, DELETE |
| HTTP bucket | `crates/liters-storage/src/http/*.rs` | the same over HTTP: mount with writer fencing and a change stream, server, client |
| LTX codec | `crates/ltx/src/*.rs` | encoder, decoder, compactor |
| FFI | `crates/liters-ffi/src/lib.rs` | bindings |

## Modules

| Module | Models |
|---|---|
| `SqliteWal` | a SQLite database in WAL mode as liters meets it, and `WalReader` |
| `Writer` | the Writer on top of `SqliteWal`, its meta directory, the bucket's L0 files, the application and other writers |
| `MCWriter` | instances of `Writer` |
| `WriterProofs` | the proofs about both |
| `Bucket` | the listing and contiguity rules of a bucket with levels, and the restore plan as a function of listings |
| `BucketProofs` | lemmas about its operators: newest TXID and first file of a listing, chains, what a device leaves in its bucket |
| `RestorePlan`, `RestoreProofs` | `calc_restore_plan` cursor by cursor |
| `Upkeep` | abstract: what a device may do to its bucket while others read it |
| `Maintenance`, `MCMaintenance`, `MaintenanceProofs` | `Writer::maintain` |
| `MaintenanceUpkeep`, `UpkeepProofs` | the refinement mapping: `Maintenance` without the times of its files is `Upkeep` |
| `Replica` | the Replica |
| `Sharing`, `MCSharing`, `SharingProofs` | `Upkeep` and `Replica` on one bucket |
| `ReplicaLock` | the byte-range locks an application takes, against SQLite readers in other processes |
| `Manager`, `MCManager`, `ManagerProofs` | the Manager: workers, control calls, observer; its follow sessions take the locks of `ReplicaLock` |
| `HttpFence`, `MCHttpFence` | the mutations of a writable `Mount`: fence, write gate, lease |
| `HttpStream`, `MCHttpStream` | the follow stream of a `Mount` beside `Upkeep`, and its end at shutdown |
| `HttpServer` | the server's threads: accept loop, handlers, shutdown |
| `HttpProofs` | the proofs about these three |

The writer's models and the bucket's meet in one fact: a push appends the next
TXID to level 0 and changes nothing else (`BucketContiguous`,
`BucketAppendOnly`, both proved). `Push` of `Upkeep` and of `Maintenance` is
that fact. `Sharing` composes the replica with `Upkeep` and not with
`Maintenance`, whose clock and program counter matter to no reader; that
`Maintenance` implements `Upkeep` is checked by its run and proved. `HttpStream` composes
the follow stream with the same `Upkeep`. What one push or one follow session
does to the bucket is in `Writer` and `Sharing`; in `Manager` it ends in one of
its outcomes. What one request does is in `HttpFence` and `HttpStream`; in
`HttpServer` it is a thread that blocks on its socket.

### SqliteWal

The WAL file is the sequence `wal` of frames; a frame has the generation that
wrote it (`salt`), a page, an image and a commit mark. `whdr` is the generation
in the WAL header, `mx` the committed frames of it, `bf` how many of them are in
the database file `db`. A restart begins generation `gens + 1` at the top of the
file and leaves the older frames below it in place, which is what `verify()` has
to see through. Images are numbers: the state a transaction produced. `history`
is a ghost variable: every committed state in order.

SQLite is external and modelled from how liters uses it: one write lock; a
writer restarts a fully backfilled WAL when no reader uses it; a read
transaction begun over a fully backfilled WAL (mark 0) is no such reader; a
checkpointer copies up to the oldest read mark; TRUNCATE empties the file when
nobody is in its way. A transaction may spill one frame before it commits. The
set of pages is fixed.

`ReadFrames`, `PageMap`, `ResumeFrameThere`, `FrameSaltsUntil` are `WalReader`.
Its cumulative checksum is abstracted: a frame is accepted exactly when it
follows frames of its own generation.

### Writer

`pc` is the next step of a push; each step is one action, so that the
application and the device may act between any two of them.

| Action | Code |
|---|---|
| `Open`, `Close` | `Writer::open`, drop or process death at any step |
| `ResetLocal`, `ResetFails` | `reset_local`, which may stop at the write of verified-pos or half-way through the removal of the L0 files |
| `PushStart` | `push_with` up to the first `verify_and_sync` |
| `Verify` (`VerifyInfo`, `VerifyFails`) | `verify()` |
| `Scan`, `Encode` | the two halves of `sync()`: page map; reading the pages, rename of the L0 file |
| `Decide` | `checkpoint_if_needed`, start of `checkpoint()` |
| `Release`, `Pragma`, `Reacquire`, `WriteSeq`, `Lock` | `exec_checkpoint` and the rest of `checkpoint()`; the pre-copy and the post-copy are `Verify`, `Scan`, `Encode` with `phase` "pre" and "post" |
| `EnsureLineageChecked`, `LineageFails`, `RebaselineFails` | `ensure_lineage_checked`, `rebaseline_from_remote`; the listing or the adoption fails; `clear_l0` stops half-way |
| `UploadDerive`, `UploadListFails`, `UploadPut`, `UploadFails` | `upload()` |
| `PushDone` | `prune_l0` and the return of the push |
| `Cancel` | the cancellation checks |
| `AppCommit`, `AppSpill`, `AppCommitSpilled`, `AppRollback`, `AppCheckpoint` | the application |
| `Legacy`, `ForeignPush`, `Wipe`, `TakeBackup`, `RestoreBackup` | an older meta directory, another writer, a wiped bucket, a restored device |

`l0` and `bucket` map TXIDs to files; a file keeps the WAL offset, size and
salts of its header and the pages in it. `RestoreImage(t)` is what a restore to
TXID `t` gives. `floor` and `acked` are ghosts: the state that the running push
has to cover, and the one that the last successful push covered.

`cached_pos` is the newest TXID of `l0` but for one case: a `clear_l0` that
failed (`HalfCleared`) may have removed the file of the cached position. `st.stale`
says so; every push then fails in `verify()` with `LocalLtx`, until the host calls
`reset_local` again or opens the writer anew.

Simplifications. Offsets count frames. The meta tables exist from the start.
`write_sync_state`, which is advisory, happens with the rename. Another writer
acts on the bucket only between two sessions of this one: the library's contract
is one writer per bucket at a time.

`Races` names two windows in which the application may be kept from
committing. Both are real and lead to disagreements listed below; the other runs exclude
them to ask what holds without them. `Budgets` is a set of cases, each a bound
on how often every kind of event happens; a behaviour draws on one of them.
`MaxHistory` is the number of committed states with which a push may start.


### Bucket, RestorePlan

A bucket is a set of files; a file is a level, a range of transactions and what
the module that uses it adds (the lineage, a time). `ltx_files`,
`max_ltx_file_info`, `is_contiguous`, `write_ltx_file` are the storage trait as
the directory backend implements it. `calc_restore_plan` is the planner on sets:
the newest snapshot, then the greedy chain. `RestorePlan` is the code's loop:
`Refresh` advances every cursor, `Pick` extends the chain by the best candidate,
`Exhausted` and `Finish` end it.

### Upkeep, Maintenance

`Upkeep` has one action per mutation of the bucket (`Push`, `Merge`,
`PutSnapshot`, `DropL0`, `DropSnapshot`, `DropMerged`, `Wipe`) and leaves open
when they happen; `lost` is the newest snapshot that was deleted. `Maintenance`
is `maintain_with`: `mpc` is where it is, `Due` the intervals, `CompactLevel`
`compact_level_with`, `SnapshotSync` and `SnapshotPut` `snapshot_with`,
`RetainSnapshots`, `Cascade` and `L0Retain` `enforce_retention`, `Delete` one
object of `delete_ltx_files`, `Abandon` an error, a cancelled token, a merge the
compactor refuses or the death of the process. The device is the only writer of
its bucket, so a listing and the mutation it leads to are one step.
`retention_enabled` is on. Page contents are not in this model; the merge of
pages is `MergedImage` in `Replica`.

### Replica, Sharing

`rpc` is the next step of a sync, `s` its locals, `rdb` the database file,
`sidecar` the `-txid` file. A page is the lineage and the transaction that last
wrote it.

| Action | Code |
|---|---|
| `SyncStart` | `sync_with`, the first listing of `incremental_sync` |
| `RestoreList`, `RestorePlanned`, `RestoreOpen`, `RestoreRename`, `RestoreBadImage`, `RestoreSidecar` | `full_restore`: one listing, the plan, one open, the rename, `check_integrity`, the sidecar |
| `L0File`, `L0End` | the loop of `incremental_sync` over its listing |
| `GapList`, `GapFile` | `fill_follow_gap` |
| `ScanList`, `Scanned`, `SaveSidecar` (`Finish`) | `finish_incremental` |
| `Fetch`, `Vanished`, `LockBusy`, `ApplyBegin`, `ApplyEnd` | `apply_ltx_file`, `apply_spooled` |
| `StreamOpen`, `StreamFrame`, `StreamSave`, `StreamMisfit`, `StreamEnd` | `follow` on a live stream |
| `ResetDb`, `ResetSidecar` | `reset` |
| `SyncFails`, `Killed` | any failing call, cancellation; the death of the process |

An application writes any part of its pages in `ApplyBegin` and the rest in
`ApplyEnd`, so a failure can leave every torn image. `Cases` gives the value of
`auto_reset` and bounds each kind of fault. All lineages have the same page size, so the divergence that a changed
page size raises is left out. `high` is a ghost: the newest transaction applied
since the last restore.

### HttpFence

Each member of `Handlers` is a thread in `Mount::handle`; `hpc` is where it is.

| Action | Code |
|---|---|
| `Arrive` | the request is parsed; the advisory fence of `accept_file` |
| `Spool` | `spool_put_body`: the body is complete, or it ended early |
| `TakeGate`, `Fence`, `Compare` | under `write_gate`: `check_fence`, the comparison with a stored file of the same name |
| `Apply`, `BackendFails` | `write_ltx_file`, `delete_ltx_files`, `delete_all` of the backend |
| `CommitLease` | `commit_lease`, the notification, the answer |
| `Expire`, `Restart` | the lease is older than `lease_ttl`; the server starts again |

A failing backend has done nothing, has renamed the file into place (the steps
of `DirReplicaClient` after the rename can fail) or has wiped a part. The bytes of
a file are the writer they come from, the fence sees only positions. `top` is a ghost: the newest TXID that
level 0 has had since the last wipe. The bucket is changed through the mount only;
a local Writer beside remote ones would pass the gate by.

### HttpStream

The device is `Upkeep` behind a `NotifyingClient`: `due` says that it changed the
bucket and has not notified yet. `delete_ltx_files` deletes several files before
it does, `delete_all` removes files in any order. A call that fails after it
changed the bucket never notifies (`MutationFails`, `due` "failed"): what it
stored is noticed with the next change or at the poll interval. A `delete_all`
that failed is called again. `spc` is where the stream is:
`Scan` and `Scanned` are `bucket_max` with the verdict on it (at the preamble, at
the confirmation of a trailing level 0, and at a ping), `Top`, `List`, `Send`,
`RoundEnd`, `CaughtUp` a round of the loop, `Wake` and `PollTick` the two ends of
`Notify::wait`. `Found` is the set of buckets a server may start over. `since` is
a ghost: the lineage of the bucket when the follower asked.

### ReplicaLock, Manager

`FcntlLock` write-locks PENDING, then the SHARED range, with non-blocking calls on
a poll schedule: `TakePending`, `TakeShared`, and `GiveUp` for the deadline, the
token and other errors; `wlock` is what it holds. A reader read-locks PENDING only
while it takes SHARED (`ReaderStarts`, `ReaderEnters`, `ReaderLeaves`).

In `Manager` what is done under an entry's mutex is one step; a notification, a
callback, a push and the wait for a join are steps of their own. `ent[e]` is
`EntryShared`: control, nudge, session token, state, event queue. Tokens are
numbered per entry; `ent[e].cancelled` has those that were cancelled.

| Action | Code |
|---|---|
| `Call`, `Return` | a control call on one entry or on all of them begins; it returns, after the joins if entries end |
| `sleep_entry`, `resume_entry`, `push_or_sync_now`, `signal_shutdown`, `notify_all` | the functions of these names; the notification of the condition variable |
| `Register` | `insert_and_spawn` |
| `Drain`, `EmitReturns`, `EmitPanics` | `drain_events`: taking an event, the callback, its unwinding |
| `wait_for_action`, `Release`, `Tick` | the wait of both workers, the release of a sleeper's Writer, the passing of an interval or a backoff |
| `Working`, `RecordError`, `Settle` | `transition_running` and `record_error` around a round |
| `ensure_writer`, `PushReturns`, `PushCancelled`, `PushCompleted`, `Maintain` | `push_worker` |
| `Build`, `FollowBegins`, `FollowLocks`, `FollowEvents`, `FollowStops`, `FollowFails` | `follow_worker` with the session of `Replica::follow` |

A retry that is armed may come at any time: the length and jitter of a delay
(`retry.rs`) are left out. A storage call may return `Cancelled` with or without
the token being cancelled, which the workers do not tell apart. A process has one
follower, whose replica the readers share (`ManagerAssumption`); entries share no
locks, and the proofs do not use this. The readers are other processes and
`use_file_locks` is on: fcntl locks do not keep out readers of the same process,
and nothing is claimed about those.

### HttpServer

| Action | Code |
|---|---|
| `AcceptStops`, `Accept`, `Spawn`, `Register`, `reap` | `accept_loop`; a handler runs before it is registered |
| `PeerMoves`, `SocketFails` | a read or write on the socket completes, or fails |
| `TakesGate`, `Stores`, `LooksAtStop`, `ServingFails`, `Woken`, `PollEnds`, `Exits` | the handler between two waits for its peer |
| `ShutdownBegins`, `WakeStreams`, `CloseAll`, `JoinAccept`, `DrainClose`, `DrainJoin`, `ShutdownReturns` | `shutdown`, also on drop |

A peer may let its handler wait for ever; only a closed socket ends the wait for
sure. A PUT and a DELETE need the mount's write gate. A chunked body that ends, well
or not, may have bytes left to write (`Ends`), and that write can block on the
peer like any other. A connection comes in once.

## Runs

| Run | Checks | Result |
|---|---|---|
| `writer_checkpoint` | `TypeOK`, `RestoreOrdered`, `AckedDurable`, `CheckpointCaptures` with automatic checkpoints; cases: a crash, a wiped bucket and a lost read lock; a crash and spilled transactions; an application that checkpoints and blocks, and cancelled pushes | holds |
| `writer_lineage` | `RestoreOrdered`, `AckedDurable`, `NoMixture`, `EventuallyReplicated` over sessions with lost answers and failed calls; cases: a foreign writer and `reset_local`; a lost verified-pos and an old meta directory; a crash and a cancelled push | holds |
| `writer_storm` | `BucketContiguous`, `BucketAppendOnly`; cases: restored backups, a foreign writer, a wipe, an old meta directory, checkpoints while closed; a foreign writer, a crash, a cancelled push, a failed call, a lost answer, `reset_local` and a clearing of L0 that stops half-way | holds |
| `restore_plan` | `PlanExact`, `CursorsAgree` on every listing with three transactions | holds |
| `maintenance` | `LevelsContiguous`, `Restorable`, `ChainAboveFloor`, `ImplementsUpkeep` | holds |
| `sharing_race` | `NothingMissing`, `NoFalseDivergence`; cases: a kill at any step, which leaves what a failed sync leaves; a busy lock and a reset; a bad image | holds |
| `sharing_live` | `CatchesUp`; cases: `auto_reset` and a sync that fails anywhere; no `auto_reset` | holds |
| `http_fence` | `NoOverlap`, `NothingBeyond`, `NeverReplaced`, `OwnerExclusive`, `GateServed` | holds |
| `http_stream` | `NoFalseReset`, `Delivers`, `Stops` | holds |
| `http_server` | `DownIsDown`, `ShutdownEnds`, `KeepsAccepting` | holds |
| `manager` | `NoPoison`, `NeverRepainted`, `LastSeenIsStatus`, `NoLostWakeup`, `NoStrandedEvent`, `LocksReleased`, `ApplyExclusive`, `SleepReleases`, `EndReturns`, `LockServed`; a push worker with an interval, or a follower | holds |
| `writer_precopy_race` | `CheckpointCaptures`, a statement of a comment | violated, see Disagreements |

Each module has a type invariant. That of `Writer` is checked by a run and
proved, those of `HttpFence` and `HttpServer` are proved, the others document the
variables.

What the properties say, in short:

- `RestoreOrdered`: every TXID restores a committed state, in commit order.
  `AckedDurable`: what a successful push covered stays restorable.
  `NoMixture`: no TXID restores pages of two databases. `CheckpointCaptures`: the
  writer's checkpoints recycle only frames some L0 file has. `EventuallyReplicated`: when failures
  cease, the bucket restores to the current database from some point on.
- `PlanExact`: a plan is found exactly when the listed files hold the target.
- `ImplementsUpkeep`: nothing maintain does surprises a reader that reckons with
  `Upkeep`. `Restorable` and `ChainAboveFloor` are what readers get from it: the
  latest state can always be planned, and from every position at or above the
  newest deleted snapshot a file of levels 0 to 8 goes on.
- `NothingMissing`: after any interruption the replica lacks no transaction its
  position counts and has none beyond the last file applied, so applying again
  is exact. `NoFalseDivergence`: maintenance never looks like a reseeded bucket.
  `CatchesUp`: nothing stalls a replica in silence.
- `NeverReplaced`, `NoOverlap`: level 0 holds no TXID twice and none of its files
  is overwritten with other bytes, whatever pushes, deletions and wipes race.
  `NothingBeyond`: the levels above are never ahead of what level 0 has had since
  the last wipe. That is as far as the fence goes: it compares positions, not
  lineages, so a snapshot spooled before a wipe is accepted once the new level 0 has
  come as far and no lease stands in its way. `OwnerExclusive`: a young lease keeps every
  other identified writer out, even one whose request began before it.
  `GateServed`: a client that stalls in its body blocks nobody.
- `NoFalseReset`: a follower is told to start over only after a wipe.
  `Delivers`, `Stops`: pushes arrive and a shutdown takes effect without the help
  of the poll interval, which only a file stored by a call that failed depends on.
- `DownIsDown`, `ShutdownEnds`: shutdown returns although peers stall, and leaves
  no thread behind. `KeepsAccepting`: no stalled peer holds up the accept loop.
- `NoPoison`: a running entry has a live token, and a round that still runs with a
  cancelled one cannot end in a park. `NeverRepainted`, `LastSeenIsStatus`: the
  state follows the control calls, and the observer saw last what `status` says.
  `NoLostWakeup`, `NoStrandedEvent`: nobody sleeps on something to do, and no
  event stays queued with everyone gone. `SleepReleases`, `EndReturns`: sleep lets
  go of the Writer and the locks, unregister and shutdown return, whatever the
  storage and the readers do. `ApplyExclusive`, `LocksReleased`, `LockServed`: no
  reader sees a half-applied file, none is locked out for good, and readers that
  come and go do not starve the applier.

### Bounds

- Writer: one application page (two where transactions spill) and the
  `_litestream_seq` page, one to three application commits. The checkpoint
  hazards need a resume point, a commit in the window and a restarted WAL, which
  three commits give. Events are kept apart in cases where their union repeats a
  disagreement listed below: an application checkpoint and then a crash is
  `WriterClosedCheckpoint`, a foreign writer and a directory without
  verified-pos is `WriterReseed`, a lost answer and then a checkpoint of the
  writer `WriterLostAck`: so lost answers and failed uploads are in
  `writer_lineage`, which has no checkpoints, and checkpoints in
  `writer_checkpoint`, where uploads succeed. A clearing of the L0 files that stops
  half-way is in `writer_storm` only: what follows it is up to the host, which has
  to call `reset_local` again, so no liveness is claimed. `writer_storm` has two
  cases, not the union of all events; the theorems `BucketIsContiguous` and
  `WriterOnlyAppends` have no budgets.
- `SNAPSHOT_LEVEL` is 9 in the code; here 3 (levels 0, 1, 2 and snapshots: one
  level that merges from level 0 and one that merges from a merged level) or 2
  in `Sharing` and `HttpFence`, where a second merged level would only repeat the
  first. The proofs are for any number from 2 on.
- Three or four transactions: a hole needs three, a floor with a file
  below it four. Time in `Maintenance` counts to 3 with intervals of 1, a
  retention of 1 and a snapshot interval of 3: levels become due separately
  and snapshots expire.
- `Sharing`: three transactions that write both pages, one, the other; faults
  one of a kind. `sharing_live` has two transactions and two lineages, the fewest
  with which a reseeded bucket can end below the position.
- `HttpFence`: two handlers, two writers that claim the same TXIDs, five requests
  and two failures, expiries or restarts: a request overtaken by a second one
  that is itself answered, a wipe in between, and a retry need four.
- `HttpServer`: two connections and two calls of shutdown: one connection that is
  registered after the close pass beside one that holds the write gate. Three
  connections hold too and take longer.
- `Manager`: one database, two threads of the host with two calls between them,
  one reader of the follower's replica, one callback that panics (beside a push
  worker; a follower delivers its events in the same way, between two sessions),
  one event queued behind a slow callback:
  a call that overtakes another one, and a worker in the way of both. The proofs
  have no such bounds.
- `HttpStream`: three transactions and two lineages (a reset needs a follower at
  2 and a new lineage at 1), a new bucket or one in the middle of retention, three
  mutations, one failing call.

### Fairness

`writer_lineage` assumes weak fairness of `Open`, `PushStart` and the steps of a
push: the host opens the writer and pushes again and again, as the Manager's
push worker does on its interval. `sharing_live` assumes weak
fairness of the steps of a sync and of starting one: the host calls `sync` again
and again, as `follow` does. Faults, the application, maintenance and the opening
and closing of streams are not fair. `RestorePlan` is a sequential loop.
`http_fence` assumes that the threads of handlers run, but not that a client ever
finishes its body (`Spool`). `http_stream` assumes that the stream's thread runs
and its peer reads, that a mutation is followed by its notification, which is the
next statement, and that a shutdown that cancelled goes on to wake; the poll
timeout (`PollTick`) is fair only after a mutation whose call failed, so nothing
else is shown by waiting for it.
`http_server` assumes that the accept loop, the handlers between two waits for
their peers and the call of shutdown run; nothing of peers, socket timeouts and
the poll interval. `manager` assumes weak fairness of every thread, which includes
that callbacks return, that a cancelled call on the storage returns (the contract
of `CancelToken`) and that a reader that holds PENDING goes on to SHARED, which is
the next thing SQLite does; and strong fairness of taking PENDING, which is polled
and free for a moment again and again. Storage that is not cancelled, the clock
and a reader's transaction are not fair.

## Disagreements with the documentation

The run `writer_precopy_race` finds a commit between the pre-copy and the PRAGMA
recycled uncaptured; PROJECT.json has the quotation. Fourteen more have a
configuration here whose property TLC finds violated (the module is `MCWriter`,
`MCMaintenance`, `MCSharing` or `MCManager`):

| Configuration | The code | The statement |
|---|---|---|
| `WriterClosedCheckpoint.cfg` | a commit checkpointed while the writer is closed is in no L0 file when the new WAL generation is shorter than the old resume point: the resume frame is still there and `verify()` continues incrementally (`verify.rs:177`) | `README.md:133-136`: such a checkpoint "restarts the WAL and forces the next push to upload a full snapshot" |
| `WriterLostAck.cfg` | after a lost answer for the first file of a backlog that spans a checkpoint, the rebaseline adopts that file, and the rest of the backlog is missing from the chain | `writer.rs:586-589`: a lost answer "costs one spurious rebaseline+snapshot ... never a correctness issue" |
| `WriterReadMark.cfg` | a read transaction over a fully backfilled WAL does not pin it; mapped frames are overwritten before they are read | `sqlite.rs:75-77`: "no checkpointer (in any process) can restart or truncate the WAL past our read mark while it is held" |
| `WriterBackup.cfg` | on a device set back to a backup the adopted header can describe its own WAL, and the snapshot resumes at that offset | `writer.rs:696-698`: the header describes "a WAL this device never had" |
| `WriterReseed.cfg` | a bucket reseeded to the verified TXID passes the lineage check, which compares numbers | `writer.rs:742-743`: "A passing check proves the bucket's contents ... came from this lineage" |
| `MaintenanceWedge.cfg` | with a snapshot retention shorter than a level interval (`compaction.rs:351`) files of level 1 are deleted before level 2 has merged them, and level 2 goes on with a hole | `tests/maintenance_oracle.rs:89-90`: "Every compaction level (1..8) must hold sorted, contiguous, non-overlapping TXID ranges" |
| `SharingTornOk.cfg` | after an application that failed half-way, a sync whose file was deleted since the listing (`replica.rs:506`) returns Ok over the torn image | `replica.rs:169-170`: "a torn apply is healed by re-apply anyway" |
| `SharingBusy.cfg` | the lock is taken per file: busy at the second file, the first has been applied | `error.rs:52-53`: "Nothing was written" |
| `SharingReseed.cfg` | a reseeded bucket that has reached the position is followed | `README.md:49-50`: "a reseeded bucket is detected rather than silently followed" |
| `SharingSidecar.cfg` | killed between the rename of a restored image and its sidecar, after a divergence, the process leaves an image older than the position; once the bucket passes that, transactions are skipped for good (a bucket of level 0 files only, `OnlyPushes`: the counterexample is long) | `replica.rs:227`: "a killed follower resumes exactly where it stopped" |
| `SharingBadImage.cfg` | the integrity check runs after the rename; when it fails the only replica is gone | `replica.rs:205-207`: "a failed restore leaves the old replica readable" |
| `ManagerSession.cfg` | a sleep and a resume while a push is in flight: the worker never passes the release, and the next round uses the Writer, and the client, of the old session | `manager.rs:72-73`: clients "are never reused across sleep/resume" |
| `ManagerOverlap.cfg` | unregister takes the entry out of the registry before its worker has exited, so the same path can be registered again beside it | `manager.rs:1-2`: "one background worker thread per registered database" |
| `ManagerPanic.cfg` | a callback that panics in `sleep` unwinds before the notification; a parked worker keeps its Writer | `manager.rs:601-603`: "the worker drops its Writer ... and parks" |

## Proofs

`WriterProofs` proves, for all pages, options, budgets and bounds:

- `TypeCorrect`: `Spec => []TypeOK`. `TypeOK` is not inductive: that the
  encoder reads existing frames depends on what was mapped, on the read mark and
  on who holds the write lock at each `pc`. `TypeInv` adds those facts.
- `BucketIsContiguous`: `Spec => []BucketContiguous`. The invariant `BucketInv`
  adds that the remote position the writer keeps between `UploadDerive` and the
  last PUT (`remote`) is the newest TXID of the bucket while the writer is open,
  which nobody else changes during a session; a PUT of `remote + 1` then extends
  the bucket by one.
- `WriterOnlyAppends`: `Spec => BucketAppendOnly`, every step of the writer adds
  the next file from its own L0 directory or leaves the bucket alone, from the
  same invariant.

Among its lemmas are those about SQLite's steps: each keeps the WAL and its
counters well formed. Assumptions: `PagesAssumption` and those `Writer` states
on its options.

`BucketProofs` is about sets of files. `ChainUnfolds`, `ChainIs` and
`ChainCovers` say what the planner's recursive chain is: contiguous, and as long
as the files allow. `Sound(F, h, lo)` is what a device keeps of its bucket: level
0 is a run of single transactions up to the head `h`; what level 0 no longer has,
level 1 covers from the newest deleted snapshot `lo` on; the files of a merged
level do not overlap; and a snapshot reaches `lo`. A sound bucket restores (`SoundRestores`) and goes on from
every position at or above `lo` (`SoundGoesOn`).

`RestoreProofs` proves, for every listing, target and number of levels:

- `CursorsComputeThePlan`: `Spec => []CursorsAgree`. A cursor reads its level once
  and remembers one file. `CursorOK` says of every file it has passed that it is
  stale, beyond the target or worse than the candidate, and `Refreshedness` that
  after a refresh the files it has not passed start out of reach; the best
  candidate of all levels is then the best extension in the whole bucket, which
  is what `calc_restore_plan` of `Bucket` takes.
- `GreedyPlanIsExact`: `Spec => []PlanExact`. If the chain stops short of a target
  that the listed files cover, the file that holds the next transaction extends it.

`MaintenanceProofs`, and `UpkeepProofs` for the refinement, prove, for every number
of levels, any intervals and retentions, pushes at any time and any number of interrupted calls:

- `AlwaysRestorable`, `ChainAlwaysAboveFloor`: `Restorable` and `ChainAboveFloor`
  from `MaintInv`: the bucket is sound, and what is being deleted (`doomed`, a set
  that was chosen from a listing and goes file by file) is a front of its level
  with a file left behind it, whose content is in level 1 or below the floor
  (`DoomedIn`). A call that stops between two deletions leaves a sound bucket.
- `LevelsStayContiguous`: `LevelsContiguous`, if `IntervalsFit`: no level interval
  exceeds the snapshot retention, which the default options satisfy. Without it
  the statement is false (`MaintenanceWedge.cfg`, below). `TidyInv` adds that each
  level is continued by the level below it (`Stacked`) and that a level the
  current call has passed has caught up with every snapshot that is old enough to
  be deleted (`PastOK`), which is where the intervals come in; the floor is then
  below the end of every level (`FloorLow`), and the cascade opens no hole.
- `MaintenanceImplementsUpkeep`: `MaintSpec => ImplementsUpkeep`. Each step, with
  `MaintInv`, is a step of `Upkeep` on the files without their times, or none. The
  guards of `Upkeep`, that a deleted level 0 file is in level 1, that a deleted
  merged file is below `lost`, come from `DoomedIn`.

`SharingProofs` proves, for every number of levels and pages, every history of
writes and all faults, while the bucket has its first lineage:

- `ReplicaLacksNothing` (`NothingMissing`) and `DivergenceIsReal`
  (`NoFalseDivergence`), from `SharingInv`. Its parts: the device has only files of
  one history and keeps the head in level 0 (`DeviceOK`); what a sync has listed,
  fetched and planned are such files, whether or not they still exist, the next
  one continues the position, and a restore's plan is a chain that reaches at
  least the old position (`LocalsOK`); every page is as new as the position and at
  most as new as the newest file of which a part was applied (`ContentOK`).
  `finish_incremental` lists level 0 last, so the newest transaction it sees is
  not behind the replica; `ImageIs` is the fact that a chain of files applied to
  nothing is the state where the chain ends.

`HttpProofs` proves `NoOverlap`, `NothingBeyond`, `NeverReplaced`,
`OwnerExclusive` and `FenceTypeOK` for any handlers, writers, requests and numbers
of failures. `NothingBeyond` bounds TXIDs and says nothing of the lineage they
belong to. The invariant `FenceIInv` says where handlers are and that the holder of the
write gate is the one past it (`HandlersInv`), what is stored (`BucketInv`: one
file per key, nothing newer than `top`, no overlap in level 0), the type of the
lease (`LeaseInv`), and what a handler past a check may rely on: `Fenced`, that
what `check_fence` found is still so, and `Compared`, that a stored file of the
same name has the same bytes. The last two carry the proof: check and use are
steps apart, and nobody but the holder of the gate changes the bucket in between.

It also proves `NoFalseReset` of `HttpStream`, for any number of levels, transactions,
lineages and failures. `bucket_max` lists one level after the other while files
move between levels, so a maximum over levels can be one the bucket never had.
The argument is that level 0 comes first and always has the head, because
retention keeps its newest file (`DeviceInv`); so from the first listing on the
maximum is no less than what the follower has (`ScanInv`), whose cursor is at most
one past the head of its lineage (`CursorInv`). Assumed of the buckets a server is
started over (`Found`): what a device leaves, `Kept`, checked by TLC for those of
the run.

And it proves `DownIsDown` of `HttpServer` for any connections. `NoOrphan` is the
heart: a handler that runs is registered, in the hand of an accept loop that has
not exited, or being joined.

`ManagerProofs` proves seven invariants for any entries, threads of the host,
readers and bounds, each layer on the one before:

- `ApplyIsExclusive` from `LockInv`: which ranges are locked at each `apc`, and
  where readers can be then.
- `LocksAreReleased` from `ThreadInv`: at which places a worker or a caller can
  be, and that a session exists only in the follower's `follow`.
- `NoPoisonedSession` and `StateFollowsControl` from `EntryInv`: only tokens of
  sessions that have begun are cancelled, a running entry's own is not, and the
  state agrees with the control (`EntryOK`); a round with an old token has a nudge
  behind it (`TokenOK`); a worker without a token has not been in a round (`Fresh`).
- `WakeupsArrive` from `WakeInv` and `CallInv`: who changed what a parked worker
  waits for is still on the way to `notify_all`; a parked worker read the entry
  under the same mutex.
- `EventsAreDelivered` from `EventInv`: `emitting` is set exactly while one thread
  is in the callback, and queued events have a thread that will look again.
- `LastStateSeen` (`LastSeenIsStatus`) from `ToldInv`: the state of an entry is
  the last one queued, or the one being delivered, or the last one told; between
  a resume and the round it asks for, the observer's last is Sleeping.

A callback that panics is excluded in `WakeupsArrive` and `EventsAreDelivered`, as
in the properties.

Only model-checked: liveness and `ENABLED`, which are out of the prover's reach
(`EventuallyReplicated`, `CatchesUp`, `GateServed`, `Delivers`, `Stops`,
`ShutdownEnds`, `KeepsAccepting`, `SleepReleases`, `EndReturns`, `LockServed`); and
of the writer `RestoreOrdered`, `AckedDurable`, `NoMixture` and
`CheckpointCaptures`, which relate the image that a chain of files restores to
the frames of a WAL that is restarted and checkpointed meanwhile. Where a proof
needs induction over data (the greedy chain, the image of a chain, the last write
of a page) it takes a least counterexample, with `LeastNatural` and
`GreatestNatural` of `BucketProofs`, as the induction rules of the library have an
operator as a parameter and cannot be used.

A leaf that cites `SMTT(20), SMTT(30)` is tried a second time if the first attempt
fails: translating its obligation takes seconds, and `tlapm` gives up on a
translation after five, whatever the solver's limit.

## Not modelled

- HTTP client and transport: wire format; its errors (a lost answer, a failed
  listing) are events of `Writer` and of a sync.
- S3 client: a translation of the storage trait to an external service.
- LTX byte format, checksums and compression: data, tested against the Go
  implementation. The page merge of the compactor is `MergedImage` in `Replica`.
- FFI conversions.
- The lengths of delays: intervals, backoff and its jitter, poll schedules, socket
  timeouts. Each may end at any time or, where nothing depends on it, never.
