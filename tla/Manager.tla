------------------------------ MODULE Manager ------------------------------
(***************************************************************************)
(* The multi-database manager, crates/liters/src/manager.rs: one worker    *)
(* thread per registration that pushes or follows a bucket, the threads of *)
(* the host that put databases to sleep, resume, nudge, register and       *)
(* remove them, and the observer that is told about it.                    *)
(*                                                                         *)
(* Everything done under an entry's mutex is one step; a notification of   *)
(* its condition variable, a callback, a push and the wait for a join are  *)
(* steps of their own.  What a push or a follow session does to the bucket *)
(* is in Writer and Sharing; here it ends in one of its outcomes.  A       *)
(* follow session takes the locks of module ReplicaLock.                   *)
(***************************************************************************)
EXTENDS ReplicaLock, Sequences, FiniteSets

CONSTANTS
    Entries,   \* registrations, each with the worker thread it starts
    Callers,   \* threads of the host
    Kinds,     \* what the entries can be: functions to "interval", "manual" or "follow"
    Path,      \* the canonical database path of an entry
    MaxCalls,  \* bound: control calls
    MaxQueue,  \* bound: events queued behind a slow callback
    MaxPanics  \* bound: callbacks that panic, for each of Kinds

Threads == Entries \cup Callers

ASSUME ManagerAssumption ==
    /\ Entries \cap Callers = {}
    /\ MaxCalls \in Nat /\ MaxQueue \in Nat /\ MaxPanics \in [Kinds -> Nat]
    /\ \A k \in Kinds : /\ k \in [Entries -> {"interval", "manual", "follow"}]
                        /\ \A d, e \in Entries : k[d] = "follow" /\ k[e] = "follow" => d = e

VARIABLES
    kind,      \* the entries' configurations
    registry,  \* ManagerShared::entries
    ent,       \* EntryShared of every entry
    pc, ret,   \* where each thread is, and where it goes after drain_events
    ev,        \* the event a thread is delivering
    tok,       \* the session token of a worker's round
    writer,    \* the session a worker's Writer was built for, or 0
    due,       \* when a worker's next round is due
    call,      \* the call a thread of the host is in
    seen,      \* the last state the observer was told (ghost)
    calls, panics

workerVars == <<tok, writer, due>>
vars == <<kind, registry, ent, pc, ret, ev, workerVars, call, seen, calls, panics, lockVars>>

DbState == {"Idle", "Working", "BackingOff", "Sleeping", "Failed"}

NoEvent == "none"
NoCall == [op |-> "none", todo |-> {}, took |-> {}, cur |-> {}]

Goto(t, where) == pc' = [pc EXCEPT ![t] = where]

\* drain_events is called: go there now, to where afterwards.
DrainThen(t, where) == Goto(t, "drain") /\ ret' = [ret EXCEPT ![t] = where]

----------------------------------------------------------------------------
(* Entry *)

NewEntry ==
    [ctrl |-> "Running", nudged |-> FALSE, session |-> 1, cancelled |-> {}, state |-> "Idle",
     pending |-> <<>>, emitting |-> FALSE]

Cancelled(e, token) == token \in ent[e].cancelled

\* Mutant: a worker that is late repaints an entry that was put to sleep.
TransitionAlways(s, new) ==
    IF s.state = new THEN s ELSE [s EXCEPT !.state = new, !.pending = Append(@, new)]

\* Entry::transition_running.  Two BackingOff states differ in their deadline.
transition_running(s, new) ==
    IF s.ctrl # "Running" \/ (s.state = new /\ new # "BackingOff")
      THEN s
      ELSE [s EXCEPT !.state = new, !.pending = Append(@, new)]

\* Entry::record_error, and the event of a completed push: not a state.
Report(s, event) == [s EXCEPT !.pending = Append(@, event)]

\* Bound: a worker does not run ahead of a callback without limit.
Room(e) ==
    \/ Len(ent[e].pending) < MaxQueue
    \/ \A c \in Callers : call[c].cur = {e} => pc[c] \notin {"drain", "emit"}

----------------------------------------------------------------------------
(* drain_events, by the worker of e or by a thread of the host *)

Drains(t, e) == t = e \/ (t \in Callers /\ call[t].cur = {e})

\* Mutant: a second thread delivers beside the first.
LeaveIfEmpty(s) == s.pending = <<>>

\* Another thread delivers, or nothing is queued.
Leave(s) == s.emitting \/ s.pending = <<>>

\* Under the lock: take the oldest event, or return.
Drain(t, e) ==
    /\ pc[t] = "drain" /\ Drains(t, e)
    /\ IF Leave(ent[e])
         THEN Goto(t, ret[t]) /\ ret' = [ret EXCEPT ![t] = "wait"] /\ UNCHANGED <<ent, ev>>
         ELSE /\ ent' = [ent EXCEPT ![e].pending = Tail(@), ![e].emitting = TRUE]
              /\ ev' = [ev EXCEPT ![t] = Head(ent[e].pending)]
              /\ Goto(t, "emit")
              /\ UNCHANGED ret
    /\ UNCHANGED <<kind, registry, workerVars, call, seen, calls, panics, lockVars>>

\* The observer has the event and the flag is cleared, on unwind too.
Emitted(t, e) ==
    /\ pc[t] = "emit" /\ Drains(t, e)
    /\ seen' = [seen EXCEPT ![e] = IF ev[t] \in DbState THEN ev[t] ELSE @]
    /\ ent' = [ent EXCEPT ![e].emitting = FALSE]
    /\ ev' = [ev EXCEPT ![t] = NoEvent]

\* Mutant: each thread delivers one event.
EmitsOne(t, e) ==
    /\ Emitted(t, e) /\ Goto(t, ret[t])
    /\ UNCHANGED <<kind, registry, ret, workerVars, call, calls, panics, lockVars>>

\* The callback returns: look for what was queued meanwhile.
EmitReturns(t, e) ==
    /\ Emitted(t, e) /\ Goto(t, "drain")
    /\ UNCHANGED <<kind, registry, ret, workerVars, call, calls, panics, lockVars>>

\* The callback panics: the worker's thread, or the host's call, unwinds.
EmitPanics(t, e) ==
    /\ panics < MaxPanics[kind] /\ panics' = panics + 1
    /\ Emitted(t, e) /\ Goto(t, IF t = e THEN "exited" ELSE "idle")
    /\ writer' = IF t = e THEN [writer EXCEPT ![e] = 0] ELSE writer
    /\ call' = IF t = e THEN call ELSE [call EXCEPT ![t] = NoCall]
    /\ UNCHANGED <<kind, registry, ret, tok, due, calls, lockVars>>

----------------------------------------------------------------------------
(* The host's calls *)

\* A call on some entries it found in the registry: all of them, or one.
Call(c) ==
    /\ pc[c] = "idle" /\ calls < MaxCalls /\ calls' = calls + 1
    /\ \E S \in {{e} : e \in registry} \cup {registry}, op \in {"sleep", "resume", "now", "end"} :
         /\ S # {} /\ (op = "now" => Cardinality(S) = 1)
         /\ call' = [call EXCEPT ![c] = [op |-> op, todo |-> S, cur |-> {},
                                        took |-> IF op = "end" THEN S ELSE {}]]
         \* unregister and shutdown take the entries out first.
         /\ registry' = IF op = "end" THEN registry \ S ELSE registry
    /\ Goto(c, "call")
    /\ UNCHANGED <<kind, ent, ret, ev, workerVars, seen, panics, lockVars>>

\* insert_and_spawn, under the registry's lock.
Register(e) ==
    /\ pc[e] = "unborn"
    /\ \A d \in registry : Path[d] # Path[e]
    /\ registry' = registry \cup {e}
    /\ Goto(e, "wait")
    /\ UNCHANGED <<kind, ent, ret, ev, workerVars, call, seen, calls, panics, lockVars>>

\* The call turns to one of its entries, with the entry's lock.
On(c, e, op) == pc[c] = "call" /\ call[c].op = op /\ e \in call[c].todo

\* Done with an entry, or with its mutation only.
Next1(c, e) == call' = [call EXCEPT ![c].todo = @ \ {e}, ![c].cur = {}]
Turn(c, e)  == call' = [call EXCEPT ![c].todo = @ \ {e}, ![c].cur = {e}]
CallOnly == UNCHANGED <<kind, registry, workerVars, seen, calls, panics, lockVars>>

\* Mutant: the session token is left alone.
SleptUncancelled(s) == Report([s EXCEPT !.ctrl = "Sleeping", !.state = "Sleeping"], "Sleeping")

\* Asleep: the session is cancelled.
Slept(s) ==
    Report([s EXCEPT !.ctrl = "Sleeping", !.state = "Sleeping", !.cancelled = @ \cup {s.session}],
           "Sleeping")

\* Mutant: only a sleeper is left alone, an entry that is shut down is not.
AsleepAlready(s) == s.ctrl = "Sleeping"

\* Neither a sleeper nor an entry that is shut down is put to sleep.
SleepIgnored(s) == s.ctrl # "Running"

\* Manager::sleep_entry: the events are delivered before the worker is notified.
sleep_entry(c, e) ==
    /\ On(c, e, "sleep")
    /\ IF SleepIgnored(ent[e])
         THEN Next1(c, e) /\ UNCHANGED <<ent, pc, ret>>
         ELSE /\ ent' = [ent EXCEPT ![e] = Slept(@)]
              /\ Turn(c, e) /\ DrainThen(c, "notify")
    /\ UNCHANGED ev /\ CallOnly

\* Mutant: the token of the session that was put to sleep is used again.
ResumeOldToken(s) == [s EXCEPT !.ctrl = "Running", !.nudged = TRUE, !.state = "Idle"]

\* A sleeper gets a fresh token and an immediate round.
Resumed(s) == [s EXCEPT !.ctrl = "Running", !.session = @ + 1, !.nudged = TRUE, !.state = "Idle"]

\* Manager::resume_entry; on a worker that failed it is a nudge.
resume_entry(c, e) ==
    /\ On(c, e, "resume")
    /\ \/ /\ ent[e].ctrl = "Sleeping"
          /\ ent' = [ent EXCEPT ![e] = Resumed(@)]
          /\ Turn(c, e) /\ Goto(c, "notify")
       \/ /\ ent[e].ctrl = "Running" /\ ent[e].state = "Failed"
          /\ ent' = [ent EXCEPT ![e].nudged = TRUE]
          /\ Turn(c, e) /\ Goto(c, "notify")
       \/ /\ ent[e].ctrl = "Shutdown" \/ (ent[e].ctrl = "Running" /\ ent[e].state # "Failed")
          /\ Next1(c, e) /\ UNCHANGED <<ent, pc>>
    /\ UNCHANGED <<ret, ev>> /\ CallOnly

\* push_now asks for a round; sync_now also ends the session that runs.
Nudged(s, swap) ==
    IF swap THEN [s EXCEPT !.cancelled = @ \cup {s.session}, !.session = @ + 1, !.nudged = TRUE]
            ELSE [s EXCEPT !.nudged = TRUE]

\* Manager::push_now and Manager::sync_now.
push_or_sync_now(c, e) ==
    /\ On(c, e, "now")
    /\ IF ent[e].ctrl # "Running"
         THEN Next1(c, e) /\ UNCHANGED <<ent, pc>>
         ELSE /\ ent' = [ent EXCEPT ![e] = Nudged(@, kind[e] = "follow")]
              /\ Turn(c, e) /\ Goto(c, "notify")
    /\ UNCHANGED <<ret, ev>> /\ CallOnly

signal_shutdown(c, e) ==
    /\ On(c, e, "end")
    /\ ent' = [ent EXCEPT ![e].ctrl = "Shutdown", ![e].cancelled = @ \cup {ent[e].session}]
    /\ Turn(c, e) /\ Goto(c, "notify")
    /\ UNCHANGED <<ret, ev>> /\ CallOnly

\* Condvar::notify_all wakes the worker if it waits.
notify_all(c) ==
    /\ pc[c] = "notify"
    /\ pc' = [t \in Threads |-> IF t = c THEN "call"
                                ELSE IF t \in call[c].cur /\ pc[t] \in {"parked", "timed"} THEN "wait"
                                ELSE pc[t]]
    /\ call' = [call EXCEPT ![c].cur = {}]
    /\ UNCHANGED <<ent, ret, ev>> /\ CallOnly

\* Every entry has been dealt with; an ended one is joined.
Return(c) ==
    /\ pc[c] = "call" /\ call[c].todo = {}
    /\ \A e \in call[c].took : pc[e] = "exited"
    /\ Goto(c, "idle") /\ call' = [call EXCEPT ![c] = NoCall]
    /\ UNCHANGED <<ent, ret, ev>> /\ CallOnly

----------------------------------------------------------------------------
(* Both workers: the wait, and the ends of a round *)

WorkerOnly == UNCHANGED <<kind, registry, call, seen, calls, panics>>
AlsoKeeps == UNCHANGED <<ev, lockVars>>

\* When the next round is due, an armed retry aside.
Scheduled(e) ==
    CASE kind[e] = "interval" -> "at" [] kind[e] = "manual" -> "never" [] kind[e] = "follow" -> "now"

\* A nudge beats the park of a worker that failed, which beats the schedule.
RoundIsDue(s, d) == s.nudged \/ (s.state # "Failed" /\ d = "now")

\* Mutant: a sleeper parks with its Writer.
ParkAtOnce(e) == "parked"

\* A sleeper releases its Writer before it parks.
ParkOrRelease(e) == IF writer[e] # 0 THEN "release" ELSE "parked"

\* wait_for_action, under the lock: shutdown beats everything, then sleep.  A
\* round runs with the token the session has now.
wait_for_action(e) ==
    /\ pc[e] = "wait"
    /\ \/ /\ ent[e].ctrl = "Shutdown"
          /\ Goto(e, "exited") /\ writer' = [writer EXCEPT ![e] = 0]
          /\ UNCHANGED <<ent, tok, due>>
       \/ /\ ent[e].ctrl = "Sleeping"
          /\ Goto(e, ParkOrRelease(e))
          /\ UNCHANGED <<ent, workerVars>>
       \/ /\ ent[e].ctrl = "Running" /\ RoundIsDue(ent[e], due[e])
          /\ ent' = [ent EXCEPT ![e].nudged = FALSE]
          /\ tok' = [tok EXCEPT ![e] = ent[e].session]
          /\ due' = [due EXCEPT ![e] = Scheduled(e)]
          /\ Goto(e, IF kind[e] = "follow" THEN "build" ELSE "working")
          /\ UNCHANGED writer
       \/ /\ ent[e].ctrl = "Running" /\ ~RoundIsDue(ent[e], due[e])
          /\ Goto(e, IF ent[e].state # "Failed" /\ due[e] = "at" THEN "timed" ELSE "parked")
          /\ UNCHANGED <<ent, workerVars>>
    /\ UNCHANGED ret /\ AlsoKeeps /\ WorkerOnly

\* The Writer of a sleeper is dropped, outside the lock.
Release(e) ==
    /\ pc[e] = "release" /\ Goto(e, "wait")
    /\ writer' = [writer EXCEPT ![e] = 0]
    /\ UNCHANGED <<ent, ret, tok, due>> /\ AlsoKeeps /\ WorkerOnly

\* The interval or the backoff is over.
Tick(e) ==
    /\ due[e] = "at" /\ pc[e] \in {"wait", "parked", "timed"}
    /\ due' = [due EXCEPT ![e] = "now"]
    /\ Goto(e, IF pc[e] = "timed" THEN "wait" ELSE pc[e])
    /\ UNCHANGED <<ent, ret, tok, writer>> /\ AlsoKeeps /\ WorkerOnly

\* The round failed, passing or for good: the error is recorded first.
Failing(e, verdict) == Goto(e, "error") /\ ret' = [ret EXCEPT ![e] = verdict]

RecordError(e) ==
    /\ pc[e] = "error" /\ Room(e)
    /\ ent' = [ent EXCEPT ![e] = Report(@, "Error")]
    /\ IF ret[e] \in DbState THEN Goto(e, "settle") ELSE Goto(e, "drain")
    /\ UNCHANGED <<ret, workerVars>> /\ AlsoKeeps /\ WorkerOnly

\* The transition that ends the round; a passing failure arms the retry.
Settle(e) ==
    /\ pc[e] \in {"settle", "rest"} /\ Room(e)
    /\ LET new == IF pc[e] = "rest" THEN "Idle" ELSE ret[e]
       IN /\ ent' = [ent EXCEPT ![e] = transition_running(@, new)]
          /\ due' = [due EXCEPT ![e] = IF new = "BackingOff" THEN "at" ELSE @]
    /\ DrainThen(e, "wait")
    /\ UNCHANGED <<tok, writer>> /\ AlsoKeeps /\ WorkerOnly

\* The transition that begins the work, then on to the push or the session.
Working(e) ==
    /\ pc[e] = "working" /\ Room(e)
    /\ ent' = [ent EXCEPT ![e] = transition_running(@, "Working")]
    /\ DrainThen(e, IF kind[e] = "follow" THEN "follow" ELSE "open")
    /\ UNCHANGED workerVars /\ AlsoKeeps /\ WorkerOnly

----------------------------------------------------------------------------
(* push_worker *)

\* ensure_writer: a Writer that is there is used, or one is built, or fails to.
\* A storage that says Cancelled by itself ends the round without a report.
ensure_writer(e) ==
    /\ pc[e] = "open"
    /\ \/ /\ writer' = [writer EXCEPT ![e] = IF @ = 0 THEN tok[e] ELSE @]
          /\ Goto(e, "push") /\ UNCHANGED ret
       \/ /\ writer[e] = 0
          /\ \E verdict \in {"BackingOff", "Failed"} : Failing(e, verdict)
          /\ UNCHANGED writer
       \/ /\ writer[e] = 0
          /\ Goto(e, "wait") /\ UNCHANGED <<ret, writer>>
    /\ UNCHANGED <<ent, tok, due>> /\ AlsoKeeps /\ WorkerOnly

\* push_with or maintain_with returns Cancelled: nothing is reported.
PushCancelled(e) ==
    /\ pc[e] \in {"push", "maintain"} /\ Cancelled(e, tok[e])
    /\ Goto(e, IF pc[e] = "push" THEN "wait" ELSE "rest")
    /\ UNCHANGED <<ent, ret, workerVars>> /\ AlsoKeeps /\ WorkerOnly

\* push_with returns, whatever the token is by now; the storage may also say
\* Cancelled by itself.
PushReturns(e) ==
    /\ pc[e] = "push"
    /\ \/ \E to \in {"pushed", "wait"} : Goto(e, to) /\ UNCHANGED <<ret, writer>>
       \/ Failing(e, "BackingOff") /\ UNCHANGED writer
       \/ Failing(e, "Failed") /\ writer' = [writer EXCEPT ![e] = 0]
    /\ UNCHANGED <<ent, tok, due>> /\ AlsoKeeps /\ WorkerOnly

\* A push that succeeded is reported; then maintenance if it is due.
PushCompleted(e) ==
    /\ pc[e] = "pushed" /\ Room(e)
    /\ ent' = [ent EXCEPT ![e] = Report(@, "PushCompleted")]
    /\ \E then \in {"maintain", "rest"} : DrainThen(e, then)
    /\ UNCHANGED workerVars /\ AlsoKeeps /\ WorkerOnly

\* maintain_with: an error other than a cancellation is reported and no more.
Maintain(e) ==
    /\ pc[e] = "maintain"
    /\ (Goto(e, "rest") /\ UNCHANGED ret) \/ Failing(e, "rest")
    /\ UNCHANGED <<ent, workerVars>> /\ AlsoKeeps /\ WorkerOnly

----------------------------------------------------------------------------
(* follow_worker *)

\* StorageConfig::build.  Cancelled, whoever cancelled it, is no error.
Build(e) ==
    /\ pc[e] = "build"
    /\ \/ \E to \in {"working", "wait"} : Goto(e, to) /\ UNCHANGED ret
       \/ \E verdict \in {"BackingOff", "Failed"} : Failing(e, verdict)
    /\ UNCHANGED <<ent, workerVars>> /\ AlsoKeeps /\ WorkerOnly

\* Replica::follow begins; at the top of its loops it looks at the token and
\* calls the storage.
FollowBegins(e) ==
    /\ pc[e] = "follow"
    /\ \/ apc = "off" /\ apc' = "session"
       \/ apc = "session" /\ ~Cancelled(e, tok[e]) /\ apc' = "next"
    /\ UNCHANGED <<ent, pc, ret, ev, workerVars, wlock, rdr>> /\ WorkerOnly

\* A call on the storage returns without a file to apply.
NothingNew == apc = "next" /\ apc' = "session" /\ UNCHANGED <<wlock, rdr>>

\* The session goes on: what cannot wait for long.  A cancelled call returns,
\* and so does a cancelled wait for a lock.
FollowLocks(e) ==
    /\ pc[e] = "follow"
    /\ \/ TakePending \/ TakeShared \/ Applied
       \/ Cancelled(e, tok[e]) /\ (NothingNew \/ (Blocked /\ GiveUp))
    /\ UNCHANGED <<ent, pc, ret, ev, workerVars>> /\ WorkerOnly

\* A file arrives, also on the heels of a cancellation, or none does; the
\* deadline of a lock passes, or fcntl fails.
FollowEvents(e) ==
    /\ pc[e] = "follow"
    /\ ApplySpooled \/ NothingNew \/ GiveUp
    /\ UNCHANGED <<ent, pc, ret, ev, workerVars>> /\ WorkerOnly

\* A cancelled session is a clean stop.
FollowStops(e) ==
    /\ pc[e] = "follow" /\ apc = "session" /\ Cancelled(e, tok[e])
    /\ Goto(e, "wait") /\ apc' = "off"
    /\ UNCHANGED <<ent, ret, ev, workerVars, wlock, rdr>> /\ WorkerOnly

\* follow returns an error: divergence, or one that reading the position met.
FollowFails(e) ==
    /\ pc[e] = "follow" /\ apc \in {"session", "next"}
    /\ Failing(e, "Failed") /\ apc' = "off"
    /\ UNCHANGED <<ent, ev, workerVars, wlock, rdr>> /\ WorkerOnly

----------------------------------------------------------------------------
\* Manager::new; no database is registered yet.
Init ==
    /\ kind \in Kinds
    /\ registry = {}
    /\ ent = [e \in Entries |-> NewEntry]
    /\ pc = [t \in Threads |-> IF t \in Entries THEN "unborn" ELSE "idle"]
    /\ ret = [t \in Threads |-> "wait"]
    /\ ev = [t \in Threads |-> NoEvent]
    /\ tok = [e \in Entries |-> 0]
    /\ writer = [e \in Entries |-> 0]
    \* A push worker with an interval begins at once, as a follower does.
    /\ due = [e \in Entries |-> IF kind[e] = "manual" THEN "never" ELSE "now"]
    /\ call = [c \in Callers |-> NoCall]
    /\ seen = [e \in Entries |-> "Idle"]
    /\ calls = 0 /\ panics = 0
    /\ LockInit

DrainStep(t) == \E e \in Entries : Drain(t, e) \/ EmitReturns(t, e)

\* What the thread of a worker does on its own, and without delay.
WorkerStep(e) ==
    \/ wait_for_action(e) \/ Release(e) \/ RecordError(e) \/ Settle(e) \/ Working(e)
    \/ ensure_writer(e) \/ PushCancelled(e) \/ PushCompleted(e)
    \/ Build(e) \/ FollowBegins(e) \/ FollowLocks(e) \/ FollowStops(e)

CallStep(c) ==
    \/ \E e \in Entries : \/ sleep_entry(c, e) \/ resume_entry(c, e)
                          \/ push_or_sync_now(c, e) \/ signal_shutdown(c, e)
    \/ notify_all(c) \/ Return(c)

\* What takes as long as the storage, the clock or others please.
Slow(e) == PushReturns(e) \/ Maintain(e) \/ Tick(e) \/ FollowEvents(e) \/ FollowFails(e)

\* Readers of the replica, if there is one, in other processes.
ReaderStep(r) ==
    /\ \E e \in Entries : kind[e] = "follow"
    /\ ReaderStarts(r) \/ ReaderEnters(r) \/ ReaderLeaves(r)
    /\ UNCHANGED <<ent, pc, ret, ev, workerVars>> /\ WorkerOnly

Next ==
    \/ \E t \in Threads : DrainStep(t) \/ \E e \in Entries : EmitPanics(t, e)
    \/ \E c \in Callers : Call(c) \/ CallStep(c)
    \/ \E e \in Entries : Register(e) \/ WorkerStep(e) \/ Slow(e)
    \/ \E r \in Readers : ReaderStep(r)

Spec == Init /\ [][Next]_vars

\* Threads run, callbacks return, a cancelled call on the storage returns, and
\* a lock that is free at poll after poll is taken.  Nothing is assumed of
\* storage that is not cancelled, of the clock, or of a reader's transaction.
LiveSpec ==
    /\ Spec
    /\ \A c \in Callers : WF_vars(CallStep(c) \/ DrainStep(c))
    /\ \A e \in Entries : WF_vars(WorkerStep(e) \/ DrainStep(e)) /\ SF_vars(FollowLocks(e) /\ TakePending)
    /\ \A r \in Readers : WF_vars(ReaderEnters(r) /\ ReaderStep(r))

----------------------------------------------------------------------------
(* Properties. *)

\* Type correctness of the registry, the entries and the threads.  A worker's
\* round and its Writer belong to sessions that have begun, and only tokens of
\* such sessions are cancelled.
TypeOK ==
    /\ kind \in Kinds /\ registry \subseteq Entries
    /\ \A e \in Entries :
         /\ ent[e].ctrl \in {"Running", "Sleeping", "Shutdown"} /\ ent[e].state \in DbState
         /\ ent[e].nudged \in BOOLEAN /\ ent[e].emitting \in BOOLEAN
         /\ ent[e].session \in Nat \ {0} /\ ent[e].cancelled \subseteq 1..ent[e].session
         /\ \A i \in DOMAIN ent[e].pending : ent[e].pending[i] \in DbState \cup {"Error", "PushCompleted"}
         /\ tok[e] \in 0..ent[e].session /\ writer[e] \in 0..tok[e]
         /\ due[e] \in {"now", "at", "never"} /\ seen[e] \in DbState
         /\ pc[e] \in {"unborn", "wait", "parked", "timed", "release", "working", "drain", "emit", "open",
                       "push", "pushed", "maintain", "rest", "error", "settle", "build", "follow", "exited"}
    /\ \A c \in Callers : pc[c] \in {"idle", "call", "drain", "emit", "notify"}
    /\ LockTypeOK

\* A worker is inside a round, with a token it took at its start.
InRound(e) == pc[e] \in {"working", "open", "push", "build", "follow"}

\* A cancelled token never poisons a later session: a running entry has a live
\* token, and a round that still runs with an old one has another round asked
\* for behind it, so that it cannot end in a park.
NoPoison ==
    \A e \in Entries :
      ent[e].ctrl = "Running"
      => /\ ~Cancelled(e, ent[e].session)
         /\ InRound(e) /\ tok[e] # ent[e].session => ent[e].nudged

\* The state a host sees follows the control calls: a worker that notices its
\* cancellation late neither repaints an entry that sleeps nor leaves one
\* Sleeping that was resumed.
NeverRepainted ==
    \A e \in Entries : ent[e].ctrl # "Shutdown" => (ent[e].ctrl = "Sleeping" <=> ent[e].state = "Sleeping")

\* After a resume nothing is emitted until the round it asked for begins; an
\* entry that ends before has no round.
ResumeGap(e) ==
    /\ ent[e].state = "Idle" /\ seen[e] = "Sleeping"
    /\ \/ ent[e].nudged \/ ent[e].ctrl = "Shutdown" \/ pc[e] = "exited"
       \/ pc[e] \in {"working", "build", "error", "settle"} \/ (pc[e] = "wait" /\ kind[e] = "follow")

\* Once the queue of an entry drains, the last state its observer was told is
\* the one that status() reports, whoever delivered it.
LastSeenIsStatus ==
    \A e \in Entries :
      ent[e].pending = <<>> /\ ~ent[e].emitting => seen[e] = ent[e].state \/ ResumeGap(e)

\* No event is stranded: while one is queued, some thread delivers or is about
\* to look, although everyone who finds a delivery in progress leaves.
NoStrandedEvent ==
    \A e \in Entries :
      ent[e].pending # <<>> /\ panics = 0
      => pc[e] = "settle" \/ \E t \in Threads : Drains(t, e) /\ pc[t] \in {"drain", "emit"}

\* A call is on its way to notify the worker of e.
Notifying(e) == \E c \in Callers : call[c].cur = {e} /\ pc[c] \in {"drain", "emit", "notify"}

\* No wake-up is lost between an entry's mutex and its condition variable: a
\* worker that waits although there is something to do (exit, release the
\* Writer of a sleeper, a round that was asked for) is about to be notified.
\* A callback that panics in sleep() skips the notification.
NoLostWakeup ==
    \A e \in Entries :
      /\ pc[e] \in {"parked", "timed"} /\ panics = 0
      /\ \/ ent[e].ctrl = "Shutdown"
         \/ ent[e].ctrl = "Sleeping" /\ writer[e] # 0
         \/ ent[e].ctrl = "Running" /\ ent[e].nudged
      => Notifying(e)

\* The replica is locked only by a follow session that waits for its readers or
\* applies a file: whatever ends the session leaves readers free to start.
LocksReleased ==
    wlock # {} => apc \in {"shared", "apply"} /\ \E e \in Entries : kind[e] = "follow" /\ pc[e] = "follow"

\* What sleep() promises to let go of.
HoldsNothing(e) == writer[e] = 0 /\ (kind[e] = "follow" => wlock = {} /\ apc = "off")

\* sleep() takes effect, whatever the storage, the readers of the replica and
\* calls racing with it do: the worker releases what it holds, unless the entry
\* is resumed or ended first.  (A callback that panics skips the notification.)
SleepReleases ==
    \A e \in Entries :
      ent[e].ctrl = "Sleeping" /\ panics = 0
      ~> HoldsNothing(e) \/ ent[e].ctrl # "Sleeping" \/ panics > 0

\* unregister() and shutdown() return: no sleep, resume or nudge that races
\* with them, no stalled storage and no reader that keeps its lock holds up the
\* join of a worker.
EndReturns == \A c \in Callers : call[c].op = "end" ~> call[c].op # "end"

\* Readers that come and go do not starve the applier: when none of them stays
\* for ever, the applier gets in or gives up.
LockServed ==
    (\A r \in Readers : []<>(rdr[r] # "reading"))
    => (apc \in {"pending", "shared"} ~> apc \notin {"pending", "shared"})

----------------------------------------------------------------------------
(* What the documentation says and the code does not keep; see README.md. *)

\* A client is never reused across a sleep and a resume: the round that a resume
\* asks for builds its client and its Writer anew (the docs of StorageConfig
\* and of Manager::resume).
ClientPerSession == \A e \in Entries : pc[e] = "push" => writer[e] = tok[e]

\* One worker thread per database (the module's docs): a path is not worked on
\* by a new registration before the old one's worker is gone.
OneWorkerPerDatabase ==
    \A d, e \in Entries : pc[d] \notin {"unborn", "exited"} /\ pc[e] \notin {"unborn", "exited"}
                          /\ Path[d] = Path[e] => d = e

\* After sleep() the Writer is dropped (its docs), also when a callback panics.
SleepReleasesAnyway ==
    \A e \in Entries : ent[e].ctrl = "Sleeping" ~> HoldsNothing(e) \/ ent[e].ctrl # "Sleeping"
=============================================================================
