--------------------------- MODULE ManagerProofs ---------------------------
(***************************************************************************)
(* Proofs about module Manager: for any number of registrations, threads   *)
(* of the host, readers and calls, the control calls, the workers and the  *)
(* replica's locks stay consistent however they interleave.                *)
(***************************************************************************)
EXTENDS Manager, TLAPS

----------------------------------------------------------------------------
(* The locks of the replica *)

\* Workers are not threads of the host.
LEMMA Disjoint == Entries \cap Callers = {}
BY Zenon, ManagerAssumption

\* What the applier has locked is told by where it is, and PENDING keeps new
\* readers out from the moment it is taken.
LockInv ==
    /\ rdr \in [Readers -> {"away", "starting", "reading"}]
    /\ apc \in {"off", "session", "next", "pending", "shared", "apply"}
    /\ apc \notin {"shared", "apply"} => wlock = {}
    /\ apc = "shared" => wlock = {"PENDING"} /\ \A r \in Readers : rdr[r] # "starting"
    /\ apc = "apply" => wlock = {"PENDING", "SHARED"} /\ \A r \in Readers : rdr[r] = "away"

\* A step of the follow session outside of the locks' module.
SessionMoves ==
    /\ apc \in {"off", "session", "next"} /\ apc' \in {"off", "session", "next"}
    /\ UNCHANGED <<wlock, rdr>>

\* Every step of the applier and of a reader keeps the invariant of the locks.
LEMMA LockSteps ==
    ASSUME LockInv,
           \/ UNCHANGED lockVars \/ SessionMoves
           \/ ApplySpooled \/ TakePending \/ TakeShared \/ GiveUp \/ Applied
           \/ \E r \in Readers : ReaderStarts(r) \/ ReaderEnters(r) \/ ReaderLeaves(r)
    PROVE  LockInv'
<1>1. CASE UNCHANGED lockVars \/ SessionMoves
  BY <1>1 DEF LockInv, lockVars, SessionMoves
<1>2. CASE ApplySpooled \/ GiveUp \/ Applied
  BY <1>2 DEF LockInv, ApplySpooled, GiveUp, Applied
<1>3. CASE TakePending
  BY <1>3 DEF LockInv, TakePending, Contended
<1>4. CASE TakeShared
  BY <1>4 DEF LockInv, TakeShared, Contended
<1>5. ASSUME NEW r \in Readers, ReaderStarts(r) \/ ReaderEnters(r) \/ ReaderLeaves(r) PROVE LockInv'
  BY <1>5 DEF LockInv, ReaderStarts, ReaderEnters, ReaderLeaves
<1>6. QED BY <1>1, <1>2, <1>3, <1>4, <1>5

\* A step of the manager is one of these.
LEMMA LockNext == LockInv /\ [Next]_vars => LockInv'
<1> SUFFICES ASSUME LockInv, [Next]_vars PROVE LockInv'
  OBVIOUS
<1>1. CASE UNCHANGED vars
  BY <1>1, LockSteps DEF vars
<1>2. ASSUME NEW t \in Threads, NEW e \in Entries, Drain(t, e) \/ EmitReturns(t, e) \/ EmitPanics(t, e)
      PROVE  UNCHANGED lockVars
  BY <1>2 DEF Drain, EmitReturns, EmitPanics
<1>3. ASSUME NEW c \in Callers, Call(c) \/ CallStep(c) PROVE UNCHANGED lockVars
  BY Zenon, <1>3 DEF Call, CallStep, sleep_entry, resume_entry, push_or_sync_now, signal_shutdown, notify_all,
              Return, CallOnly
<1>4. ASSUME NEW e \in Entries, Register(e) \/ WorkerStep(e) \/ Slow(e) PROVE LockInv'
  <2>1. CASE FollowBegins(e) \/ FollowStops(e) \/ FollowFails(e)
    BY <2>1, LockSteps DEF FollowBegins, FollowStops, FollowFails, SessionMoves
  <2>2. CASE FollowLocks(e) \/ FollowEvents(e)
    BY <2>2, LockSteps DEF FollowLocks, FollowEvents, NothingNew, SessionMoves
  <2>3. CASE \/ Register(e) \/ wait_for_action(e) \/ Release(e) \/ RecordError(e) \/ Settle(e)
             \/ Working(e) \/ ensure_writer(e) \/ PushCancelled(e) \/ PushCompleted(e) \/ Build(e)
             \/ PushReturns(e) \/ Maintain(e) \/ Tick(e)
    <3>1. UNCHANGED lockVars
      BY <2>3 DEF Register, wait_for_action, Release, RecordError, Settle, Working, ensure_writer,
                  PushCancelled, PushCompleted, Build, PushReturns, Maintain, Tick, AlsoKeeps
    <3>2. QED BY <3>1, LockSteps
  <2>4. QED BY <1>4, <2>1, <2>2, <2>3 DEF WorkerStep, Slow
<1>5. ASSUME NEW r \in Readers, ReaderStep(r) PROVE LockInv'
  BY <1>5, LockSteps DEF ReaderStep
<1>6. QED BY <1>1, <1>2, <1>3, <1>4, <1>5, LockSteps DEF Next, DrainStep

\* The invariant of the locks holds throughout.
LEMMA LocksInvariant == Spec => []LockInv
<1>1. Init => LockInv
  BY DEF Init, LockInit, LockInv
<1>2. QED BY <1>1, LockNext, PTL DEF Spec

\* Nobody reads the replica while apply_spooled writes its pages.
THEOREM ApplyIsExclusive == Spec => []ApplyExclusive
<1>1. LockInv => ApplyExclusive
  BY Zenon DEF LockInv, ApplyExclusive
<1>2. QED BY <1>1, LocksInvariant, PTL

----------------------------------------------------------------------------
(* Where threads are, and where they go next *)

\* Where a thread can be.
Places ==
    {"unborn", "wait", "parked", "timed", "release", "working", "drain", "emit", "open", "push", "pushed",
     "maintain", "rest", "error", "settle", "build", "follow", "exited", "idle", "call", "notify",
     "BackingOff", "Failed"}

\* A worker that delivers events goes on with its round, a worker that failed
\* has its verdict, and only a follower is in a follow session.
WorkerInv(e) ==
    /\ pc[e] \in {"drain", "emit"} => ret[e] \in {"wait", "follow", "open", "maintain", "rest"}
    /\ pc[e] = "settle" => ret[e] \in {"BackingOff", "Failed"}
    /\ pc[e] = "error" => ret[e] \in {"BackingOff", "Failed", "rest"}
    /\ pc[e] = "follow" \/ (pc[e] \in {"drain", "emit"} /\ ret[e] = "follow") => kind[e] = "follow"

\* A thread of the host that delivers events is in sleep(), and notifies next.
CallerInv(c) ==
    /\ pc[c] \in {"idle", "call", "drain", "emit", "notify"}
    /\ pc[c] \in {"drain", "emit"} => ret[c] = "notify"

\* What holds of every thread.
ThreadInv ==
    /\ pc \in [Threads -> Places] /\ ret \in [Threads -> Places]
    /\ \A e \in Entries : WorkerInv(e)
    /\ \A c \in Callers : CallerInv(c)
    /\ apc # "off" => \E e \in Entries : pc[e] = "follow"

\* A step of one thread leaves the others where they are.
Moves(t) ==
    /\ pc' = [pc EXCEPT ![t] = pc'[t]] /\ ret' = [ret EXCEPT ![t] = ret'[t]]
    /\ UNCHANGED kind

\* A step of a worker that keeps what is said of this worker is fine.
LEMMA WorkerMoves ==
    ASSUME ThreadInv, NEW e \in Entries, Moves(e), pc'[e] \in Places, ret'[e] \in Places, WorkerInv(e)',
           apc' # "off" => pc'[e] = "follow" \/ (apc # "off" /\ pc[e] # "follow")
    PROVE  ThreadInv'
<1>1. pc' \in [Threads -> Places] /\ ret' \in [Threads -> Places]
  BY DEF ThreadInv, Moves, Threads
<1>2. \A t \in Threads : t # e => pc'[t] = pc[t] /\ ret'[t] = ret[t]
  BY DEF ThreadInv, Moves, Threads
<1>3. \A d \in Entries : WorkerInv(d)'
  BY <1>2 DEF ThreadInv, Moves, Threads, WorkerInv
<1>4. \A c \in Callers : CallerInv(c)'
  BY <1>2, Disjoint DEF ThreadInv, Threads, CallerInv
<1>5. apc' # "off" => \E d \in Entries : pc'[d] = "follow"
  BY <1>2 DEF ThreadInv, Threads
<1>6. QED BY <1>1, <1>3, <1>4, <1>5 DEF ThreadInv

\* So is a step of a thread of the host.
LEMMA CallerMoves ==
    ASSUME ThreadInv, NEW c \in Callers, Moves(c), pc'[c] \in Places, ret'[c] \in Places, CallerInv(c)',
           UNCHANGED apc
    PROVE  ThreadInv'
<1>1. pc' \in [Threads -> Places] /\ ret' \in [Threads -> Places]
  BY DEF ThreadInv, Moves, Threads
<1>2. \A t \in Threads : t # c => pc'[t] = pc[t] /\ ret'[t] = ret[t]
  BY DEF ThreadInv, Moves, Threads
<1>3. \A e \in Entries : WorkerInv(e)' /\ pc'[e] = pc[e]
  BY <1>2, Disjoint DEF ThreadInv, Moves, Threads, WorkerInv
<1>4. \A d \in Callers : CallerInv(d)'
  BY <1>2 DEF ThreadInv, Threads, CallerInv
<1>5. QED BY <1>1, <1>3, <1>4 DEF ThreadInv

\* Delivery: the thread stays, goes where it was headed, or unwinds.
LEMMA DrainThreads ==
    ASSUME ThreadInv, NEW t \in Threads, NEW e \in Entries,
           Drain(t, e) \/ EmitReturns(t, e) \/ EmitPanics(t, e)
    PROVE  ThreadInv'
<1>1. /\ Moves(t) /\ UNCHANGED apc /\ pc[t] \in {"drain", "emit"}
      /\ \/ pc'[t] \in {"drain", "emit"} /\ ret'[t] = ret[t]
         \/ pc'[t] = ret[t] /\ ret'[t] = "wait"
         \/ pc'[t] = (IF t = e THEN "exited" ELSE "idle") /\ ret'[t] = ret[t]
      /\ t = e \/ t \in Callers
  <2>1. CASE Drain(t, e)
    BY <2>1 DEF Drain, Drains, Goto, Moves, ThreadInv, lockVars
  <2>2. CASE EmitReturns(t, e) \/ EmitPanics(t, e)
    BY <2>2 DEF EmitReturns, EmitPanics, Emitted, Drains, Goto, Moves, ThreadInv, lockVars
  <2>3. QED BY <2>1, <2>2
<1>2. CASE t = e
  <2>1. pc'[e] \in Places /\ ret'[e] \in Places /\ WorkerInv(e)'
    BY <1>1, <1>2 DEF ThreadInv, WorkerInv, Places, Moves
  <2>2. QED BY <1>1, <1>2, <2>1, WorkerMoves
<1>3. CASE t \in Callers
  <2>1. t # e
    BY <1>3, ManagerAssumption
  <2>2. pc'[t] \in Places /\ ret'[t] \in Places /\ CallerInv(t)'
    BY <1>1, <1>3, <2>1 DEF ThreadInv, CallerInv, Places
  <2>3. QED BY <1>1, <1>3, <2>2, CallerMoves
<1>4. QED BY <1>1, <1>2, <1>3

\* The calls of the host; a notification moves only workers that wait.
LEMMA CallThreads ==
    ASSUME ThreadInv, NEW c \in Callers, Call(c) \/ CallStep(c)
    PROVE  ThreadInv'
<1>1. CASE notify_all(c)
  <2>1. /\ pc' \in [Threads -> Places] /\ ret' = ret /\ kind' = kind /\ apc' = apc
        /\ \A t \in Threads : \/ t = c /\ pc'[t] = "call"
                              \/ pc[t] \in {"parked", "timed"} /\ pc'[t] = "wait"
                              \/ pc'[t] = pc[t]
    BY <1>1 DEF notify_all, CallOnly, lockVars, ThreadInv, Places
  <2>2. \A e \in Entries : e \in Threads /\ e # c
    BY Disjoint DEF Threads
  <2>3. \A e \in Entries : WorkerInv(e)'
    BY <2>1, <2>2 DEF ThreadInv, WorkerInv
  <2>4. \A d \in Callers : CallerInv(d)'
    BY <2>1 DEF ThreadInv, CallerInv, Threads
  <2>5. apc' # "off" => \E e \in Entries : pc'[e] = "follow"
    BY <2>1, <2>2 DEF ThreadInv
  <2>6. QED BY <2>1, <2>3, <2>4, <2>5 DEF ThreadInv
<1>2. CASE ~notify_all(c)
  <2> DEFINE Turns == \/ pc'[c] \in {"idle", "call", "notify"} /\ ret'[c] = ret[c]
                      \/ pc'[c] = "drain" /\ ret'[c] = "notify"
  <2>1. Moves(c) /\ UNCHANGED apc /\ Turns
    <3>1. CASE Call(c) \/ Return(c)
      BY <3>1 DEF Call, Return, CallOnly, lockVars, Goto, Moves, ThreadInv, Threads
    <3>2. ASSUME NEW e \in Entries, sleep_entry(c, e) \/ resume_entry(c, e) \/ push_or_sync_now(c, e)
                                    \/ signal_shutdown(c, e)
          PROVE  Moves(c) /\ UNCHANGED apc /\ Turns
      BY <3>2 DEF sleep_entry, resume_entry, push_or_sync_now, signal_shutdown, On, CallOnly, lockVars,
                  DrainThen, Goto, Moves, ThreadInv, Threads
    <3>3. QED BY <1>2, <3>1, <3>2 DEF CallStep
  <2>2. pc'[c] \in Places /\ ret'[c] \in Places /\ CallerInv(c)'
    BY <2>1 DEF ThreadInv, CallerInv, Places, Threads
  <2>3. QED BY <2>1, <2>2, CallerMoves
<1>3. QED BY <1>1, <1>2

\* The steps of a worker: the session is over when its worker leaves it.
LEMMA WorkerThreads ==
    ASSUME ThreadInv, NEW e \in Entries, Register(e) \/ WorkerStep(e) \/ Slow(e)
    PROVE  ThreadInv'
<1> USE DEF Goto, Moves, WorkerOnly, AlsoKeeps, lockVars
<1>1. e \in Threads /\ pc[e] \in Places /\ ret[e] \in Places /\ WorkerInv(e)
  BY DEF ThreadInv, Threads
<1> DEFINE Kept ==
      /\ Moves(e) /\ pc'[e] \in Places /\ ret'[e] \in Places /\ WorkerInv(e)'
      /\ apc' # "off" => pc'[e] = "follow" \/ (apc # "off" /\ pc[e] # "follow")
<1>2. Kept => ThreadInv'
  BY WorkerMoves
<1> HIDE DEF Kept
<1>3. ASSUME Register(e) \/ Release(e) \/ Tick(e) PROVE Kept
  BY <1>1, <1>3 DEF Kept, Register, Release, Tick, ThreadInv, WorkerInv, Places
<1>4. ASSUME wait_for_action(e) PROVE Kept
  BY <1>1, <1>4 DEF Kept, wait_for_action, ParkOrRelease, ThreadInv, WorkerInv, Places
<1>5. ASSUME RecordError(e) PROVE Kept
  BY <1>1, <1>5 DEF Kept, RecordError, DbState, ThreadInv, WorkerInv, Places
<1>6. ASSUME Settle(e) PROVE Kept
  BY <1>1, <1>6 DEF Kept, Settle, DrainThen, ThreadInv, WorkerInv, Places
<1>7. ASSUME Working(e) PROVE Kept
  BY <1>1, <1>7 DEF Kept, Working, DrainThen, ThreadInv, WorkerInv, Places
<1>8. ASSUME ensure_writer(e) PROVE Kept
  <2>1. CASE (Goto(e, "push") \/ Goto(e, "wait")) /\ UNCHANGED ret
    BY <1>1, <1>8, <2>1 DEF Kept, ensure_writer, ThreadInv, WorkerInv, Places
  <2>2. ASSUME NEW verdict \in {"BackingOff", "Failed"}, Failing(e, verdict) PROVE Kept
    BY <1>1, <1>8, <2>2 DEF Kept, ensure_writer, Failing, ThreadInv, WorkerInv, Places
  <2>3. QED BY <1>8, <2>1, <2>2 DEF ensure_writer
<1>9. ASSUME PushCancelled(e) PROVE Kept
  BY <1>1, <1>9 DEF Kept, PushCancelled, ThreadInv, WorkerInv, Places
<1>10. ASSUME PushReturns(e) PROVE Kept
  BY <1>1, <1>10 DEF Kept, PushReturns, Failing, ThreadInv, WorkerInv, Places
<1>11. ASSUME PushCompleted(e) PROVE Kept
  BY <1>1, <1>11 DEF Kept, PushCompleted, DrainThen, ThreadInv, WorkerInv, Places
<1>12. ASSUME Maintain(e) PROVE Kept
  BY <1>1, <1>12 DEF Kept, Maintain, Failing, ThreadInv, WorkerInv, Places
<1>13. ASSUME Build(e) PROVE Kept
  <2>1. CASE (Goto(e, "working") \/ Goto(e, "wait")) /\ UNCHANGED ret
    BY <1>1, <1>13, <2>1 DEF Kept, Build, ThreadInv, WorkerInv, Places
  <2>2. ASSUME NEW verdict \in {"BackingOff", "Failed"}, Failing(e, verdict) PROVE Kept
    BY <1>1, <1>13, <2>2 DEF Kept, Build, Failing, ThreadInv, WorkerInv, Places
  <2>3. QED BY <1>13, <2>1, <2>2 DEF Build
<1>14. ASSUME FollowBegins(e) \/ FollowLocks(e) \/ FollowEvents(e) PROVE Kept
  BY <1>1, <1>14 DEF Kept, FollowBegins, FollowLocks, FollowEvents, ThreadInv, WorkerInv, Places
<1>15. ASSUME FollowStops(e) PROVE Kept
  BY <1>1, <1>15 DEF Kept, FollowStops, ThreadInv, WorkerInv, Places
<1>16. ASSUME FollowFails(e) PROVE Kept
  BY <1>1, <1>16 DEF Kept, FollowFails, Failing, ThreadInv, WorkerInv, Places
<1>17. Kept
  BY <1>3, <1>4, <1>5, <1>6, <1>7, <1>8, <1>9, <1>10, <1>11, <1>12, <1>13, <1>14, <1>15, <1>16
     DEF WorkerStep, Slow
<1>18. QED BY <1>2, <1>17

\* A step of the manager keeps the threads in order.
LEMMA ThreadNext == ThreadInv /\ [Next]_vars => ThreadInv'
<1> SUFFICES ASSUME ThreadInv, [Next]_vars PROVE ThreadInv'
  OBVIOUS
<1>1. CASE UNCHANGED vars
  BY <1>1 DEF vars, lockVars, ThreadInv, WorkerInv, CallerInv
<1>2. ASSUME NEW r \in Readers, ReaderStep(r) PROVE ThreadInv'
  BY <1>2 DEF ReaderStep, ReaderStarts, ReaderEnters, ReaderLeaves, WorkerOnly, ThreadInv, WorkerInv, CallerInv
<1>3. QED BY <1>1, <1>2, DrainThreads, CallThreads, WorkerThreads DEF Next, DrainStep

\* The threads start unborn or idle.
LEMMA ThreadsInvariant == Spec => []ThreadInv
<1>1. Init => ThreadInv
  BY ManagerAssumption DEF Init, LockInit, ThreadInv, WorkerInv, CallerInv, Threads, Places
<1>2. QED BY <1>1, ThreadNext, PTL DEF Spec

\* Whatever ends a follow session, the replica is locked only while a follower
\* is in one.
THEOREM LocksAreReleased == Spec => []LocksReleased
<1>1. LockInv /\ ThreadInv => LocksReleased
  BY DEF LockInv, ThreadInv, WorkerInv, LocksReleased
<1>2. QED BY <1>1, LocksInvariant, ThreadsInvariant, PTL

----------------------------------------------------------------------------
(* An entry, and what each operation makes of it *)

\* What observers are told.
Events == DbState \cup {"Error", "PushCompleted"}

\* The shape of an entry.
EntryShared ==
    [ctrl : {"Running", "Sleeping", "Shutdown"}, nudged : BOOLEAN, session : Nat \ {0},
     cancelled : SUBSET Nat, state : DbState, pending : Seq(Events), emitting : BOOLEAN]

\* Only tokens of sessions that have begun are cancelled, a running entry's
\* own is not, and the state agrees with the control.
EntryOK(s) ==
    /\ s \in EntryShared
    /\ \A token \in s.cancelled : token <= s.session
    /\ s.ctrl = "Running" => s.session \notin s.cancelled
    /\ s.ctrl # "Shutdown" => (s.ctrl = "Sleeping" <=> s.state = "Sleeping")

\* A round with an old token has a nudge behind it.
TokenOK(s, token) == s.ctrl = "Running" /\ token \notin {0, s.session} => s.nudged

\* The control part of an entry is as it was.
SameControl(s, u) ==
    /\ u \in EntryShared
    /\ u.ctrl = s.ctrl /\ u.nudged = s.nudged /\ u.session = s.session /\ u.cancelled = s.cancelled
    /\ u.state = s.state

\* The events part of an entry is as it was.
SameEvents(s, u) == u.pending = s.pending /\ u.emitting = s.emitting

\* What a step makes of an entry is an entry, and fits the round under way.
Fits(s, u) == EntryOK(u) /\ \A token \in Nat : TokenOK(s, token) => TokenOK(u, token)

\* A step that leaves the control part alone fits.
LEMMA SameControlFits ==
    ASSUME NEW s, EntryOK(s), NEW u, SameControl(s, u)
    PROVE  Fits(s, u)
<1>1. u.nudged <=> s.nudged
  BY Zenon DEF SameControl
<1>2. QED BY <1>1 DEF EntryOK, SameControl, Fits, TokenOK

\* Delivery takes the oldest event.
LEMMA TakeEvent ==
    ASSUME NEW s, EntryOK(s), s.pending # <<>>,
           NEW u, u = [s EXCEPT !.pending = Tail(@), !.emitting = TRUE]
    PROVE  Fits(s, u) /\ SameControl(s, u) /\ u.pending = Tail(s.pending) /\ u.emitting
<1>1. s \in EntryShared /\ Tail(s.pending) \in Seq(Events)
  BY DEF EntryOK, EntryShared
<1>2. SameControl(s, u) /\ u.pending = Tail(s.pending) /\ u.emitting
  BY Zenon, <1>1 DEF SameControl, EntryShared
<1>3. QED BY <1>2, SameControlFits

\* Afterwards it clears its flag.
LEMMA ClearFlag ==
    ASSUME NEW s, EntryOK(s), NEW u, u = [s EXCEPT !.emitting = FALSE]
    PROVE  Fits(s, u) /\ SameControl(s, u) /\ u.pending = s.pending /\ ~u.emitting
<1>1. s \in EntryShared
  BY DEF EntryOK
<1>2. SameControl(s, u) /\ u.pending = s.pending /\ ~u.emitting
  BY Zenon, <1>1 DEF SameControl, EntryShared
<1>3. QED BY <1>2, SameControlFits

\* An event is reported.
LEMMA ReportFits ==
    ASSUME NEW s, EntryOK(s), NEW event \in Events
    PROVE  Fits(s, Report(s, event)) /\ Report(s, event).emitting = s.emitting
<1>1. s \in EntryShared /\ Append(s.pending, event) \in Seq(Events)
  BY DEF EntryOK, EntryShared
<1>2. SameControl(s, Report(s, event)) /\ Report(s, event).emitting = s.emitting
  BY Zenon, <1>1 DEF SameControl, EntryShared, Report
<1>3. QED BY <1>2, SameControlFits

\* A worker's transition repaints only an entry that runs.
LEMMA TransitionFits ==
    ASSUME NEW s, EntryOK(s), NEW new \in {"Idle", "Working", "BackingOff", "Failed"}
    PROVE  /\ Fits(s, transition_running(s, new))
           /\ transition_running(s, new).emitting = s.emitting
<1> DEFINE u == [s EXCEPT !.state = new, !.pending = Append(@, new)]
<1>1. s \in EntryShared /\ new \in DbState /\ Append(s.pending, new) \in Seq(Events)
  BY DEF EntryOK, EntryShared, Events, DbState
<1>2. /\ u \in EntryShared /\ u.ctrl = s.ctrl /\ u.nudged = s.nudged /\ u.session = s.session
      /\ u.cancelled = s.cancelled /\ u.state = new /\ u.emitting = s.emitting
  BY Zenon, <1>1 DEF EntryShared
<1>3. u.nudged <=> s.nudged
  BY Zenon, <1>2
<1> HIDE DEF u
<1>4. CASE s.ctrl # "Running" \/ (s.state = new /\ new # "BackingOff")
  <2>1. transition_running(s, new) = s
    BY Zenon, <1>4 DEF transition_running
  <2>2. QED BY <2>1 DEF Fits
<1>5. CASE ~(s.ctrl # "Running" \/ (s.state = new /\ new # "BackingOff"))
  <2>1. transition_running(s, new) = u
    BY Zenon, <1>5 DEF transition_running, u
  <2>2. QED BY <1>2, <1>3, <1>5, <2>1 DEF Fits, EntryOK, TokenOK
<1>6. QED BY <1>4, <1>5

\* sleep() cancels the token of an entry that runs.
LEMMA SleptFits ==
    ASSUME NEW s, EntryOK(s), s.ctrl = "Running"
    PROVE  Fits(s, Slept(s)) /\ Slept(s).emitting = s.emitting
<1>1. /\ s \in EntryShared /\ "Sleeping" \in DbState /\ Append(s.pending, "Sleeping") \in Seq(Events)
      /\ s.cancelled \cup {s.session} \in SUBSET Nat
  BY DEF EntryOK, EntryShared, Events, DbState
<1>2. /\ Slept(s) \in EntryShared /\ Slept(s).ctrl = "Sleeping" /\ Slept(s).session = s.session
      /\ Slept(s).cancelled = s.cancelled \cup {s.session} /\ Slept(s).state = "Sleeping"
      /\ Slept(s).emitting = s.emitting
  BY Zenon, <1>1 DEF EntryShared, Slept, Report
<1>3. QED BY <1>1, <1>2 DEF Fits, EntryOK, EntryShared, TokenOK

\* resume() gives a sleeper a token nobody has cancelled.
LEMMA ResumedFits ==
    ASSUME NEW s, EntryOK(s), s.ctrl = "Sleeping"
    PROVE  Fits(s, Resumed(s)) /\ SameEvents(s, Resumed(s))
<1>1. s \in EntryShared /\ "Idle" \in DbState /\ s.session + 1 \in Nat \ {0}
  BY DEF EntryOK, EntryShared, DbState
<1>2. /\ Resumed(s) \in EntryShared /\ Resumed(s).ctrl = "Running" /\ Resumed(s).nudged = TRUE
      /\ Resumed(s).session = s.session + 1 /\ Resumed(s).cancelled = s.cancelled
      /\ Resumed(s).state = "Idle" /\ SameEvents(s, Resumed(s))
  BY Zenon, <1>1 DEF EntryShared, Resumed, SameEvents
<1>3. \A token \in s.cancelled : token <= s.session + 1 /\ token # s.session + 1
  BY <1>1 DEF EntryOK, EntryShared
<1>4. QED BY <1>2, <1>3 DEF Fits, EntryOK, TokenOK

\* A nudge, of an entry that runs; sync_now changes its token too.
LEMMA NudgedFits ==
    ASSUME NEW s, EntryOK(s), s.ctrl = "Running", NEW swap
    PROVE  Fits(s, Nudged(s, swap)) /\ SameEvents(s, Nudged(s, swap))
<1> DEFINE u == [s EXCEPT !.cancelled = @ \cup {s.session}, !.session = @ + 1, !.nudged = TRUE]
           v == [s EXCEPT !.nudged = TRUE]
<1>1. /\ s \in EntryShared /\ s.session + 1 \in Nat \ {0}
      /\ s.cancelled \cup {s.session} \in SUBSET Nat
  BY DEF EntryOK, EntryShared
<1>2. /\ u \in EntryShared /\ u.ctrl = s.ctrl /\ u.nudged = TRUE /\ u.session = s.session + 1
      /\ u.cancelled = s.cancelled \cup {s.session} /\ u.state = s.state /\ SameEvents(s, u)
  BY Zenon, <1>1 DEF EntryShared, SameEvents
<1>3. /\ v \in EntryShared /\ v.ctrl = s.ctrl /\ v.nudged = TRUE /\ v.session = s.session
      /\ v.cancelled = s.cancelled /\ v.state = s.state /\ SameEvents(s, v)
  BY Zenon, <1>1 DEF EntryShared, SameEvents
<1>4. Nudged(s, swap) = u \/ Nudged(s, swap) = v
  BY Zenon DEF Nudged
<1> HIDE DEF u, v
<1>5. \A token \in s.cancelled : token <= s.session + 1 /\ token # s.session + 1
  BY <1>1 DEF EntryOK, EntryShared
<1>6. s.session <= s.session + 1 /\ s.session # s.session + 1
  BY <1>1 DEF EntryShared
<1>7. Fits(s, u)
  BY <1>2, <1>5, <1>6 DEF Fits, EntryOK, TokenOK
<1>8. Fits(s, v)
  BY <1>3 DEF Fits, EntryOK, TokenOK
<1>9. QED BY Zenon, <1>2, <1>3, <1>4, <1>7, <1>8

\* signal_shutdown.
LEMMA EndedFits ==
    ASSUME NEW s, EntryOK(s), NEW u,
           u = [s EXCEPT !.ctrl = "Shutdown", !.cancelled = @ \cup {s.session}]
    PROVE  Fits(s, u) /\ SameEvents(s, u)
<1>1. s \in EntryShared /\ s.cancelled \cup {s.session} \in SUBSET Nat
  BY DEF EntryOK, EntryShared
<1>2. /\ u \in EntryShared /\ u.ctrl = "Shutdown" /\ u.session = s.session
      /\ u.cancelled = s.cancelled \cup {s.session} /\ SameEvents(s, u)
  BY Zenon, <1>1 DEF EntryShared, SameEvents
<1>3. QED BY <1>1, <1>2 DEF Fits, EntryOK, EntryShared, TokenOK

\* A round begins: the nudge is used up, and the token is the session's.
LEMMA RoundFits ==
    ASSUME NEW s, EntryOK(s), NEW u, u = [s EXCEPT !.nudged = FALSE]
    PROVE  EntryOK(u) /\ TokenOK(u, s.session) /\ SameEvents(s, u) /\ s.session \in Nat \ {0}
<1>1. s \in EntryShared /\ s.session \in Nat \ {0}
  BY DEF EntryOK, EntryShared
<1>2. /\ u \in EntryShared /\ u.ctrl = s.ctrl /\ u.session = s.session /\ u.cancelled = s.cancelled
      /\ u.state = s.state /\ SameEvents(s, u)
  BY Zenon, <1>1 DEF EntryShared, SameEvents
<1>3. QED BY <1>1, <1>2 DEF EntryOK, TokenOK

----------------------------------------------------------------------------
(* Control calls and workers *)

\* A worker without a token has not been in a round.
Fresh(e) == tok[e] = 0 => pc[e] \in {"unborn", "wait", "parked", "timed", "release", "exited"}

\* What holds of every entry.
EntryInv ==
    /\ ent \in [Entries -> EntryShared] /\ tok \in [Entries -> Nat]
    /\ \A e \in Entries : EntryOK(ent[e]) /\ TokenOK(ent[e], tok[e]) /\ Fresh(e)

\* What a step does to the entries: nothing, or something that fits to one.
FitStep ==
    \/ UNCHANGED ent
    \/ \E e \in Entries : ent' = [ent EXCEPT ![e] = ent'[e]] /\ Fits(ent[e], ent'[e])

\* No worker that has been in no round gets into one but with a token.
KeepsFresh ==
    \A e \in Entries : tok[e] = 0 /\ Fresh(e) => Fresh(e)'

\* Such a step keeps the invariant of the entries.
LEMMA FitStepInv ==
    ASSUME EntryInv, FitStep, UNCHANGED tok, KeepsFresh
    PROVE  EntryInv'
<1>1. \A e \in Entries : Fresh(e)'
  BY DEF EntryInv, KeepsFresh, Fresh
<1>2. CASE UNCHANGED ent
  BY <1>1, <1>2 DEF EntryInv
<1>3. ASSUME NEW e \in Entries, ent' = [ent EXCEPT ![e] = ent'[e]], Fits(ent[e], ent'[e]) PROVE EntryInv'
  <2>1. EntryOK(ent'[e]) /\ TokenOK(ent'[e], tok[e]) /\ ent'[e] \in EntryShared
    BY <1>3 DEF EntryInv, Fits, EntryOK
  <2>2. \A d \in Entries \ {e} : ent'[d] = ent[d]
    BY <1>3 DEF EntryInv
  <2>3. ent' \in [Entries -> EntryShared]
    BY <1>3, <2>1 DEF EntryInv
  <2>4. \A d \in Entries : EntryOK(ent'[d]) /\ TokenOK(ent'[d], tok[d])
    BY <2>1, <2>2 DEF EntryInv
  <2>5. QED BY SMTT(20), SMTT(30), <1>1, <2>3, <2>4 DEF EntryInv
<1>4. QED BY <1>2, <1>3 DEF FitStep

\* Delivery.
LEMMA DrainEntries ==
    ASSUME ThreadInv, EntryInv, NEW t \in Threads, NEW e \in Entries,
           Drain(t, e) \/ EmitReturns(t, e) \/ EmitPanics(t, e)
    PROVE  EntryInv'
<1>1. UNCHANGED tok
  BY DEF Drain, EmitReturns, EmitPanics, workerVars
<1>2. KeepsFresh
  <2>1. pc' = [pc EXCEPT ![t] = pc'[t]] /\ pc[t] \in {"drain", "emit"}
    BY DEF Drain, EmitReturns, EmitPanics, Emitted, Goto, ThreadInv
  <2>2. QED BY <1>1, <2>1 DEF KeepsFresh, Fresh, ThreadInv, Threads
<1>3. FitStep
  <2>1. EntryOK(ent[e])
    BY DEF EntryInv
  <2>2. CASE Drain(t, e)
    <3>1. CASE UNCHANGED ent
      BY <3>1 DEF FitStep
    <3>2. CASE ent' = [ent EXCEPT ![e].pending = Tail(@), ![e].emitting = TRUE] /\ ent[e].pending # <<>>
      <4>1. /\ ent'[e] = [ent[e] EXCEPT !.pending = Tail(@), !.emitting = TRUE]
            /\ ent' = [ent EXCEPT ![e] = ent'[e]]
        BY Zenon, <3>2 DEF EntryInv
      <4>2. QED BY Zenon, <2>1, <3>2, <4>1, TakeEvent DEF FitStep
    <3>3. QED BY SMTT(20), SMTT(30), <2>2, <3>1, <3>2 DEF Drain, Leave
  <2>3. CASE EmitReturns(t, e) \/ EmitPanics(t, e)
    <3>1. ent' = [ent EXCEPT ![e].emitting = FALSE]
      BY <2>3 DEF EmitReturns, EmitPanics, Emitted
    <3>2. ent'[e] = [ent[e] EXCEPT !.emitting = FALSE] /\ ent' = [ent EXCEPT ![e] = ent'[e]]
      BY <3>1 DEF EntryInv
    <3>3. QED BY <2>1, <3>2, ClearFlag DEF FitStep
  <2>4. QED BY <2>2, <2>3
<1>4. QED BY <1>1, <1>2, <1>3, FitStepInv

\* One field of an entry, or two, are set: the entry as a record.
LEMMA FieldSteps ==
    ASSUME EntryInv, NEW e \in Entries
    PROVE  /\ ent' = [ent EXCEPT ![e].nudged = TRUE]
              => ent'[e] = Nudged(ent[e], FALSE) /\ ent' = [ent EXCEPT ![e] = ent'[e]]
           /\ ent' = [ent EXCEPT ![e].nudged = FALSE]
              => ent'[e] = [ent[e] EXCEPT !.nudged = FALSE] /\ ent' = [ent EXCEPT ![e] = ent'[e]]
           /\ ent' = [ent EXCEPT ![e].ctrl = "Shutdown", ![e].cancelled = @ \cup {ent[e].session}]
              => /\ ent'[e] = [ent[e] EXCEPT !.ctrl = "Shutdown", !.cancelled = @ \cup {ent[e].session}]
                 /\ ent' = [ent EXCEPT ![e] = ent'[e]]
BY Zenon DEF EntryInv, Nudged

\* The calls of the host.
LEMMA CallEntries ==
    ASSUME ThreadInv, EntryInv, NEW c \in Callers, Call(c) \/ CallStep(c)
    PROVE  EntryInv'
<1>1. UNCHANGED tok
  BY Zenon DEF Call, CallStep, sleep_entry, resume_entry, push_or_sync_now, signal_shutdown, notify_all, Return,
         CallOnly, workerVars
<1>2. KeepsFresh
  <2>1. \A e \in Entries : e \in Threads /\ e # c
    BY Disjoint DEF Threads
  <2>2. \A e \in Entries : pc'[e] = pc[e] \/ pc'[e] = "wait"
    <3>1. CASE notify_all(c)
      BY <2>1, <3>1 DEF notify_all
    <3>2. CASE ~notify_all(c)
      BY Zenon, <2>1, <3>2 DEF Call, CallStep, sleep_entry, resume_entry, push_or_sync_now, signal_shutdown, Return,
                        DrainThen, Goto, ThreadInv
    <3>3. QED BY <3>1, <3>2
  <2>3. QED BY <1>1, <2>2 DEF KeepsFresh, Fresh
<1>3. FitStep
  <2>1. CASE UNCHANGED ent
    BY <2>1 DEF FitStep
  <2>2. ASSUME NEW e \in Entries, ~(UNCHANGED ent),
               sleep_entry(c, e) \/ resume_entry(c, e) \/ push_or_sync_now(c, e) \/ signal_shutdown(c, e)
        PROVE  ent' = [ent EXCEPT ![e] = ent'[e]] /\ Fits(ent[e], ent'[e])
    <3>1. EntryOK(ent[e])
      BY DEF EntryInv
    <3>2. CASE sleep_entry(c, e)
      <4>1. ent' = [ent EXCEPT ![e] = Slept(ent[e])] /\ ent[e].ctrl = "Running"
        BY <2>2, <3>2 DEF sleep_entry, SleepIgnored
      <4>2. ent'[e] = Slept(ent[e]) /\ ent' = [ent EXCEPT ![e] = ent'[e]]
        BY <4>1 DEF EntryInv
      <4>3. QED BY <3>1, <4>1, <4>2, SleptFits
    <3>3. CASE resume_entry(c, e)
      <4>1. CASE ent' = [ent EXCEPT ![e] = Resumed(ent[e])] /\ ent[e].ctrl = "Sleeping"
        <5>1. ent'[e] = Resumed(ent[e]) /\ ent' = [ent EXCEPT ![e] = ent'[e]]
          BY <4>1 DEF EntryInv
        <5>2. QED BY <3>1, <4>1, <5>1, ResumedFits
      <4>2. CASE ent' = [ent EXCEPT ![e].nudged = TRUE] /\ ent[e].ctrl = "Running"
        <5>1. ent'[e] = Nudged(ent[e], FALSE) /\ ent' = [ent EXCEPT ![e] = ent'[e]]
          BY Zenon, <4>2, FieldSteps
        <5>2. QED BY Zenon, <3>1, <4>2, <5>1, NudgedFits
      <4>3. QED BY <2>2, <3>3, <4>1, <4>2 DEF resume_entry
    <3>4. CASE push_or_sync_now(c, e)
      <4>1. ent' = [ent EXCEPT ![e] = Nudged(ent[e], kind[e] = "follow")] /\ ent[e].ctrl = "Running"
        BY <2>2, <3>4, <3>1 DEF push_or_sync_now, EntryOK, EntryShared
      <4>2. ent'[e] = Nudged(ent[e], kind[e] = "follow") /\ ent' = [ent EXCEPT ![e] = ent'[e]]
        BY <4>1 DEF EntryInv
      <4>3. \A swap : Fits(ent[e], Nudged(ent[e], swap))
        BY <3>1, <4>1, NudgedFits
      <4>4. QED BY Zenon, <4>2, <4>3
    <3>5. CASE signal_shutdown(c, e)
      BY Zenon, <2>2, <3>1, <3>5, EndedFits, FieldSteps DEF signal_shutdown
    <3>6. QED BY <2>2, <3>2, <3>3, <3>4, <3>5
  <2>3. QED BY <2>1, <2>2 DEF FitStep, Call, CallStep, notify_all, Return
<1>4. QED BY <1>1, <1>2, <1>3, FitStepInv

\* The steps of a worker; the one that begins a round takes the session's token.
LEMMA WorkerEntries ==
    ASSUME ThreadInv, EntryInv, NEW e \in Entries, Register(e) \/ WorkerStep(e) \/ Slow(e)
    PROVE  EntryInv'
<1> USE DEF Goto, workerVars
<1>1. e \in Threads /\ EntryOK(ent[e]) /\ Fresh(e) /\ WorkerInv(e)
  BY SMTT(20), SMTT(30) DEF EntryInv, ThreadInv, Threads
<1>2. \A d \in Entries : d # e => pc'[d] = pc[d]
  BY DEF Register, WorkerStep, Slow, wait_for_action, Release, RecordError, Settle, Working, DrainThen,
         ensure_writer, PushCancelled, PushCompleted, Build, FollowBegins, FollowLocks, FollowStops,
         PushReturns, Maintain, Tick, FollowEvents, FollowFails, Failing, ThreadInv, Threads
<1>3. CASE wait_for_action(e) /\ ~(UNCHANGED ent /\ UNCHANGED tok)
  <2>1. /\ ent' = [ent EXCEPT ![e].nudged = FALSE]
        /\ tok' = [tok EXCEPT ![e] = ent[e].session]
    BY <1>3 DEF wait_for_action
  <2>2. ent'[e] = [ent[e] EXCEPT !.nudged = FALSE] /\ ent' = [ent EXCEPT ![e] = ent'[e]]
    BY Zenon, <2>1, FieldSteps
  <2>3. EntryOK(ent'[e]) /\ TokenOK(ent'[e], ent[e].session) /\ ent[e].session \in Nat \ {0}
    BY <1>1, <2>2, RoundFits
  <2>4. tok' \in [Entries -> Nat] /\ tok'[e] = ent[e].session /\ \A d \in Entries \ {e} : tok'[d] = tok[d]
    BY <2>1, <2>3 DEF EntryInv
  <2>5. ent' \in [Entries -> EntryShared] /\ \A d \in Entries \ {e} : ent'[d] = ent[d]
    BY Zenon, <2>2, <2>3 DEF EntryInv, EntryOK
  <2>6. \A d \in Entries : EntryOK(ent'[d]) /\ TokenOK(ent'[d], tok'[d])
    BY <2>3, <2>4, <2>5 DEF EntryInv
  <2>7. \A d \in Entries : Fresh(d)'
    BY <1>2, <2>3, <2>4 DEF EntryInv, Fresh
  <2>8. QED BY <2>4, <2>5, <2>6, <2>7 DEF EntryInv
<1>4. CASE wait_for_action(e) /\ UNCHANGED ent /\ UNCHANGED tok
  <2>1. pc'[e] \in {"exited", "release", "parked", "timed"} \/ tok' = [tok EXCEPT ![e] = ent[e].session]
    BY <1>1, <1>4 DEF wait_for_action, ParkOrRelease, ThreadInv
  <2>4. tok' = [tok EXCEPT ![e] = ent[e].session] => tok'[e] # 0
    BY <1>1 DEF EntryInv, EntryOK, EntryShared
  <2>2. KeepsFresh
    BY <1>2, <1>4, <2>1, <2>4 DEF KeepsFresh, Fresh
  <2>3. QED BY <1>4, <2>2, FitStepInv DEF FitStep
<1>5. CASE ~wait_for_action(e)
  <2>1. UNCHANGED tok
    BY Zenon, <1>5 DEF Register, WorkerStep, Slow, Release, RecordError, Settle, Working, ensure_writer,
                PushCancelled, PushCompleted, Build, FollowBegins, FollowLocks, FollowStops, PushReturns,
                Maintain, Tick, FollowEvents, FollowFails
  <2>2. KeepsFresh
    <3>1. Fresh(e)'
      BY Zenon, <1>1, <1>5, <2>1 DEF Fresh, Register, WorkerStep, Slow, Release, RecordError, Settle, Working,
         ensure_writer, PushCancelled, PushCompleted, Build, FollowBegins, FollowLocks, FollowStops,
         PushReturns, Maintain, Tick, FollowEvents, FollowFails, ThreadInv
    <3>2. QED BY <1>2, <2>1, <3>1 DEF KeepsFresh, Fresh
  <2>3. FitStep
    <3>1. CASE UNCHANGED ent
      BY <3>1 DEF FitStep
    <3>2. CASE RecordError(e) \/ PushCompleted(e)
      <4>1. PICK event \in Events : ent' = [ent EXCEPT ![e] = Report(ent[e], event)]
        BY <3>2 DEF RecordError, PushCompleted, Events
      <4>2. ent'[e] = Report(ent[e], event) /\ ent' = [ent EXCEPT ![e] = ent'[e]]
        BY <4>1 DEF EntryInv
      <4>3. QED BY <1>1, <4>2, ReportFits DEF FitStep
    <3>3. CASE Settle(e) \/ Working(e)
      <4>1. PICK new \in {"Idle", "Working", "BackingOff", "Failed"} :
              ent' = [ent EXCEPT ![e] = transition_running(ent[e], new)]
        BY <1>1, <3>3 DEF Settle, Working, WorkerInv
      <4>2. ent'[e] = transition_running(ent[e], new) /\ ent' = [ent EXCEPT ![e] = ent'[e]]
        BY <4>1 DEF EntryInv
      <4>3. QED BY <1>1, <4>2, TransitionFits DEF FitStep
    <3>4. QED BY Zenon, <1>5, <3>1, <3>2, <3>3
              DEF Register, WorkerStep, Slow, Release, ensure_writer, PushCancelled, Build, FollowBegins,
                  FollowLocks, FollowStops, PushReturns, Maintain, Tick, FollowEvents, FollowFails
  <2>4. QED BY <2>1, <2>2, <2>3, FitStepInv
<1>6. QED BY <1>3, <1>4, <1>5

\* A step of the manager keeps the entries in order.
LEMMA EntryNext == ThreadInv /\ EntryInv /\ [Next]_vars => EntryInv'
<1> SUFFICES ASSUME ThreadInv, EntryInv, [Next]_vars PROVE EntryInv'
  OBVIOUS
<1>1. CASE UNCHANGED vars
  BY SMTT(20), <1>1 DEF vars, workerVars, EntryInv, Fresh
<1>2. ASSUME NEW r \in Readers, ReaderStep(r) PROVE EntryInv'
  BY Zenon, <1>2 DEF ReaderStep, workerVars, EntryInv, Fresh
<1>3. QED BY <1>1, <1>2, DrainEntries, CallEntries, WorkerEntries DEF Next, DrainStep

\* Every entry starts running, with a token of its own and nothing queued.
LEMMA NewEntryOK == EntryOK(NewEntry) /\ TokenOK(NewEntry, 0)
<1>1. <<>> \in Seq(Events) /\ "Idle" \in DbState /\ 1 \in Nat \ {0} /\ {} \in SUBSET Nat
  BY DEF DbState
<1>2. /\ NewEntry \in EntryShared /\ NewEntry.ctrl = "Running" /\ NewEntry.state = "Idle"
      /\ NewEntry.cancelled = {}
  BY Zenon, <1>1 DEF NewEntry, EntryShared
<1>3. QED BY <1>2 DEF EntryOK, TokenOK

\* The invariant of the entries holds throughout.
LEMMA EntriesInvariant == Spec => []EntryInv
<1>1. Init => EntryInv
  <2> SUFFICES ASSUME Init PROVE EntryInv
    OBVIOUS
  <2>1. \A e \in Entries : ent[e] = NewEntry /\ tok[e] = 0 /\ pc[e] = "unborn"
    BY DEF Init, Threads
  <2>2. ent \in [Entries -> EntryShared] /\ tok \in [Entries -> Nat]
    BY NewEntryOK DEF Init, EntryOK
  <2>3. QED BY <2>1, <2>2, NewEntryOK DEF EntryInv, Fresh
<1>2. QED BY <1>1, EntryNext, ThreadsInvariant, PTL DEF Spec

\* A cancelled token never poisons the session after it.
THEOREM NoPoisonedSession == Spec => []NoPoison
<1>1. EntryInv => NoPoison
  BY DEF EntryInv, EntryOK, TokenOK, Fresh, NoPoison, Cancelled, InRound
<1>2. QED BY <1>1, EntriesInvariant, PTL

\* A worker that is late never repaints an entry.
THEOREM StateFollowsControl == Spec => []NeverRepainted
<1>1. EntryInv => NeverRepainted
  BY DEF EntryInv, EntryOK, NeverRepainted
<1>2. QED BY <1>1, EntriesInvariant, PTL

----------------------------------------------------------------------------
(* Notifications *)

\* The shape of a call.
CallRecord ==
    [op : {"none", "sleep", "resume", "now", "end"}, todo : SUBSET Entries, took : SUBSET Entries,
     cur : SUBSET Entries]

\* What holds of every call.
CallInv ==
    /\ call \in [Callers -> CallRecord] /\ registry \subseteq Entries
    /\ writer \in [Entries -> Nat] /\ panics \in Nat

\* The types of the calls under way are kept.
LEMMA CallNext == EntryInv /\ CallInv /\ [Next]_vars => CallInv'
<1> SUFFICES ASSUME EntryInv, CallInv, [Next]_vars PROVE CallInv'
  OBVIOUS
<1> USE DEF workerVars
<1>1. CASE UNCHANGED vars
  BY <1>1 DEF vars, CallInv
<1>2. ASSUME NEW t \in Threads, NEW e \in Entries, Drain(t, e) \/ EmitReturns(t, e) \/ EmitPanics(t, e)
      PROVE  CallInv'
  <2>1. NoCall \in CallRecord
    BY DEF NoCall, CallRecord
  <2>2. CASE Drain(t, e) \/ EmitReturns(t, e)
    BY <2>2 DEF Drain, EmitReturns, CallInv
  <2>3. CASE EmitPanics(t, e)
    <3>1. panics' = panics + 1 /\ registry' = registry
      BY <2>3 DEF EmitPanics
    <3>2. writer' = writer \/ writer' = [writer EXCEPT ![e] = 0]
      BY <2>3 DEF EmitPanics
    <3>3. call' = call \/ call' = [call EXCEPT ![t] = NoCall]
      BY <2>3 DEF EmitPanics
    <3>4. call' \in [Callers -> CallRecord]
      BY <2>1, <3>3 DEF CallInv
    <3>5. QED BY <3>1, <3>2, <3>4 DEF CallInv
  <2>4. QED BY <1>2, <2>2, <2>3
<1>3. ASSUME NEW c \in Callers, Call(c) PROVE CallInv'
  <2>1. PICK S \in {{e} : e \in registry} \cup {registry}, op \in {"sleep", "resume", "now", "end"} :
          /\ call' = [call EXCEPT ![c] = [op |-> op, todo |-> S, cur |-> {},
                                          took |-> IF op = "end" THEN S ELSE {}]]
          /\ registry' = IF op = "end" THEN registry \ S ELSE registry
    BY Zenon, <1>3 DEF Call
  <2>2. [op |-> op, todo |-> S, cur |-> {}, took |-> IF op = "end" THEN S ELSE {}] \in CallRecord
    BY DEF CallInv, CallRecord
  <2>3. QED BY Zenon, <1>3, <2>1, <2>2 DEF Call, CallInv
<1>4. ASSUME NEW c \in Callers, CallStep(c) PROVE CallInv'
  <2>1. UNCHANGED <<registry, writer, panics>>
    BY Zenon, <1>4 DEF CallStep, sleep_entry, resume_entry, push_or_sync_now, signal_shutdown, notify_all, Return,
                CallOnly
  <2>2. CASE Return(c)
    BY <2>1, <2>2 DEF Return, CallInv, NoCall, CallRecord
  <2>3. CASE notify_all(c)
    BY <2>1, <2>3 DEF notify_all, CallInv, CallRecord
  <2>4. ASSUME NEW e \in Entries, Next1(c, e) \/ Turn(c, e) PROVE call' \in [Callers -> CallRecord]
    <3>1. call[c] \in CallRecord /\ call[c].todo \ {e} \in SUBSET Entries /\ {e} \in SUBSET Entries
      BY DEF CallInv, CallRecord
    <3>2. \A S \in SUBSET Entries : [call[c] EXCEPT !.todo = @ \ {e}, !.cur = S] \in CallRecord
      BY Zenon, <3>1 DEF CallRecord
    <3>3. \E S \in SUBSET Entries : call' = [call EXCEPT ![c] = [call[c] EXCEPT !.todo = @ \ {e}, !.cur = S]]
      BY Zenon, <2>4, <3>1 DEF Next1, Turn, CallInv
    <3>4. QED BY Zenon, <3>2, <3>3 DEF CallInv
  <2>5. QED BY Zenon, <1>4, <2>1, <2>2, <2>3, <2>4
            DEF CallInv, CallStep, sleep_entry, resume_entry, push_or_sync_now, signal_shutdown
<1>5. ASSUME NEW e \in Entries, Register(e) \/ WorkerStep(e) \/ Slow(e) PROVE CallInv'
  <2>1. UNCHANGED <<call, panics>> /\ registry' \subseteq Entries
    BY ZenonT(30), <1>5 DEF CallInv, Register, WorkerStep, Slow, wait_for_action, Release, RecordError, Settle, Working,
                ensure_writer, PushCancelled, PushCompleted, Build, FollowBegins, FollowLocks, FollowStops,
                PushReturns, Maintain, Tick, FollowEvents, FollowFails, WorkerOnly
  <2>2. writer' = writer \/ \E v \in {0, tok[e], writer[e]} : writer' = [writer EXCEPT ![e] = v]
    BY <1>5 DEF Register, WorkerStep, Slow, wait_for_action, Release, RecordError, Settle, Working,
                ensure_writer, PushCancelled, PushCompleted, Build, FollowBegins, FollowLocks, FollowStops,
                PushReturns, Maintain, Tick, FollowEvents, FollowFails
  <2>3. writer' \in [Entries -> Nat]
    BY <2>2 DEF CallInv, EntryInv
  <2>4. QED BY <2>1, <2>3 DEF CallInv
<1>6. ASSUME NEW r \in Readers, ReaderStep(r) PROVE CallInv'
  BY <1>6 DEF ReaderStep, WorkerOnly, CallInv
<1>7. QED BY <1>1, <1>2, <1>3, <1>4, <1>5, <1>6 DEF Next, DrainStep

\* The types of the calls under way.
LEMMA CallsInvariant == Spec => []CallInv
<1>1. Init => CallInv
  <2>1. NoCall \in CallRecord
    BY DEF NoCall, CallRecord
  <2>2. QED BY <2>1 DEF Init, CallInv
<1>2. QED BY <1>1, CallNext, EntriesInvariant, PTL DEF Spec

\* The worker of e has something to do.
HasToDo(e) ==
    \/ ent[e].ctrl = "Shutdown"
    \/ ent[e].ctrl = "Sleeping" /\ writer[e] # 0
    \/ ent[e].ctrl = "Running" /\ ent[e].nudged

\* One entry's part of NoLostWakeup.
WakeInv(e) == pc[e] \in {"parked", "timed"} /\ panics = 0 /\ HasToDo(e) => Notifying(e)

\* Nothing that wakes the worker of e is lost where e's part does not change.
LEMMA WakeKept ==
    ASSUME NEW e \in Entries, WakeInv(e), UNCHANGED panics, Notifying(e) => Notifying(e)',
           pc'[e] \in {"parked", "timed"}
           => pc[e] \in {"parked", "timed"} /\ (HasToDo(e)' => HasToDo(e))
    PROVE  WakeInv(e)'
BY DEF WakeInv

\* What delivery does to the entries.
LEMMA DrainEffect ==
    ASSUME ThreadInv, EntryInv, NEW t \in Threads, NEW e \in Entries,
           Drain(t, e) \/ EmitReturns(t, e) \/ EmitPanics(t, e)
    PROVE  /\ \A d \in Entries : SameControl(ent[d], ent'[d])
           /\ \A d \in Entries \ {e} : ent'[d] = ent[d]
<1>1. \A d \in Entries : EntryOK(ent[d]) /\ SameControl(ent[d], ent[d])
  BY DEF EntryInv, SameControl, EntryOK
<1>2. CASE UNCHANGED ent
  BY <1>1, <1>2
<1>3. CASE ent' = [ent EXCEPT ![e].pending = Tail(@), ![e].emitting = TRUE] /\ ent[e].pending # <<>>
  <2>1. ent'[e] = [ent[e] EXCEPT !.pending = Tail(@), !.emitting = TRUE] /\ \A d \in Entries \ {e} : ent'[d] = ent[d]
    BY <1>3 DEF EntryInv
  <2>2. SameControl(ent[e], ent'[e])
    BY Zenon, <1>1, <1>3, <2>1, TakeEvent
  <2>3. QED BY Zenon, <1>1, <2>1, <2>2
<1>4. CASE ent' = [ent EXCEPT ![e].emitting = FALSE]
  <2>1. ent'[e] = [ent[e] EXCEPT !.emitting = FALSE] /\ \A d \in Entries \ {e} : ent'[d] = ent[d]
    BY <1>4 DEF EntryInv
  <2>2. SameControl(ent[e], ent'[e])
    BY <1>1, <2>1, ClearFlag
  <2>3. QED BY Zenon, <1>1, <2>1, <2>2
<1>5. QED BY ZenonT(30), <1>2, <1>3, <1>4 DEF Drain, Leave, EmitReturns, EmitPanics, Emitted

\* Delivery delays a notification and does not lose it.
LEMMA DrainWake ==
    ASSUME ThreadInv, EntryInv, CallInv, NEW t \in Threads, NEW e \in Entries,
           Drain(t, e) \/ EmitReturns(t, e) \/ EmitPanics(t, e),
           NEW d \in Entries, WakeInv(d)
    PROVE  WakeInv(d)'
<1>1. CASE EmitPanics(t, e)
  <2>1. panics' = panics + 1 /\ panics \in Nat
    BY <1>1 DEF EmitPanics, CallInv
  <2>2. panics' # 0
    BY <2>1
  <2>3. QED BY <2>2 DEF WakeInv
<1>2. CASE Drain(t, e) \/ EmitReturns(t, e)
  <2>1. /\ UNCHANGED <<call, writer, panics>> /\ pc[t] \in {"drain", "emit"}
        /\ pc' = [pc EXCEPT ![t] = pc'[t]] /\ pc'[t] \in {"drain", "emit", ret[t]}
    BY <1>2 DEF Drain, EmitReturns, Emitted, workerVars, Goto, ThreadInv
  <2>2. HasToDo(d)' => HasToDo(d)
    <3>1. SameControl(ent[d], ent'[d])
      BY <1>2, DrainEffect
    <3>2. ent'[d].ctrl = ent[d].ctrl /\ (ent'[d].nudged <=> ent[d].nudged)
      BY Zenon, <3>1 DEF SameControl
    <3>3. QED BY Zenon, <2>1, <3>2 DEF HasToDo
  <2>3. pc'[d] \in {"parked", "timed"} => pc[d] \in {"parked", "timed"}
    BY <2>1 DEF ThreadInv, Threads, WorkerInv
  <2>4. Notifying(d) => Notifying(d)'
    <3>1. \A c \in Callers : pc[c] \in {"drain", "emit", "notify"} => pc'[c] \in {"drain", "emit", "notify"}
      BY <2>1 DEF ThreadInv, Threads, CallerInv
    <3>2. QED BY <2>1, <3>1 DEF Notifying
  <2>5. QED BY <2>1, <2>2, <2>3, <2>4, WakeKept
<1>3. QED BY <1>1, <1>2

\* A call notifies every worker it gives something to do.
LEMMA CallWake ==
    ASSUME ThreadInv, EntryInv, CallInv, NEW c \in Callers, Call(c) \/ CallStep(c),
           NEW d \in Entries, WakeInv(d)
    PROVE  WakeInv(d)'
<1>1. UNCHANGED <<writer, panics>> /\ d \in Threads /\ d # c
  BY Zenon, ManagerAssumption DEF Call, CallStep, sleep_entry, resume_entry, push_or_sync_now, signal_shutdown,
     notify_all, Return, CallOnly, workerVars, Threads
<1>2. \A b \in Callers \ {c} : call'[b] = call[b]
  BY Zenon DEF Call, CallStep, sleep_entry, resume_entry, push_or_sync_now, signal_shutdown,
     notify_all, Return, Next1, Turn, CallInv
<1>3. CASE notify_all(c)
  <2>1. \A b \in Callers \ {c} : pc[b] \in {"drain", "emit", "notify"} => pc'[b] = pc[b]
    BY <1>3 DEF notify_all, Threads
  <2>2. UNCHANGED ent
    BY <1>3 DEF notify_all
  <2>3. CASE d \in call[c].cur
    <3>1. pc'[d] \notin {"parked", "timed"}
      BY <1>1, <1>3, <2>3 DEF notify_all
    <3>2. QED BY <3>1 DEF WakeInv
  <2>4. CASE d \notin call[c].cur
    <3>1. pc'[d] = pc[d]
      BY <1>1, <1>3, <2>4 DEF notify_all
    <3>2. Notifying(d) => Notifying(d)'
      BY SMTT(20), SMTT(30), <1>2, <2>1, <2>4 DEF Notifying
    <3>3. QED BY <1>1, <2>2, <3>1, <3>2, WakeKept DEF HasToDo
  <2>5. QED BY <2>3, <2>4
<1>4. CASE ~notify_all(c)
  <2>1. pc[c] \in {"idle", "call"} /\ pc' = [pc EXCEPT ![c] = pc'[c]]
    BY Zenon, <1>4 DEF Call, CallStep, sleep_entry, resume_entry, push_or_sync_now, signal_shutdown, Return,
                DrainThen, Goto, On, ThreadInv
  <2>2. pc'[d] = pc[d] /\ \A b \in Callers \ {c} : pc'[b] = pc[b]
    BY <1>1, <2>1 DEF ThreadInv, Threads
  <2>3. Notifying(d) => Notifying(d)'
    BY <1>2, <2>1, <2>2 DEF Notifying
  <2>4. CASE ent'[d] = ent[d]
    BY <1>1, <2>2, <2>3, <2>4, WakeKept DEF HasToDo
  <2>5. CASE ent'[d] # ent[d]
    <3>1. PICK e \in Entries : sleep_entry(c, e) \/ resume_entry(c, e) \/ push_or_sync_now(c, e)
                               \/ signal_shutdown(c, e)
      BY <1>4, <2>5 DEF Call, CallStep, Return
    <3>2. d = e
      BY <2>5, <3>1 DEF sleep_entry, resume_entry, push_or_sync_now, signal_shutdown, EntryInv
    <3>3. Turn(c, e) /\ pc'[c] \in {"drain", "notify"}
      BY <2>5, <3>1, <3>2 DEF sleep_entry, resume_entry, push_or_sync_now, signal_shutdown, DrainThen, Goto,
                              ThreadInv, Threads
    <3>4. call'[c].cur = {d}
      BY <3>2, <3>3 DEF Turn, CallInv, CallRecord
    <3>5. Notifying(d)'
      BY SMTT(20), SMTT(30), <3>3, <3>4 DEF Notifying
    <3>6. QED BY <3>5 DEF WakeInv
  <2>6. QED BY <2>4, <2>5
<1>5. QED BY <1>3, <1>4

\* A step of a worker leaves the other entries and the threads of the host
\* where they are.
LEMMA WorkerFrame ==
    ASSUME ThreadInv, EntryInv, CallInv, NEW e \in Entries, Register(e) \/ WorkerStep(e) \/ Slow(e)
    PROVE  /\ UNCHANGED <<call, panics>>
           /\ \A t \in Threads \ {e} : pc'[t] = pc[t]
           /\ \A d \in Entries \ {e} : ent'[d] = ent[d] /\ writer'[d] = writer[d]
<1>1. UNCHANGED <<call, panics>>
  BY SMTT(20), SMTT(30) DEF Register, WorkerStep, Slow, wait_for_action, Release, RecordError, Settle, Working, ensure_writer,
         PushCancelled, PushCompleted, Build, FollowBegins, FollowLocks, FollowStops, PushReturns, Maintain,
         Tick, FollowEvents, FollowFails, WorkerOnly
<1>2. \A t \in Threads \ {e} : pc'[t] = pc[t]
  BY SMTT(20), SMTT(30) DEF Register, WorkerStep, Slow, wait_for_action, Release, RecordError, Settle, Working, ensure_writer,
         PushCancelled, PushCompleted, Build, FollowBegins, FollowLocks, FollowStops, PushReturns, Maintain,
         Tick, FollowEvents, FollowFails, Failing, DrainThen, Goto, ThreadInv
<1>3. \A d \in Entries \ {e} : ent'[d] = ent[d]
  BY SMTT(20), SMTT(30) DEF Register, WorkerStep, Slow, wait_for_action, Release, RecordError, Settle, Working, ensure_writer,
         PushCancelled, PushCompleted, Build, FollowBegins, FollowLocks, FollowStops, PushReturns, Maintain,
         Tick, FollowEvents, FollowFails, EntryInv
<1>4. \A d \in Entries \ {e} : writer'[d] = writer[d]
  BY DEF Register, WorkerStep, Slow, wait_for_action, Release, RecordError, Settle, Working, ensure_writer,
         PushCancelled, PushCompleted, Build, FollowBegins, FollowLocks, FollowStops, PushReturns, Maintain,
         Tick, FollowEvents, FollowFails, workerVars, CallInv
<1>5. QED BY SMTT(20), SMTT(30), <1>1, <1>2, <1>3, <1>4

\* A worker parks only when it has nothing to do.
LEMMA WorkerWake ==
    ASSUME ThreadInv, EntryInv, CallInv, NEW e \in Entries, Register(e) \/ WorkerStep(e) \/ Slow(e),
           NEW d \in Entries, WakeInv(d)
    PROVE  WakeInv(d)'
<1>1. e \in Threads /\ e \notin Callers /\ WorkerInv(e)
  BY SMTT(20), SMTT(30), Disjoint DEF Threads, ThreadInv
<1>2. Notifying(d) => Notifying(d)'
  BY <1>1, WorkerFrame DEF Notifying, Threads
<1>3. UNCHANGED panics
  BY SMTT(20), SMTT(30), WorkerFrame
<1>4. CASE d # e
  <2>1. ent'[d] = ent[d] /\ writer'[d] = writer[d] /\ pc'[d] = pc[d]
    BY <1>4, WorkerFrame DEF Threads
  <2>2. QED BY SMTT(20), SMTT(30), <1>2, <1>3, <2>1, WakeKept DEF HasToDo
<1>5. CASE d = e /\ wait_for_action(e)
  <2>1. CASE pc'[e] \notin {"parked", "timed"}
    BY <1>5, <2>1 DEF WakeInv
  <2>2. CASE pc'[e] \in {"parked", "timed"}
    <3>1. CASE ent[e].ctrl = "Sleeping" /\ Goto(e, ParkOrRelease(e)) /\ UNCHANGED <<ent, workerVars>>
      <4>1. writer[e] = 0
        BY SMTT(20), SMTT(30), <1>1, <2>2, <3>1 DEF Goto, ParkOrRelease, ThreadInv
      <4>2. ~HasToDo(e)'
        BY <3>1, <4>1 DEF HasToDo, workerVars
      <4>3. QED BY SMTT(20), SMTT(30), <1>5, <4>2 DEF WakeInv
    <3>2. CASE ent[e].ctrl = "Running" /\ ~RoundIsDue(ent[e], due[e]) /\ UNCHANGED <<ent, workerVars>>
      <4>1. ~HasToDo(e)'
        BY SMTT(20), SMTT(30), <3>2 DEF HasToDo, RoundIsDue
      <4>2. QED BY <1>5, <4>1 DEF WakeInv
    <3>3. QED BY <1>1, <1>5, <2>2, <3>1, <3>2 DEF wait_for_action, Goto, ThreadInv
  <2>3. QED BY <2>1, <2>2
<1>6. CASE d = e /\ Tick(e)
  <2>1. pc'[e] \in {"parked", "timed"} => pc[e] \in {"parked", "timed"}
    BY <1>1, <1>6 DEF Tick, Goto, ThreadInv
  <2>2. HasToDo(e)' => HasToDo(e)
    BY <1>6 DEF Tick, HasToDo
  <2>3. QED BY <1>2, <1>3, <1>6, <2>1, <2>2, WakeKept
<1>7. CASE d = e /\ ~wait_for_action(e) /\ ~Tick(e)
  <2>1. pc'[e] \notin {"parked", "timed"}
    BY Zenon, <1>1, <1>7 DEF Register, WorkerStep, Slow, Release, RecordError, Settle, Working, ensure_writer,
       PushCancelled, PushCompleted, Build, FollowBegins, FollowLocks, FollowStops, PushReturns, Maintain,
       FollowEvents, FollowFails, Failing, DrainThen, Goto, ThreadInv
  <2>2. QED BY <1>7, <2>1 DEF WakeInv
<1>8. QED BY <1>4, <1>5, <1>6, <1>7

\* No step of the manager loses a wake-up.
LEMMA WakeNext ==
    ThreadInv /\ EntryInv /\ CallInv /\ (\A d \in Entries : WakeInv(d)) /\ [Next]_vars
    => \A d \in Entries : WakeInv(d)'
<1> SUFFICES ASSUME ThreadInv, EntryInv, CallInv, NEW d \in Entries, WakeInv(d), [Next]_vars PROVE WakeInv(d)'
  OBVIOUS
<1>1. CASE UNCHANGED vars
  BY SMTT(20), SMTT(30), <1>1 DEF vars, workerVars, WakeInv, HasToDo, Notifying
<1>2. ASSUME NEW r \in Readers, ReaderStep(r) PROVE WakeInv(d)'
  BY <1>2 DEF ReaderStep, WorkerOnly, workerVars, WakeInv, HasToDo, Notifying
<1>3. QED BY <1>1, <1>2, DrainWake, CallWake, WorkerWake DEF Next, DrainStep

\* No wake-up is lost between an entry's mutex and its condition variable.
THEOREM WakeupsArrive == Spec => []NoLostWakeup
<1> DEFINE Wakes == \A d \in Entries : WakeInv(d)
<1>1. Init => Wakes
  BY DEF Init, Threads, WakeInv
<1>2. ThreadInv /\ EntryInv /\ CallInv /\ Wakes /\ [Next]_vars => Wakes'
  BY WakeNext
<1>3. Wakes => NoLostWakeup
  BY DEF WakeInv, HasToDo, NoLostWakeup
<1> HIDE DEF Wakes
<1>4. QED BY <1>1, <1>2, <1>3, ThreadsInvariant, EntriesInvariant, CallsInvariant, PTL DEF Spec

----------------------------------------------------------------------------
(* Delivery of events *)

\* A thread that is delivering events of an entry.
Delivers(t, e) == Drains(t, e) /\ pc[t] \in {"drain", "emit"}
Emits(t, e)    == Drains(t, e) /\ pc[t] = "emit"

\* The flag is up exactly while one thread is in a callback, and events that
\* are queued have a thread that will look at the queue again.
EventInv(e) ==
    /\ ent[e].emitting <=> \E t \in Threads : Emits(t, e)
    /\ \A t, u \in Threads : Emits(t, e) /\ Emits(u, e) => t = u
    /\ ent[e].pending # <<>> /\ panics = 0 => pc[e] = "settle" \/ \E t \in Threads : Delivers(t, e)

\* Delivery by one thread.
LEMMA DrainEvents ==
    ASSUME ThreadInv, EntryInv, CallInv, NEW t \in Threads, NEW e \in Entries,
           Drain(t, e) \/ EmitReturns(t, e) \/ EmitPanics(t, e),
           NEW d \in Entries, EventInv(d)
    PROVE  EventInv(d)'
<1>1. /\ pc[t] \in {"drain", "emit"} /\ Drains(t, e) /\ pc' = [pc EXCEPT ![t] = pc'[t]]
      /\ \A u \in Threads \ {t} : pc'[u] = pc[u]
  BY DEF Drain, EmitReturns, EmitPanics, Emitted, Goto, ThreadInv
<1>2. \A u \in Threads \ {t}, b \in Entries : Drains(u, b)' <=> Drains(u, b)
  BY DEF Drain, EmitReturns, EmitPanics, Drains, CallInv
<1>3. \A b \in Entries : Drains(t, b) <=> b = e
  BY <1>1, Disjoint DEF Drains
<1>4. \A b \in Entries : Drains(t, b)' => b = e
  <2>1. call' = call \/ (t # e /\ call' = [call EXCEPT ![t] = NoCall])
    BY DEF Drain, EmitReturns, EmitPanics
  <2>2. CASE call' = call
    BY <1>3, <2>2 DEF Drains
  <2>3. CASE t # e /\ call' = [call EXCEPT ![t] = NoCall]
    BY <1>1, <2>3, Disjoint DEF Drains, CallInv, NoCall
  <2>4. QED BY <2>1, <2>2, <2>3
<1>5. CASE d # e
  <2>1. ent'[d] = ent[d]
    BY <1>5, DrainEffect
  <2>2. d # t /\ d \in Threads
    BY <1>1, <1>5, Disjoint DEF Drains, Threads
  <2>3. pc'[d] = pc[d]
    BY <1>1, <2>2
  <2>4. \A u \in Threads : (Emits(u, d)' <=> Emits(u, d)) /\ (Delivers(u, d)' <=> Delivers(u, d))
    BY <1>1, <1>2, <1>3, <1>4, <1>5 DEF Emits, Delivers
  <2>5. panics' = 0 => panics = 0
    BY DEF Drain, EmitReturns, EmitPanics, CallInv
  <2>6. QED BY ZenonT(30), <2>1, <2>3, <2>4, <2>5 DEF EventInv
<1>6. CASE d = e /\ Drain(t, e) /\ UNCHANGED ent
  <2>1. /\ pc[t] = "drain" /\ pc'[t] = ret[t] /\ Leave(ent[e]) /\ UNCHANGED <<call, panics>>
        /\ ret[t] \notin {"drain", "emit"}
    <3>1. CASE Leave(ent[e])
      BY <1>6, <3>1 DEF Drain, Goto, ThreadInv, WorkerInv, CallerInv, Threads
    <3>2. CASE ~Leave(ent[e])
      <4>1. /\ ent' = [ent EXCEPT ![e].pending = Tail(@), ![e].emitting = TRUE]
            /\ ent[e].pending # <<>> /\ ~ent[e].emitting
        BY <1>6, <3>2 DEF Drain, Leave
      <4>2. ent'[e] = [ent[e] EXCEPT !.pending = Tail(@), !.emitting = TRUE] /\ EntryOK(ent[e])
        BY <4>1 DEF EntryInv
      <4>3. ent'[e].emitting
        BY Zenon, <4>1, <4>2, TakeEvent
      <4>4. QED BY <1>6, <4>1, <4>3
    <3>3. QED BY Zenon, <3>1, <3>2
  <2>2. \A u \in Threads : Emits(u, e)' <=> Emits(u, e)
    BY SMTT(20), SMTT(30), <1>1, <1>2, <2>1 DEF Emits
  <2>3. ent[e].pending # <<>> => \E u \in Threads : Emits(u, e)'
    BY <1>6, <2>1, <2>2 DEF Leave, EventInv
  <2>4. QED BY Zenon, <1>6, <2>2, <2>3 DEF EventInv, Emits, Delivers
<1>7. CASE d = e /\ Drain(t, e) /\ ~UNCHANGED ent
  <2>1. /\ pc'[t] = "emit" /\ UNCHANGED <<call, panics>> /\ ent[e].pending # <<>> /\ ~ent[e].emitting
        /\ ent' = [ent EXCEPT ![e].pending = Tail(@), ![e].emitting = TRUE]
    BY Zenon, <1>7 DEF Drain, Leave, Goto, ThreadInv
  <2>2. ent'[e] = [ent[e] EXCEPT !.pending = Tail(@), !.emitting = TRUE] /\ EntryOK(ent[e])
    BY <2>1 DEF EntryInv
  <2>3. ent'[e].emitting
    BY Zenon, <2>1, <2>2, TakeEvent
  <2>4. Emits(t, e)' /\ \A u \in Threads : Emits(u, e)' => u = t
    BY <1>1, <1>2, <1>7, <2>1 DEF Emits, EventInv, Drains
  <2>5. QED BY Zenon, <1>7, <2>3, <2>4 DEF EventInv, Emits, Delivers
<1>8. CASE d = e /\ (EmitReturns(t, e) \/ EmitPanics(t, e))
  <2>1. /\ ent' = [ent EXCEPT ![e].emitting = FALSE] /\ pc[t] = "emit" /\ pc'[t] # "emit"
        /\ EmitReturns(t, e) => pc'[t] = "drain" /\ UNCHANGED call
        /\ EmitPanics(t, e) => panics' # 0
    BY <1>8 DEF EmitReturns, EmitPanics, Emitted, Goto, ThreadInv, CallInv
  <2>2. ent'[e] = [ent[e] EXCEPT !.emitting = FALSE] /\ EntryOK(ent[e])
    BY <2>1 DEF EntryInv
  <2>3. ~ent'[e].emitting
    BY <2>2, ClearFlag
  <2>4. \A u \in Threads : ~Emits(u, e)'
    BY <1>1, <1>2, <1>8, <2>1 DEF Emits, EventInv
  <2>5. EmitReturns(t, e) => Delivers(t, e)'
    BY <1>1, <2>1 DEF Delivers, Drains
  <2>6. QED BY <1>8, <2>1, <2>3, <2>4, <2>5 DEF EventInv
<1>9. QED BY <1>5, <1>6, <1>7, <1>8

\* What a call does to the events of an entry: only sleep() queues one.
LEMMA CallEffect ==
    ASSUME EntryInv, NEW c \in Callers, Call(c) \/ CallStep(c), NEW d \in Entries
    PROVE  /\ ent'[d].emitting <=> ent[d].emitting
           /\ ent'[d].pending = ent[d].pending \/ (sleep_entry(c, d) /\ DrainThen(c, "notify") /\ Turn(c, d))
<1>1. EntryOK(ent[d])
  BY DEF EntryInv
<1>2. CASE ent'[d] = ent[d]
  BY <1>2
<1>3. CASE ent'[d] # ent[d] /\ sleep_entry(c, d)
  <2>1. /\ ent' = [ent EXCEPT ![d] = Slept(ent[d])] /\ ent[d].ctrl = "Running"
        /\ DrainThen(c, "notify") /\ Turn(c, d)
    BY <1>3 DEF sleep_entry, SleepIgnored
  <2>2. ent'[d] = Slept(ent[d])
    BY <2>1 DEF EntryInv
  <2>3. ent'[d].emitting = ent[d].emitting
    BY <1>1, <2>1, <2>2, SleptFits
  <2>4. QED BY ZenonT(30), <1>3, <2>1, <2>3
<1>4. CASE ent'[d] # ent[d] /\ ~sleep_entry(c, d)
  <2>1. SameEvents(ent[d], ent'[d])
    <3>1. resume_entry(c, d) \/ push_or_sync_now(c, d) \/ signal_shutdown(c, d)
      <4>1. PICK e \in Entries : sleep_entry(c, e) \/ resume_entry(c, e) \/ push_or_sync_now(c, e)
                                 \/ signal_shutdown(c, e)
        BY <1>4 DEF Call, CallStep, notify_all, Return
      <4>2. \A b \in Entries \ {e} : ent'[b] = ent[b]
        BY <4>1 DEF sleep_entry, resume_entry, push_or_sync_now, signal_shutdown, EntryInv
      <4>3. QED BY <1>4, <4>1, <4>2
    <3>2. CASE ent' = [ent EXCEPT ![d] = Resumed(ent[d])] /\ ent[d].ctrl = "Sleeping"
      <4>1. ent'[d] = Resumed(ent[d])
        BY <3>2 DEF EntryInv
      <4>2. QED BY <1>1, <3>2, <4>1, ResumedFits
    <3>3. CASE ent' = [ent EXCEPT ![d].nudged = TRUE] /\ ent[d].ctrl = "Running"
      <4>1. ent'[d] = Nudged(ent[d], FALSE)
        BY Zenon, <3>3, FieldSteps
      <4>2. QED BY Zenon, <1>1, <3>3, <4>1, NudgedFits
    <3>4. CASE ent' = [ent EXCEPT ![d] = Nudged(ent[d], kind[d] = "follow")] /\ ent[d].ctrl = "Running"
      <4>1. ent'[d] = Nudged(ent[d], kind[d] = "follow")
        BY SMTT(20), SMTT(30), <3>4 DEF EntryInv
      <4>2. \A swap : SameEvents(ent[d], Nudged(ent[d], swap))
        BY <1>1, <3>4, NudgedFits
      <4>3. QED BY Zenon, <4>1, <4>2
    <3>5. CASE signal_shutdown(c, d)
      <4>1. ent'[d] = [ent[d] EXCEPT !.ctrl = "Shutdown", !.cancelled = @ \cup {ent[d].session}]
        BY Zenon, <3>5, FieldSteps DEF signal_shutdown
      <4>2. QED BY Zenon, <1>1, <4>1, EndedFits
    <3>6. CASE resume_entry(c, d)
      BY SMTT(20), <1>4, <3>2, <3>3, <3>6 DEF resume_entry
    <3>7. CASE push_or_sync_now(c, d)
      BY ZenonT(30), <1>4, <3>4, <3>7 DEF push_or_sync_now
    <3>8. QED BY SMTT(20), <3>1, <3>5, <3>6, <3>7
  <2>2. QED BY Zenon, <2>1 DEF SameEvents
<1>5. QED BY Zenon, <1>2, <1>3, <1>4

\* A call strands no event: sleep() delivers the one it queues.
LEMMA CallEvents ==
    ASSUME ThreadInv, EntryInv, CallInv, NEW c \in Callers, Call(c) \/ CallStep(c),
           NEW d \in Entries, EventInv(d)
    PROVE  EventInv(d)'
<1>1. UNCHANGED panics /\ c \in Threads
  BY Zenon DEF Call, CallStep, sleep_entry, resume_entry, push_or_sync_now, signal_shutdown, notify_all, Return,
         CallOnly, Threads
<1>2. \A b \in Callers \ {c} : call'[b] = call[b]
  BY Zenon DEF Call, CallStep, sleep_entry, resume_entry, push_or_sync_now, signal_shutdown,
     notify_all, Return, Next1, Turn, CallInv
<1>3. /\ pc[c] \in {"idle", "call", "notify"} /\ pc'[c] # "emit"
      /\ \A t \in Threads \ {c} : \/ pc'[t] = pc[t]
                                  \/ pc[t] \in {"parked", "timed"} /\ pc'[t] = "wait"
  <2>1. CASE notify_all(c)
    BY <1>1, <2>1 DEF notify_all
  <2>2. CASE ~notify_all(c)
    BY Zenon, <1>1, <2>2 DEF Call, CallStep, sleep_entry, resume_entry, push_or_sync_now, signal_shutdown, Return,
                      DrainThen, Goto, On, ThreadInv
  <2>3. QED BY <2>1, <2>2
<1>4. \A t \in Threads \ {c} : Drains(t, d)' <=> Drains(t, d)
  BY SMTT(20), SMTT(30), <1>2 DEF Drains
<1>5. \A t \in Threads : Emits(t, d)' <=> Emits(t, d)
  BY SMTT(20), SMTT(30), <1>3, <1>4 DEF Emits
<1>6. \A t \in Threads : Delivers(t, d) => Delivers(t, d)'
  BY <1>3, <1>4 DEF Delivers
<1>7. pc[d] = "settle" => pc'[d] = "settle"
  BY <1>3 DEF Threads
<1>8. CASE ent'[d].pending = ent[d].pending
  BY Zenon, <1>1, <1>5, <1>6, <1>7, <1>8, CallEffect DEF EventInv
<1>9. CASE DrainThen(c, "notify") /\ Turn(c, d)
  <2>1. pc'[c] = "drain" /\ call'[c].cur = {d}
    BY <1>1, <1>9 DEF DrainThen, Goto, Turn, ThreadInv, CallInv, CallRecord
  <2>2. Delivers(c, d)'
    BY <2>1 DEF Delivers, Drains
  <2>3. QED BY Zenon, <1>1, <1>5, <2>2, CallEffect DEF EventInv
<1>10. QED BY <1>8, <1>9, CallEffect

\* A worker strands no event: it delivers what it queues.
LEMMA WorkerEvents ==
    ASSUME ThreadInv, EntryInv, CallInv, NEW e \in Entries, Register(e) \/ WorkerStep(e) \/ Slow(e),
           NEW d \in Entries, EventInv(d)
    PROVE  EventInv(d)'
<1>1. e \in Threads /\ e \notin Callers /\ WorkerInv(e)
  BY Disjoint DEF Threads, ThreadInv
<1>2. /\ UNCHANGED <<call, panics>>
      /\ \A t \in Threads \ {e} : pc'[t] = pc[t]
      /\ \A b \in Entries \ {e} : ent'[b] = ent[b]
  BY WorkerFrame
<1>3. \A t \in Threads : Drains(t, d)' <=> Drains(t, d)
  BY SMTT(20), SMTT(30), <1>2 DEF Drains
<1>4. pc[e] \notin {"drain", "emit"} /\ pc'[e] # "emit"
  BY <1>1 DEF Register, WorkerStep, Slow, wait_for_action, ParkOrRelease, Release, RecordError, Settle,
     Working, ensure_writer, PushCancelled, PushCompleted, Build, FollowBegins, FollowLocks, FollowStops,
     PushReturns, Maintain, Tick, FollowEvents, FollowFails, Failing, DrainThen, Goto, ThreadInv
<1>5. \A t \in Threads : (Emits(t, d)' <=> Emits(t, d)) /\ (Delivers(t, d) => Delivers(t, d)')
  BY <1>2, <1>3, <1>4 DEF Emits, Delivers
<1>6. CASE d # e
  <2>1. ent'[d] = ent[d] /\ pc'[d] = pc[d]
    BY <1>2, <1>6 DEF Threads
  <2>2. QED BY ZenonT(30), <1>2, <1>5, <2>1 DEF EventInv
<1>7. CASE d = e /\ (RecordError(e) \/ PushCompleted(e) \/ Settle(e) \/ Working(e))
  <2>1. pc'[e] = "settle" \/ Delivers(e, e)'
    BY Zenon, <1>1, <1>7 DEF RecordError, PushCompleted, Settle, Working, DrainThen, Goto, ThreadInv, Delivers, Drains
  <2>2. EntryOK(ent[e])
    BY DEF EntryInv
  <2>3. ent'[e].emitting <=> ent[e].emitting
    <3>1. CASE RecordError(e) \/ PushCompleted(e)
      <4>1. PICK event \in Events : ent' = [ent EXCEPT ![e] = Report(ent[e], event)]
        BY <3>1 DEF RecordError, PushCompleted, Events
      <4>2. ent'[e] = Report(ent[e], event)
        BY SMTT(20), SMTT(30), <4>1 DEF EntryInv
      <4>3. ent'[e].emitting = ent[e].emitting
        BY Zenon, <2>2, <4>2, ReportFits
      <4>4. QED BY Zenon, <4>3
    <3>2. CASE Settle(e) \/ Working(e)
      <4>1. PICK new \in {"Idle", "Working", "BackingOff", "Failed"} :
              ent' = [ent EXCEPT ![e] = transition_running(ent[e], new)]
        BY Zenon, <1>1, <3>2 DEF Settle, Working, WorkerInv
      <4>2. ent'[e] = transition_running(ent[e], new)
        BY <4>1 DEF EntryInv
      <4>3. ent'[e].emitting = ent[e].emitting
        BY Zenon, <2>2, <4>2, TransitionFits
      <4>4. QED BY ZenonT(30), <4>3
    <3>3. QED BY Zenon, <1>7, <3>1, <3>2
  <2>4. QED BY Zenon, <1>1, <1>5, <1>7, <2>1, <2>3 DEF EventInv
<1>8. CASE d = e /\ ~(RecordError(e) \/ PushCompleted(e) \/ Settle(e) \/ Working(e))
  <2>1. pc[e] # "settle"
    BY SMTT(20), SMTT(30), <1>8 DEF Register, WorkerStep, Slow, wait_for_action, Release, ensure_writer, PushCancelled, Build,
       FollowBegins, FollowLocks, FollowStops, PushReturns, Maintain, Tick, FollowEvents, FollowFails
  <2>2. ent'[e].pending = ent[e].pending /\ (ent'[e].emitting <=> ent[e].emitting)
    <3>1. CASE UNCHANGED ent
      BY <3>1
    <3>2. CASE ent' = [ent EXCEPT ![e].nudged = FALSE]
      <4>1. ent'[e] = [ent[e] EXCEPT !.nudged = FALSE] /\ EntryOK(ent[e])
        BY Zenon, <3>2, FieldSteps DEF EntryInv
      <4>2. SameEvents(ent[e], ent'[e])
        BY <4>1, RoundFits
      <4>3. QED BY Zenon, <4>2 DEF SameEvents
    <3>3. QED BY <1>8, <3>1, <3>2
              DEF Register, WorkerStep, Slow, wait_for_action, Release, ensure_writer, PushCancelled, Build,
                  FollowBegins, FollowLocks, FollowStops, PushReturns, Maintain, Tick, FollowEvents, FollowFails
  <2>3. QED BY Zenon, <1>2, <1>5, <1>8, <2>1, <2>2 DEF EventInv
<1>9. QED BY <1>6, <1>7, <1>8

\* No step of the manager strands an event.
LEMMA EventNext ==
    ThreadInv /\ EntryInv /\ CallInv /\ (\A d \in Entries : EventInv(d)) /\ [Next]_vars
    => \A d \in Entries : EventInv(d)'
<1> SUFFICES ASSUME ThreadInv, EntryInv, CallInv, NEW d \in Entries, EventInv(d), [Next]_vars PROVE EventInv(d)'
  OBVIOUS
<1>1. CASE UNCHANGED <<ent, pc, call, panics>>
  BY <1>1 DEF EventInv, Emits, Delivers, Drains
<1>2. ASSUME NEW r \in Readers, ReaderStep(r) PROVE UNCHANGED <<ent, pc, call, panics>>
  BY SMTT(20), SMTT(30), <1>2 DEF ReaderStep, WorkerOnly
<1>3. QED BY SMTT(20), SMTT(30), <1>1, <1>2, DrainEvents, CallEvents, WorkerEvents DEF Next, DrainStep, vars

\* An event that is queued is delivered by somebody, although everyone who
\* finds a delivery in progress leaves.
THEOREM EventsAreDelivered == Spec => []NoStrandedEvent
<1> DEFINE Delivered == \A d \in Entries : EventInv(d)
<1>1. Init => Delivered
  <2> SUFFICES ASSUME Init, NEW d \in Entries PROVE EventInv(d)
    OBVIOUS
  <2>1. ent[d].pending = <<>> /\ ~ent[d].emitting
    BY Zenon DEF Init, NewEntry
  <2>2. \A t \in Threads : pc[t] # "emit"
    BY DEF Init
  <2>3. QED BY <2>1, <2>2 DEF EventInv, Emits
<1>2. ThreadInv /\ EntryInv /\ CallInv /\ Delivered /\ [Next]_vars => Delivered'
  BY EventNext
<1>3. Delivered => NoStrandedEvent
  BY DEF EventInv, Delivers, NoStrandedEvent
<1> HIDE DEF Delivered
<1>4. QED BY <1>1, <1>2, <1>3, ThreadsInvariant, EntriesInvariant, CallsInvariant, PTL DEF Spec

----------------------------------------------------------------------------
(* What the observer was told *)

\* The state the observer has been told once the queue q is delivered, when it
\* was told d before.
Latest(q, d, v) ==
    \/ v = d /\ \A i \in 1..Len(q) : q[i] \notin DbState
    \/ \E i \in 1..Len(q) : q[i] = v /\ v \in DbState /\ \A j \in (i + 1)..Len(q) : q[j] \notin DbState

\* The round a resume asked for has not begun, or has not got far enough to
\* change the state.
Gap(e) ==
    /\ ent[e].state = "Idle"
    /\ \/ ent[e].nudged \/ ent[e].ctrl = "Shutdown" \/ pc[e] = "exited"
       \/ pc[e] \in {"working", "build", "settle"}
       \/ pc[e] = "error" /\ ret[e] # "rest"
       \/ pc[e] = "wait" /\ kind[e] = "follow" /\ due[e] = "now"

\* When the queue is delivered, the observer that was told d knows the state.
ToldOK(e, d) ==
    \/ Latest(ent[e].pending, d, ent[e].state)
    \/ Latest(ent[e].pending, d, "Sleeping") /\ Gap(e)

\* So it is with what is being delivered; and a follower that builds its storage
\* comes back to a round that is due.
ToldInv(e) ==
    /\ ~ent[e].emitting => ToldOK(e, seen[e])
    /\ \A t \in Threads : Emits(t, e) => ToldOK(e, IF ev[t] \in DbState THEN ev[t] ELSE seen[e])
    /\ pc[e] = "build" => kind[e] = "follow" /\ due[e] = "now"

\* The shape of what observers saw.
ToldTypes ==
    /\ seen \in [Entries -> DbState] /\ ev \in [Threads -> Events \cup {NoEvent}]
    /\ due \in [Entries -> {"now", "at", "never"}] /\ kind \in [Entries -> {"interval", "manual", "follow"}]

\* Only delivery tells the observer anything.
LEMMA OnlyDelivery ==
    /\ \A e \in Entries : Register(e) \/ WorkerStep(e) \/ Slow(e) => UNCHANGED <<kind, seen, ev>>
    /\ \A c \in Callers : Call(c) \/ CallStep(c) => UNCHANGED <<kind, seen, ev>>
    /\ \A r \in Readers : ReaderStep(r) => UNCHANGED <<kind, seen, ev>>
<1>1. ASSUME NEW e \in Entries, Register(e) \/ WorkerStep(e) \/ Slow(e) PROVE UNCHANGED <<kind, seen, ev>>
  BY <1>1 DEF Register, WorkerStep, Slow, wait_for_action, Release, RecordError, Settle, Working, ensure_writer,
     PushCancelled, PushCompleted, Build, FollowBegins, FollowLocks, FollowStops, PushReturns, Maintain,
     Tick, FollowEvents, FollowFails, WorkerOnly, AlsoKeeps
<1>2. ASSUME NEW c \in Callers, Call(c) \/ CallStep(c) PROVE UNCHANGED <<kind, seen, ev>>
  BY Zenon, <1>2 DEF Call, CallStep, sleep_entry, resume_entry, push_or_sync_now, signal_shutdown, notify_all, Return, CallOnly
<1>3. ASSUME NEW r \in Readers, ReaderStep(r) PROVE UNCHANGED <<kind, seen, ev>>
  BY <1>3 DEF ReaderStep, WorkerOnly
<1>4. QED BY SMTT(20), SMTT(30), <1>1, <1>2, <1>3

\* The types of what is told and when rounds are due are kept.
LEMMA ToldTypesNext == EntryInv /\ ToldTypes /\ [Next]_vars => ToldTypes'
<1> SUFFICES ASSUME EntryInv, ToldTypes, [Next]_vars PROVE ToldTypes'
  OBVIOUS
<1>1. kind' = kind
  <2>1. ASSUME NEW t \in Threads, NEW e \in Entries, Drain(t, e) \/ EmitReturns(t, e) \/ EmitPanics(t, e) PROVE kind' = kind
    BY <2>1 DEF Drain, EmitReturns, EmitPanics
  <2>2. QED BY Zenon, <2>1, OnlyDelivery DEF Next, DrainStep, vars
<1>2. due' \in [Entries -> {"now", "at", "never"}]
  <2>1. \A e \in Entries : Scheduled(e) \in {"now", "at", "never"}
    <3> SUFFICES ASSUME NEW e \in Entries PROVE Scheduled(e) \in {"now", "at", "never"}
      OBVIOUS
    <3>1. kind[e] \in {"interval", "manual", "follow"}
      BY DEF ToldTypes
    <3>2. QED BY <3>1 DEF Scheduled
  <2>2. \/ due' = due
        \/ \E e \in Entries, x \in {"now", "at", "never"} : due' = [due EXCEPT ![e] = x]
    <3>1. ASSUME NEW e \in Entries, wait_for_action(e) \/ Settle(e) \/ Tick(e)
          PROVE  due' = due \/ \E x \in {"now", "at", "never"} : due' = [due EXCEPT ![e] = x]
      BY <2>1, <3>1 DEF wait_for_action, Settle, Tick, workerVars, ToldTypes
    <3>2. (\E e \in Entries : wait_for_action(e) \/ Settle(e) \/ Tick(e)) \/ due' = due
      BY ZenonT(30) DEF Next, DrainStep, Drain, EmitReturns, EmitPanics, Call, CallStep, sleep_entry, resume_entry, push_or_sync_now,
         signal_shutdown, notify_all, Return, CallOnly, Register, WorkerStep, Slow, Release, RecordError,
         Working, ensure_writer, PushCancelled, PushCompleted, Build, FollowBegins, FollowLocks, FollowStops,
         PushReturns, Maintain, FollowEvents, FollowFails, ReaderStep, workerVars, vars
    <3>3. QED BY <3>1, <3>2
  <2>3. QED BY <2>2 DEF ToldTypes
<1>3. seen' \in [Entries -> DbState] /\ ev' \in [Threads -> Events \cup {NoEvent}]
  <2>1. CASE UNCHANGED <<seen, ev>>
    BY <2>1 DEF ToldTypes
  <2>2. ASSUME NEW t \in Threads, NEW e \in Entries, Drain(t, e), ~Leave(ent[e])
        PROVE  seen' = seen /\ ev' = [ev EXCEPT ![t] = Head(ent[e].pending)] /\ Head(ent[e].pending) \in Events
    <3>1. ent[e].pending \in Seq(Events) /\ ent[e].pending # <<>>
      BY <2>2 DEF EntryInv, EntryShared, Leave
    <3>2. QED BY <2>2, <3>1 DEF Drain
  <2>3. ASSUME NEW t \in Threads, NEW e \in Entries, Emitted(t, e)
        PROVE  seen' \in [Entries -> DbState] /\ ev' \in [Threads -> Events \cup {NoEvent}]
    BY <2>3 DEF Emitted, ToldTypes
  <2>4. ASSUME NEW t \in Threads, NEW e \in Entries, Drain(t, e) \/ EmitReturns(t, e) \/ EmitPanics(t, e)
        PROVE  seen' \in [Entries -> DbState] /\ ev' \in [Threads -> Events \cup {NoEvent}]
    <3>1. CASE Drain(t, e) /\ Leave(ent[e])
      BY <2>1, <3>1 DEF Drain
    <3>2. CASE Drain(t, e) /\ ~Leave(ent[e])
      BY <2>2, <3>2 DEF ToldTypes
    <3>3. CASE EmitReturns(t, e) \/ EmitPanics(t, e)
      BY <2>3, <3>3 DEF EmitReturns, EmitPanics
    <3>4. QED BY <2>4, <3>1, <3>2, <3>3
  <2>5. (\E t \in Threads, e \in Entries : Drain(t, e) \/ EmitReturns(t, e) \/ EmitPanics(t, e)) \/ UNCHANGED <<seen, ev>>
    BY Zenon, OnlyDelivery DEF Next, DrainStep, vars
  <2>6. QED BY <2>1, <2>4, <2>5
<1>4. QED BY <1>1, <1>2, <1>3 DEF ToldTypes

\* The types hold throughout.
LEMMA ToldTypesInvariant == Spec => []ToldTypes
<1>1. Init => ToldTypes
  <2> SUFFICES ASSUME Init PROVE ToldTypes
    OBVIOUS
  <2>1. kind \in [Entries -> {"interval", "manual", "follow"}]
    BY ManagerAssumption DEF Init
  <2>2. QED BY <2>1 DEF Init, ToldTypes, DbState, NoEvent
<1>2. QED BY <1>1, ToldTypesNext, EntriesInvariant, PTL DEF Spec

\* An event that is queued is what the observer is told last, if it is a state.
LEMMA LatestAppend ==
    ASSUME NEW q \in Seq(Events), NEW x, NEW d
    PROVE  /\ x \in DbState => Latest(Append(q, x), d, x)
           /\ x \notin DbState => \A v : Latest(q, d, v) => Latest(Append(q, x), d, v)
<1>1. Len(Append(q, x)) = Len(q) + 1 /\ Append(q, x)[Len(q) + 1] = x /\ Len(q) \in Nat
      /\ \A i \in 1..Len(q) : Append(q, x)[i] = q[i]
  OBVIOUS
<1>2. ASSUME x \in DbState PROVE Latest(Append(q, x), d, x)
  BY SMTT(20), SMTT(30), <1>1, <1>2 DEF Latest
<1>3. ASSUME x \notin DbState, NEW v, Latest(q, d, v) PROVE Latest(Append(q, x), d, v)
  <2>1. CASE v = d /\ \A i \in 1..Len(q) : q[i] \notin DbState
    <3>1. \A i \in 1..(Len(q) + 1) : Append(q, x)[i] \notin DbState
      BY <1>1, <1>3, <2>1
    <3>2. QED BY <1>1, <2>1, <3>1 DEF Latest
  <2>2. ASSUME NEW i \in 1..Len(q), q[i] = v, v \in DbState, \A j \in (i + 1)..Len(q) : q[j] \notin DbState
        PROVE  Latest(Append(q, x), d, v)
    <3>1. i \in 1..(Len(q) + 1) /\ Append(q, x)[i] = v
      BY <1>1, <2>2
    <3>2. \A j \in (i + 1)..(Len(q) + 1) : Append(q, x)[j] \notin DbState
      BY <1>1, <1>3, <2>2
    <3>3. QED BY <1>1, <2>2, <3>1, <3>2 DEF Latest
  <2>3. QED BY <1>3, <2>1, <2>2 DEF Latest
<1>4. QED BY <1>2, <1>3

\* The oldest event is delivered.
LEMMA LatestTail ==
    ASSUME NEW q \in Seq(Events), q # <<>>, NEW d, NEW v, Latest(q, d, v)
    PROVE  Latest(Tail(q), IF Head(q) \in DbState THEN Head(q) ELSE d, v)
<1>1. Len(q) \in Nat /\ Len(q) >= 1 /\ Len(Tail(q)) = Len(q) - 1 /\ Head(q) = q[1]
      /\ \A i \in 1..(Len(q) - 1) : Tail(q)[i] = q[i + 1]
  OBVIOUS
<1>2. CASE v = d /\ \A i \in 1..Len(q) : q[i] \notin DbState
  <2>1. \A i \in 1..(Len(q) - 1) : Tail(q)[i] \notin DbState
    BY <1>1, <1>2
  <2>2. QED BY <1>1, <1>2, <2>1 DEF Latest
<1>3. ASSUME NEW i \in 1..Len(q), q[i] = v, v \in DbState, \A j \in (i + 1)..Len(q) : q[j] \notin DbState
      PROVE  Latest(Tail(q), IF Head(q) \in DbState THEN Head(q) ELSE d, v)
  <2>1. CASE i = 1
    <3>1. \A j \in 1..(Len(q) - 1) : Tail(q)[j] \notin DbState
      BY <1>1, <1>3, <2>1
    <3>2. QED BY <1>1, <1>3, <2>1, <3>1 DEF Latest
  <2>2. CASE i > 1
    <3>1. PICK k \in 1..(Len(q) - 1) : i = k + 1
      BY <1>1, <2>2
    <3>2. Tail(q)[k] = v
      BY <1>1, <1>3, <3>1
    <3>3. \A j \in (k + 1)..(Len(q) - 1) : Tail(q)[j] \notin DbState
      BY <1>1, <1>3, <3>1
    <3>4. QED BY <1>1, <1>3, <3>2, <3>3 DEF Latest
  <2>3. QED BY <2>1, <2>2
<1>4. QED BY <1>2, <1>3 DEF Latest

\* Nothing is left to deliver.
LEMMA LatestEmpty ==
    ASSUME NEW d, NEW v, Latest(<<>>, d, v)
    PROVE  v = d
BY DEF Latest

\* What is told and what is delivered is as it was.
LEMMA ToldKept ==
    ASSUME NEW d \in Entries, ToldInv(d), ent'[d].emitting <=> ent[d].emitting,
           \A t \in Threads : Emits(t, d)' => Emits(t, d) /\ ev'[t] = ev[t], seen'[d] = seen[d],
           \A x : ToldOK(d, x) => ToldOK(d, x)',
           pc'[d] = "build" => kind'[d] = "follow" /\ due'[d] = "now"
    PROVE  ToldInv(d)'
<1>1. ~ent'[d].emitting => ToldOK(d, seen[d])'
  BY ZenonT(30) DEF ToldInv
<1>2. ASSUME NEW t \in Threads, Emits(t, d)' PROVE ToldOK(d, IF ev[t] \in DbState THEN ev[t] ELSE seen[d])'
  <2>1. ToldOK(d, IF ev[t] \in DbState THEN ev[t] ELSE seen[d]) /\ ev'[t] = ev[t]
    BY Zenon, <1>2 DEF ToldInv
  <2>2. PICK x : x = IF ev[t] \in DbState THEN ev[t] ELSE seen[d]
    BY SMTT(20), SMTT(30)
  <2>3. ToldOK(d, x)'
    BY SMTT(20), SMTT(30), <2>1, <2>2
  <2>4. x = IF ev'[t] \in DbState THEN ev'[t] ELSE seen'[d]
    BY <2>1, <2>2
  <2>5. QED BY SMTT(20), <2>3, <2>4
<1>3. QED BY ZenonT(30), <1>1, <1>2 DEF ToldInv

\* The queue and the state are as they were.
LEMMA ToldSame ==
    ASSUME NEW d \in Entries, ent'[d].pending = ent[d].pending, ent'[d].state = ent[d].state, Gap(d) => Gap(d)'
    PROVE  \A x : ToldOK(d, x) => ToldOK(d, x)'
BY DEF ToldOK

\* Delivery tells what was queued, in order.
LEMMA DrainTold ==
    ASSUME ThreadInv, EntryInv, CallInv, ToldTypes, NEW t \in Threads, NEW e \in Entries,
           Drain(t, e) \/ EmitReturns(t, e) \/ EmitPanics(t, e),
           NEW d \in Entries, EventInv(d), ToldInv(d)
    PROVE  ToldInv(d)'
<1>1. /\ pc[t] \in {"drain", "emit"} /\ Drains(t, e) /\ pc' = [pc EXCEPT ![t] = pc'[t]]
      /\ (\A u \in Threads \ {t} : pc'[u] = pc[u]) /\ UNCHANGED <<kind, due>>
  BY SMTT(20) DEF Drain, EmitReturns, EmitPanics, Emitted, Goto, ThreadInv, workerVars
<1>2. \A u \in Threads \ {t} : ev'[u] = ev[u] /\ \A b \in Entries : Drains(u, b)' <=> Drains(u, b)
  <2>1. \A u \in Threads \ {t}, b \in Entries : Drains(u, b)' <=> Drains(u, b)
    BY DEF Drain, EmitReturns, EmitPanics, Drains, CallInv
  <2>2. \A u \in Threads \ {t} : ev'[u] = ev[u]
    BY SMTT(20), SMTT(30) DEF Drain, EmitReturns, EmitPanics, Emitted, ToldTypes
  <2>3. QED BY Zenon, <2>1, <2>2
<1>3. \A b \in Entries : Drains(t, b) <=> b = e
  BY <1>1, Disjoint DEF Drains
<1>4. \A b \in Entries : Drains(t, b)' => b = e
  <2>1. call' = call \/ (t # e /\ call' = [call EXCEPT ![t] = NoCall])
    BY SMTT(20), SMTT(30) DEF Drain, EmitReturns, EmitPanics
  <2>2. CASE call' = call
    BY <1>3, <2>2 DEF Drains
  <2>3. CASE t # e /\ call' = [call EXCEPT ![t] = NoCall]
    BY <1>1, <2>3, Disjoint DEF Drains, CallInv, NoCall
  <2>4. QED BY <2>1, <2>2, <2>3
<1>5. CASE d # e
  <2>1. ent'[d] = ent[d]
    BY ZenonT(30), <1>5, DrainEffect
  <2>2. d # t /\ d \in Threads
    BY ZenonT(30), <1>1, <1>5, Disjoint DEF Drains, Threads
  <2>3. pc'[d] = pc[d] /\ ret'[d] = ret[d]
    <3>1. ret'[d] = ret[d]
      BY SMTT(20), <2>2 DEF Drain, EmitReturns, EmitPanics, ThreadInv
    <3>2. QED BY Zenon, <1>1, <2>2, <3>1
  <2>4. \A u \in Threads : Emits(u, d)' => Emits(u, d) /\ ev'[u] = ev[u]
    BY Zenon, <1>1, <1>2, <1>3, <1>4, <1>5 DEF Emits
  <2>5. seen'[d] = seen[d]
    BY SMTT(20), <1>5 DEF Drain, EmitReturns, EmitPanics, Emitted, ToldTypes
  <2>6. Gap(d) => Gap(d)'
    BY ZenonT(30), <1>1, <2>1, <2>3 DEF Gap
  <2>7. \A x : ToldOK(d, x) => ToldOK(d, x)'
    BY Zenon, <2>1, <2>6, ToldSame
  <2>8. pc'[d] = "build" => kind'[d] = "follow" /\ due'[d] = "now"
    BY Zenon, <1>1, <2>3 DEF ToldInv
  <2>9. QED BY Zenon, <2>1, <2>4, <2>5, <2>7, <2>8, ToldKept
<1>6. Gap(e) => Gap(e)'
  <2>1. SameControl(ent[e], ent'[e])
    BY Zenon, DrainEffect
  <2>2. CASE t = e
    BY Zenon, <1>1, <2>1, <2>2 DEF Gap, SameControl
  <2>3. CASE t # e
    <3>1. pc'[e] = pc[e] /\ ret'[e] = ret[e]
      BY <1>1, <2>3 DEF Drain, EmitReturns, EmitPanics, ThreadInv, Threads
    <3>2. QED BY Zenon, <1>1, <2>1, <3>1 DEF Gap, SameControl
  <2>4. QED BY SMTT(20), <2>2, <2>3
<1>7. EntryOK(ent[e]) /\ ent[e].pending \in Seq(Events)
  BY Zenon DEF EntryInv, EntryOK, EntryShared
<1>8. ASSUME d = e PROVE pc'[e] = "build" => kind'[e] = "follow" /\ due'[e] = "now"
  <2>1. CASE t = e
    BY <1>1, <2>1 DEF Drain, EmitReturns, EmitPanics, Goto, ThreadInv, WorkerInv
  <2>2. CASE t # e
    BY Zenon, <1>1, <1>8, <2>2 DEF ToldInv, Threads
  <2>3. QED BY <2>1, <2>2
<1>9. CASE d = e /\ Drain(t, e) /\ Leave(ent[e])
  <2>1. UNCHANGED <<ent, ev, seen, call>> /\ pc'[t] = ret[t] /\ ret[t] # "emit"
    BY <1>9 DEF Drain, Goto, ThreadInv, WorkerInv, CallerInv, Threads
  <2>2. \A u \in Threads : Emits(u, e)' => Emits(u, e) /\ ev'[u] = ev[u]
    BY Zenon, <1>1, <1>2, <2>1 DEF Emits
  <2>3. \A x : ToldOK(e, x) => ToldOK(e, x)'
    BY Zenon, <1>6, <2>1, ToldSame
  <2>4. QED BY Zenon, <1>8, <1>9, <2>1, <2>2, <2>3, ToldKept
<1>10. CASE d = e /\ Drain(t, e) /\ ~Leave(ent[e])
  <2> DEFINE q == ent[e].pending
             x == IF Head(q) \in DbState THEN Head(q) ELSE seen[e]
  <2>1. /\ q # <<>> /\ ~ent[e].emitting /\ UNCHANGED <<seen, call>> /\ ev' = [ev EXCEPT ![t] = Head(q)]
        /\ ent' = [ent EXCEPT ![e].pending = Tail(@), ![e].emitting = TRUE] /\ pc'[t] = "emit"
    BY Zenon, <1>10 DEF Drain, Leave, Goto, ThreadInv
  <2>2. ent'[e] = [ent[e] EXCEPT !.pending = Tail(@), !.emitting = TRUE] /\ ev'[t] = Head(q)
    BY <2>1 DEF EntryInv, ToldTypes
  <2>3. ent'[e].pending = Tail(q) /\ ent'[e].emitting /\ ent'[e].state = ent[e].state
    <3>1. ent[e].pending # <<>>
      BY <2>1
    <3>2. SameControl(ent[e], ent'[e]) /\ ent'[e].pending = Tail(ent[e].pending) /\ ent'[e].emitting
      BY Zenon, <1>7, <2>2, <3>1, TakeEvent
    <3>3. QED BY Zenon, <3>2 DEF SameControl
  <2>4. ToldOK(e, seen[e])
    BY <1>10, <2>1 DEF ToldInv
  <2>5. ASSUME NEW y, y = x PROVE ToldOK(e, y)'
    <3>1. \A v : Latest(q, seen[e], v) => Latest(Tail(q), x, v)
      BY <1>7, <2>1, LatestTail
    <3> HIDE DEF x
    <3>2. QED BY Zenon, <1>6, <2>3, <2>4, <2>5, <3>1 DEF ToldOK
  <2>6. \A u \in Threads : Emits(u, e)' => u = t
    BY <1>1, <1>2, <1>10, <2>1 DEF Emits, EventInv
  <2>7. (IF ev[t] \in DbState THEN ev[t] ELSE seen[e])' = x
    BY <2>1, <2>2
  <2> HIDE DEF x, q
  <2>8. QED BY <1>8, <1>10, <2>1, <2>3, <2>5, <2>6, <2>7 DEF ToldInv
<1>11. CASE d = e /\ (EmitReturns(t, e) \/ EmitPanics(t, e))
  <2> DEFINE x == IF ev[t] \in DbState THEN ev[t] ELSE seen[e]
  <2>1. /\ ent' = [ent EXCEPT ![e].emitting = FALSE] /\ pc[t] = "emit" /\ pc'[t] # "emit"
        /\ seen'[e] = x
    BY <1>11 DEF EmitReturns, EmitPanics, Emitted, Goto, ThreadInv, ToldTypes
  <2>2. ent'[e] = [ent[e] EXCEPT !.emitting = FALSE]
    BY <2>1 DEF EntryInv
  <2>3. ent'[e].pending = ent[e].pending /\ ~ent'[e].emitting /\ ent'[e].state = ent[e].state
    BY Zenon, <1>7, <2>2, ClearFlag DEF SameControl
  <2>4. ToldOK(e, x)
    BY <1>1, <1>11, <2>1 DEF ToldInv, Emits
  <2>5. ToldOK(e, seen[e])'
    BY <1>6, <2>1, <2>3, <2>4 DEF ToldOK
  <2>6. \A u \in Threads : ~Emits(u, e)'
    BY SMTT(20), <1>1, <1>2, <1>11, <2>1 DEF Emits, EventInv
  <2>7. QED BY Zenon, <1>8, <1>11, <2>5, <2>6 DEF ToldInv
<1>12. QED BY <1>5, <1>9, <1>10, <1>11

\* A call leaves the observer with the state, or with a resume whose round is
\* still to begin.
LEMMA CallTold ==
    ASSUME ThreadInv, EntryInv, CallInv, ToldTypes, NEW c \in Callers, Call(c) \/ CallStep(c),
           NEW d \in Entries, EventInv(d), ToldInv(d)
    PROVE  ToldInv(d)'
<1>1. UNCHANGED <<kind, seen, ev, due>> /\ c \in Threads /\ d \in Threads /\ c # d
  BY Zenon, OnlyDelivery, Disjoint DEF Call, CallStep, sleep_entry, resume_entry, push_or_sync_now, signal_shutdown, notify_all,
     Return, CallOnly, workerVars, Threads
<1>2. \A b \in Callers \ {c} : call'[b] = call[b]
  BY Zenon DEF Call, CallStep, sleep_entry, resume_entry, push_or_sync_now, signal_shutdown,
     notify_all, Return, Next1, Turn, CallInv
<1>3. /\ pc[c] \in {"idle", "call", "notify"} /\ pc'[c] # "emit"
      /\ \A t \in Threads \ {c} : \/ pc'[t] = pc[t]
                                  \/ pc[t] \in {"parked", "timed"} /\ pc'[t] = "wait"
  <2>1. CASE notify_all(c)
    BY <1>1, <2>1 DEF notify_all
  <2>2. CASE ~notify_all(c)
    BY ZenonT(30), <1>1, <2>2 DEF Call, CallStep, sleep_entry, resume_entry, push_or_sync_now, signal_shutdown, Return,
                      DrainThen, Goto, On, ThreadInv
  <2>3. QED BY <2>1, <2>2
<1>4. \A t \in Threads : Emits(t, d)' => Emits(t, d)
  BY Zenon, <1>2, <1>3 DEF Emits, Drains
<1>5. ret'[d] = ret[d]
  BY ZenonT(30), <1>1 DEF Call, CallStep, sleep_entry, resume_entry, push_or_sync_now, signal_shutdown, notify_all, Return, DrainThen, ThreadInv
<1>6. pc'[d] = pc[d] \/ pc[d] \in {"parked", "timed"}
  BY <1>1, <1>3
<1>7. pc'[d] = "build" => kind'[d] = "follow" /\ due'[d] = "now"
  BY ZenonT(30), <1>1, <1>3 DEF ToldInv
<1>8. EntryOK(ent[d]) /\ ent[d].pending \in Seq(Events)
  BY Zenon DEF EntryInv, EntryOK, EntryShared
<1>9. \A x : ToldOK(d, x) => ToldOK(d, x)'
  <2>1. CASE ent'[d] = ent[d]
    <3>1. Gap(d) => Gap(d)'
      BY <1>1, <1>5, <1>6, <2>1 DEF Gap
    <3>2. QED BY Zenon, <2>1, <3>1, ToldSame
  <2>2. CASE ent'[d] = Slept(ent[d])
    <3>1. ent'[d].pending = Append(ent[d].pending, "Sleeping") /\ ent'[d].state = "Sleeping" /\ "Sleeping" \in DbState
      BY <1>8, <2>2 DEF Slept, Report, EntryOK, EntryShared, DbState
    <3>2. \A x : Latest(Append(ent[d].pending, "Sleeping"), x, "Sleeping")
      BY ZenonT(30), <1>8, <3>1, LatestAppend
    <3>3. QED BY Zenon, <3>1, <3>2 DEF ToldOK
  <2>3. CASE ent'[d] = Resumed(ent[d]) /\ ent[d].ctrl = "Sleeping"
    <3>1. ent'[d].pending = ent[d].pending /\ ent'[d].state = "Idle" /\ ent'[d].nudged /\ ent[d].state = "Sleeping"
      BY SMTT(20), SMTT(30), <1>8, <2>3 DEF Resumed, EntryOK, EntryShared
    <3>2. ~Gap(d) /\ Gap(d)'
      BY SMTT(20), <3>1 DEF Gap
    <3>3. QED BY <3>1, <3>2 DEF ToldOK
  <2>4. CASE \E swap : ent'[d] = Nudged(ent[d], swap)
    <3>1. ent'[d].pending = ent[d].pending /\ ent'[d].state = ent[d].state /\ ent'[d].nudged
      BY SMTT(20), SMTT(30), <1>8, <2>4 DEF Nudged, EntryOK, EntryShared
    <3>2. Gap(d) => Gap(d)'
      BY SMTT(20), SMTT(30), <3>1 DEF Gap
    <3>3. QED BY Zenon, <3>1, <3>2, ToldSame
  <2>5. CASE ent'[d] = [ent[d] EXCEPT !.ctrl = "Shutdown", !.cancelled = @ \cup {ent[d].session}]
    <3>1. ent'[d].pending = ent[d].pending /\ ent'[d].state = ent[d].state /\ ent'[d].ctrl = "Shutdown"
      BY SMTT(20), SMTT(30), <1>8, <2>5 DEF EntryOK, EntryShared
    <3>2. Gap(d) => Gap(d)'
      BY SMTT(20), SMTT(30), <3>1 DEF Gap
    <3>3. QED BY <3>1, <3>2, ToldSame
  <2>6. QED
    <3>1. CASE \E e \in Entries : sleep_entry(c, e) \/ resume_entry(c, e) \/ push_or_sync_now(c, e) \/ signal_shutdown(c, e)
      <4>1. PICK e \in Entries : sleep_entry(c, e) \/ resume_entry(c, e) \/ push_or_sync_now(c, e) \/ signal_shutdown(c, e)
        BY <3>1
      <4>2. d # e => ent'[d] = ent[d]
        BY <4>1 DEF sleep_entry, resume_entry, push_or_sync_now, signal_shutdown, EntryInv
      <4>3. CASE d = e /\ sleep_entry(c, e)
        BY <2>1, <2>2, <4>3 DEF sleep_entry, EntryInv
      <4>4. CASE d = e /\ resume_entry(c, e)
        <5>1. ent' = [ent EXCEPT ![d].nudged = TRUE] => ent'[d] = Nudged(ent[d], FALSE)
          BY Zenon, FieldSteps
        <5>2. ent' = [ent EXCEPT ![d] = Resumed(@)] => ent'[d] = Resumed(ent[d])
          BY DEF EntryInv
        <5>3. \/ ent' = [ent EXCEPT ![d].nudged = TRUE] \/ ent' = ent
              \/ ent' = [ent EXCEPT ![d] = Resumed(@)] /\ ent[d].ctrl = "Sleeping"
          BY <4>4 DEF resume_entry
        <5>4. QED BY Zenon, <2>1, <2>3, <2>4, <5>1, <5>2, <5>3
      <4>5. CASE d = e /\ push_or_sync_now(c, e)
        <5>1. ent' = ent \/ ent' = [ent EXCEPT ![d] = Nudged(@, kind[d] = "follow")]
          BY <4>5 DEF push_or_sync_now
        <5>2. ent'[d] = ent[d] \/ ent'[d] = Nudged(ent[d], kind[d] = "follow")
          BY <5>1 DEF EntryInv
        <5>3. QED BY Zenon, <2>1, <2>4, <5>2
      <4>6. CASE d = e /\ signal_shutdown(c, e)
        <5>1. ent'[d] = [ent[d] EXCEPT !.ctrl = "Shutdown", !.cancelled = @ \cup {ent[d].session}]
          BY Zenon, <4>6, FieldSteps DEF signal_shutdown
        <5>2. QED BY <2>5, <5>1
      <4>7. QED BY Zenon, <2>1, <4>1, <4>2, <4>3, <4>4, <4>5, <4>6
    <3>2. CASE ~\E e \in Entries : sleep_entry(c, e) \/ resume_entry(c, e) \/ push_or_sync_now(c, e) \/ signal_shutdown(c, e)
      <4>1. ent' = ent
        BY SMTT(20), <3>2 DEF Call, CallStep, notify_all, Return
      <4>2. QED BY <2>1, <4>1
    <3>3. QED BY <3>1, <3>2
<1>10. ent'[d].emitting <=> ent[d].emitting
  BY CallEffect
<1>11. QED BY Zenon, <1>1, <1>4, <1>7, <1>9, <1>10, ToldKept

\* transition_running queues the state it sets; when it sets none, the entry is
\* as it was, and then the entry is not running or has the state already.
LEMMA TransitionTold ==
    ASSUME NEW s, EntryOK(s), NEW new \in {"Idle", "Working", "BackingOff", "Failed"}
    PROVE  \/ transition_running(s, new) = s /\ (s.ctrl # "Running" \/ s.state = new)
           \/ /\ transition_running(s, new).state = new
              /\ transition_running(s, new).pending = Append(s.pending, new)
              /\ s.pending \in Seq(Events) /\ new \in DbState
<1> DEFINE u == [s EXCEPT !.state = new, !.pending = Append(@, new)]
<1>1. s \in EntryShared /\ s.pending \in Seq(Events) /\ new \in DbState
  BY DEF EntryOK, EntryShared, DbState
<1>2. u.state = new /\ u.pending = Append(s.pending, new)
  BY Zenon, <1>1 DEF EntryShared
<1>3. transition_running(s, new) = IF s.ctrl # "Running" \/ (s.state = new /\ new # "BackingOff") THEN s ELSE u
  BY Zenon DEF transition_running
<1> HIDE DEF u
<1>4. QED BY <1>1, <1>2, <1>3

\* No worker step begins or ends a delivery.
LEMMA WorkerEmitting ==
    ASSUME ThreadInv, EntryInv, CallInv, NEW e \in Entries, Register(e) \/ WorkerStep(e) \/ Slow(e)
    PROVE  ent'[e].emitting <=> ent[e].emitting
<1>1. EntryOK(ent[e]) /\ WorkerInv(e)
  BY DEF EntryInv, ThreadInv
<1>2. CASE RecordError(e) \/ PushCompleted(e)
  <2>1. PICK event \in Events : ent' = [ent EXCEPT ![e] = Report(ent[e], event)]
    BY <1>2 DEF RecordError, PushCompleted, Events
  <2>2. ent'[e] = Report(ent[e], event)
    BY SMTT(20), SMTT(30), <2>1 DEF EntryInv
  <2>3. ent'[e].emitting = ent[e].emitting
    BY <1>1, <2>2, ReportFits
  <2>4. QED BY ZenonT(30), <2>3
<1>3. CASE Settle(e) \/ Working(e)
  <2>1. PICK new \in {"Idle", "Working", "BackingOff", "Failed"} :
          ent' = [ent EXCEPT ![e] = transition_running(ent[e], new)]
    BY Zenon, <1>1, <1>3 DEF Settle, Working, WorkerInv
  <2>2. ent'[e] = transition_running(ent[e], new)
    BY <2>1 DEF EntryInv
  <2>3. ent'[e].emitting = ent[e].emitting
    BY Zenon, <1>1, <2>2, TransitionFits
  <2>4. QED BY ZenonT(30), <2>3
<1>4. CASE UNCHANGED ent
  BY <1>4
<1>5. CASE ent' = [ent EXCEPT ![e].nudged = FALSE]
  <2>1. ent'[e] = [ent[e] EXCEPT !.nudged = FALSE]
    BY Zenon, <1>5, FieldSteps
  <2>2. SameEvents(ent[e], ent'[e])
    BY <1>1, <2>1, RoundFits
  <2>3. QED BY Zenon, <2>2 DEF SameEvents
<1>6. QED BY SMTT(20), SMTT(30), <1>2, <1>3, <1>4, <1>5
          DEF Register, WorkerStep, Slow, wait_for_action, Release, ensure_writer, PushCancelled, Build,
              FollowBegins, FollowLocks, FollowStops, PushReturns, Maintain, Tick, FollowEvents, FollowFails

\* A worker reports every state it sets; a gap that a resume left lasts until
\* its round sets one.
LEMMA WorkerTold ==
    ASSUME ThreadInv, EntryInv, CallInv, ToldTypes, NEW e \in Entries, Register(e) \/ WorkerStep(e) \/ Slow(e),
           NEW d \in Entries, EventInv(d), ToldInv(d)
    PROVE  ToldInv(d)'
<1>1. e \in Threads /\ d \in Threads /\ e \notin Callers /\ WorkerInv(e) /\ UNCHANGED <<kind, seen, ev>>
  BY Zenon, Disjoint, OnlyDelivery DEF Threads, ThreadInv
<1>2. /\ UNCHANGED call
      /\ \A t \in Threads \ {e} : pc'[t] = pc[t]
      /\ \A b \in Entries \ {e} : ent'[b] = ent[b]
  BY SMTT(20), SMTT(30), WorkerFrame
<1>3. pc[e] \notin {"drain", "emit"} /\ pc'[e] # "emit"
  BY SMTT(20), SMTT(30), <1>1 DEF Register, WorkerStep, Slow, wait_for_action, ParkOrRelease, Release, RecordError, Settle,
     Working, ensure_writer, PushCancelled, PushCompleted, Build, FollowBegins, FollowLocks, FollowStops,
     PushReturns, Maintain, Tick, FollowEvents, FollowFails, Failing, DrainThen, Goto, ThreadInv
<1>4. \A t \in Threads : Emits(t, d)' => Emits(t, d) /\ ev'[t] = ev[t]
  BY <1>1, <1>2, <1>3 DEF Emits, Drains
<1>5. EntryOK(ent[e]) /\ ent[e].pending \in Seq(Events)
  BY Zenon DEF EntryInv, EntryOK, EntryShared
<1>6. CASE d # e
  <2>1. ret'[d] = ret[d]
    BY <1>1, <1>6 DEF Register, WorkerStep, Slow, wait_for_action, ParkOrRelease, Release, RecordError, Settle,
     Working, ensure_writer, PushCancelled, PushCompleted, Build, FollowBegins, FollowLocks, FollowStops,
     PushReturns, Maintain, Tick, FollowEvents, FollowFails, Failing, DrainThen, Goto, ThreadInv
  <2>2. due'[d] = due[d]
    BY ZenonT(30), <1>1, <1>6 DEF Register, WorkerStep, Slow, wait_for_action, ParkOrRelease, Release, RecordError, Settle,
     Working, ensure_writer, PushCancelled, PushCompleted, Build, FollowBegins, FollowLocks, FollowStops,
     PushReturns, Maintain, Tick, FollowEvents, FollowFails, Failing, DrainThen, Goto, ToldTypes, workerVars
  <2>3. ent'[d] = ent[d] /\ pc'[d] = pc[d]
    BY SMTT(20), SMTT(30), <1>1, <1>2, <1>6
  <2>4. Gap(d) => Gap(d)'
    BY <1>1, <2>1, <2>2, <2>3 DEF Gap
  <2>5. \A x : ToldOK(d, x) => ToldOK(d, x)'
    BY Zenon, <2>3, <2>4, ToldSame
  <2>6. pc'[d] = "build" => kind'[d] = "follow" /\ due'[d] = "now"
    BY Zenon, <1>1, <2>2, <2>3 DEF ToldInv
  <2>7. QED BY ZenonT(30), <1>1, <1>4, <2>3, <2>5, <2>6, ToldKept
<1>7. ent'[e].emitting <=> ent[e].emitting
  BY WorkerEmitting
<1>8. pc'[e] = "build" => kind'[e] = "follow" /\ due'[e] = "now"
  <2>1. pc'[e] = "build" => wait_for_action(e) /\ kind[e] = "follow" /\ due' = [due EXCEPT ![e] = Scheduled(e)]
    BY <1>1 DEF Register, WorkerStep, Slow, wait_for_action, ParkOrRelease, Release, RecordError, Settle,
     Working, ensure_writer, PushCancelled, PushCompleted, Build, FollowBegins, FollowLocks, FollowStops,
     PushReturns, Maintain, Tick, FollowEvents, FollowFails, Failing, DrainThen, Goto, ThreadInv
  <2>2. kind[e] = "follow" => Scheduled(e) = "now"
    BY DEF Scheduled
  <2>3. QED BY SMTT(20), SMTT(30), <1>1, <2>1, <2>2 DEF ToldTypes
<1>9. ASSUME d = e PROVE \A x : ToldOK(e, x) => ToldOK(e, x)'
  <2>1. CASE Settle(e) \/ Working(e)
    <3>1. PICK new \in {"Idle", "Working", "BackingOff", "Failed"} :
            /\ ent' = [ent EXCEPT ![e] = transition_running(ent[e], new)]
            /\ \/ pc[e] = "rest" \/ new # "Idle"
      BY Zenon, <1>1, <2>1 DEF Settle, Working, WorkerInv
    <3>2. ent'[e] = transition_running(ent[e], new)
      BY <3>1 DEF EntryInv
    <3>3. CASE ent'[e] = ent[e] /\ (ent[e].ctrl # "Running" \/ ent[e].state = new)
      <4>1. Gap(e) => ent[e].nudged \/ ent[e].ctrl = "Shutdown"
        BY Zenon, <1>5, <2>1, <3>1, <3>3 DEF Gap, EntryOK, EntryShared, Settle, Working
      <4>2. Gap(e) => Gap(e)'
        BY Zenon, <3>3, <4>1 DEF Gap
      <4>3. QED BY Zenon, <3>3, <4>2, ToldSame
    <3>4. CASE ent'[e].state = new /\ ent'[e].pending = Append(ent[e].pending, new) /\ new \in DbState
      <4>1. \A x : Latest(Append(ent[e].pending, new), x, new)
        BY Zenon, <1>5, <3>4, LatestAppend
      <4>2. QED BY Zenon, <3>4, <4>1 DEF ToldOK
    <3>5. PICK s : s = ent[e]
      OBVIOUS
    <3>6. EntryOK(s)
      BY Zenon, <1>5, <3>5
    <3>7. \/ ent'[e] = s /\ (s.ctrl # "Running" \/ s.state = new)
          \/ ent'[e].state = new /\ ent'[e].pending = Append(s.pending, new) /\ new \in DbState
      <4>1. PICK y : y = transition_running(s, new)
        OBVIOUS
      <4>2. \/ y = s /\ (s.ctrl # "Running" \/ s.state = new)
            \/ y.state = new /\ y.pending = Append(s.pending, new) /\ new \in DbState
        BY <3>1, <3>6, <4>1, TransitionTold
      <4>3. ent'[e] = y
        BY ZenonT(30), <3>2, <3>5, <4>1
      <4>4. QED BY Zenon, <4>2, <4>3
    <3>8. QED BY Zenon, <3>3, <3>4, <3>5, <3>7
  <2>2. CASE RecordError(e) \/ PushCompleted(e)
    <3>1. PICK event \in {"Error", "PushCompleted"} : ent' = [ent EXCEPT ![e] = Report(ent[e], event)]
      BY Zenon, <2>2 DEF RecordError, PushCompleted
    <3>2. ent'[e] = Report(ent[e], event) /\ event \notin DbState /\ ent[e] \in EntryShared
      BY Zenon, <1>5, <3>1 DEF EntryInv, EntryOK, DbState
    <3>3. ent'[e].pending = Append(ent[e].pending, event) /\ ent'[e].state = ent[e].state
          /\ ent'[e].nudged = ent[e].nudged /\ ent'[e].ctrl = ent[e].ctrl
      BY Zenon, <3>2 DEF Report, EntryShared
    <3>4. \A x, v : Latest(ent[e].pending, x, v) => Latest(ent'[e].pending, x, v)
      BY Zenon, <1>5, <3>2, <3>3, LatestAppend
    <3>5. Gap(e) => Gap(e)'
      <4>1. RecordError(e) /\ ret[e] # "rest" => pc'[e] = "settle"
        BY <1>1 DEF RecordError, WorkerInv, DbState, Goto, ThreadInv
      <4>2. QED BY Zenon, <2>2, <3>3, <4>1 DEF Gap, RecordError, PushCompleted
    <3>6. QED BY SMTT(20), SMTT(30), <3>3, <3>4, <3>5 DEF ToldOK
  <2>3. CASE wait_for_action(e)
    <3>1. CASE ent' = [ent EXCEPT ![e].nudged = FALSE] /\ pc'[e] \in {"build", "working"}
      <4>1. ent'[e] = [ent[e] EXCEPT !.nudged = FALSE]
        BY Zenon, <3>1, FieldSteps
      <4>2. ent'[e].pending = ent[e].pending /\ ent'[e].state = ent[e].state
        BY <1>5, <4>1 DEF EntryOK, EntryShared
      <4>3. Gap(e) => Gap(e)'
        BY <3>1, <4>2 DEF Gap
      <4>4. QED BY Zenon, <4>2, <4>3, ToldSame
    <3>2. CASE UNCHANGED ent /\ ent[e].ctrl = "Shutdown"
      <4>1. Gap(e) => Gap(e)'
        BY Zenon, <3>2 DEF Gap
      <4>2. QED BY Zenon, <3>2, <4>1, ToldSame
    <3>3. CASE UNCHANGED ent /\ pc[e] = "wait"
               /\ (ent[e].ctrl = "Sleeping" \/ (ent[e].ctrl = "Running" /\ ~RoundIsDue(ent[e], due[e])))
      <4>1. ~Gap(e)
        BY Zenon, <1>5, <3>3 DEF Gap, RoundIsDue, EntryOK, EntryShared
      <4>2. QED BY ZenonT(30), <3>3, <4>1, ToldSame
    <3>4. QED BY <1>1, <2>3, <3>1, <3>2, <3>3 DEF wait_for_action, Goto, ThreadInv
  <2>4. CASE Build(e)
    <3>1. UNCHANGED <<ent, due>> /\ kind[e] = "follow" /\ due[e] = "now"
      BY Zenon, <1>9, <2>4 DEF Build, ToldInv, workerVars
    <3>2. pc'[e] \in {"working", "wait"} \/ (pc'[e] = "error" /\ ret'[e] # "rest")
      BY <1>1, <2>4 DEF Build, Failing, Goto, ThreadInv
    <3>3. Gap(e) => Gap(e)'
      BY Zenon, <1>1, <3>1, <3>2 DEF Gap
    <3>4. QED BY Zenon, <3>1, <3>3, ToldSame
  <2>5. CASE ~(Settle(e) \/ Working(e) \/ RecordError(e) \/ PushCompleted(e) \/ wait_for_action(e) \/ Build(e))
    <3>1. UNCHANGED ent /\ pc[e] \notin {"exited", "working", "build", "settle", "error"}
          /\ (pc[e] = "wait" => due[e] = "at")
      BY Zenon, <1>1, <2>5 DEF Register, WorkerStep, Slow, wait_for_action, ParkOrRelease, Release, RecordError, Settle,
     Working, ensure_writer, PushCancelled, PushCompleted, Build, FollowBegins, FollowLocks, FollowStops,
     PushReturns, Maintain, Tick, FollowEvents, FollowFails, Failing, DrainThen, Goto, ThreadInv
    <3>2. Gap(e) => Gap(e)'
      BY Zenon, <3>1 DEF Gap
    <3>3. QED BY Zenon, <3>1, <3>2, ToldSame
  <2>6. QED BY <2>1, <2>2, <2>3, <2>4, <2>5
<1>10. CASE d = e
  BY ZenonT(30), <1>1, <1>4, <1>7, <1>8, <1>9, <1>10, ToldKept
<1>11. QED BY <1>6, <1>10

\* No step of the manager leaves the observer with a state that is not the
\* entry's, when its queue is delivered.
LEMMA ToldNext ==
    ThreadInv /\ EntryInv /\ CallInv /\ ToldTypes /\ (\A d \in Entries : EventInv(d))
    /\ (\A d \in Entries : ToldInv(d)) /\ [Next]_vars
    => \A d \in Entries : ToldInv(d)'
<1> SUFFICES ASSUME ThreadInv, EntryInv, CallInv, ToldTypes, NEW d \in Entries, EventInv(d), ToldInv(d), [Next]_vars
             PROVE  ToldInv(d)'
  OBVIOUS
<1>1. CASE UNCHANGED <<ent, pc, ret, ev, due, kind, call, seen>>
  BY Zenon, <1>1 DEF ToldInv, ToldOK, Gap, Emits, Drains
<1>2. ASSUME NEW r \in Readers, ReaderStep(r) PROVE UNCHANGED <<ent, pc, ret, ev, due, kind, call, seen>>
  BY <1>2 DEF ReaderStep, WorkerOnly, workerVars
<1>3. QED BY <1>1, <1>2, DrainTold, CallTold, WorkerTold DEF Next, DrainStep, vars, workerVars

\* Whoever delivers the events, the last state an observer was told when the
\* queue is empty is the one status() reports; after a resume, until the round
\* that was asked for reports, it was told Sleeping.
THEOREM LastStateSeen == Spec => []LastSeenIsStatus
<1> DEFINE Delivered == \A d \in Entries : EventInv(d)
           Told == \A d \in Entries : ToldInv(d)
<1>1. Init => Delivered /\ Told
  <2> SUFFICES ASSUME Init, NEW d \in Entries PROVE EventInv(d) /\ ToldInv(d)
    OBVIOUS
  <2>1. ent[d].pending = <<>> /\ ~ent[d].emitting /\ ent[d].state = "Idle" /\ seen[d] = "Idle"
    BY Zenon DEF Init, NewEntry
  <2>2. \A t \in Threads : pc[t] \notin {"emit", "build"}
    BY DEF Init
  <2>3. Latest(<<>>, "Idle", "Idle")
    BY DEF Latest
  <2>4. QED BY Zenon, <2>1, <2>2, <2>3 DEF EventInv, ToldInv, ToldOK, Emits, Threads
<1>2. ThreadInv /\ EntryInv /\ CallInv /\ ToldTypes /\ Delivered /\ Told /\ [Next]_vars => Delivered' /\ Told'
  BY SMTT(20), SMTT(30), EventNext, ToldNext
<1>3. Told => LastSeenIsStatus
  <2> SUFFICES ASSUME NEW d \in Entries, ToldInv(d), ent[d].pending = <<>>, ~ent[d].emitting
               PROVE  seen[d] = ent[d].state \/ ResumeGap(d)
    BY DEF LastSeenIsStatus
  <2>1. ToldOK(d, seen[d])
    BY DEF ToldInv
  <2>2. \A v : Latest(<<>>, seen[d], v) => v = seen[d]
    BY DEF Latest
  <2>3. QED BY <2>1, <2>2 DEF ToldOK, Gap, ResumeGap
<1> HIDE DEF Delivered, Told
<1>4. QED BY <1>1, <1>2, <1>3, ThreadsInvariant, EntriesInvariant, CallsInvariant, ToldTypesInvariant, PTL DEF Spec
=============================================================================
