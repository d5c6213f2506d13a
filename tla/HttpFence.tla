----------------------------- MODULE HttpFence -----------------------------
(***************************************************************************)
(* The mutations of a writable Mount, crates/liters-storage/src/http/      *)
(* mount.rs: PUT and DELETE requests of several writers, each handled by a *)
(* thread of its own, fenced by the writer lease and by TXID order.        *)
(*                                                                         *)
(* Whether a lease is younger than lease_ttl is one bit.  The bytes of a   *)
(* file are a model value; two files are equal exactly when these are.     *)
(* Authentication, paths and headers that do not parse are left out: they  *)
(* are answered before any state is read.                                  *)
(***************************************************************************)
EXTENDS Bucket

CONSTANTS
    Handlers,      \* threads that handle requests
    Ids,           \* writer ids
    Requests,      \* the requests clients send
    MaxRequests,   \* bound: requests sent
    MaxEvents      \* bound: restarts, and leases that expire

NoId      == "no id"
NoHandler == "nobody"
NoLease   == [id |-> NoId, fresh |-> FALSE]
NoRequest == [op |-> "none"]

Request ==
    [op : {"put", "delete", "wipe"}, lvl : Levels, min : Nat, max : Nat, body : Ids,
     id : Ids \cup {NoId}, takeover : BOOLEAN]

ASSUME HttpFenceAssumption ==
    /\ NoHandler \notin Handlers /\ NoId \notin Ids
    /\ Requests \subseteq Request
    /\ MaxRequests \in Nat /\ MaxEvents \in Nat

VARIABLES
    lease,     \* the last identified writer whose write was accepted
    gate,      \* the handler that holds the write gate
    hpc,       \* where each handler is
    req,       \* the request it handles
    top,       \* newest TXID level 0 has had since the last wipe (ghost)
    sent, events

fenceVars == <<bucket, lease, gate, hpc, req, top, sent, events>>

L0 == ltx_files(bucket, 0, 0)

\* The stored file with the key of the request, if there is one.
Existing(r) == {f \in bucket : SameKey(f, r)}

----------------------------------------------------------------------------
(* check_fence *)

\* Another writer's lease is young, and the request does not take over.
LeaseRefuses(r) ==
    r.id # NoId /\ lease.id # r.id /\ lease.fresh /\ ~r.takeover

\* Mutant: a level 0 file may overlap the newest one.
OrderRefusesLate(r) ==
    IF r.lvl = 0
      THEN Existing(r) = {} /\ L0 # {} /\ r.min # MaxTxid(L0) + 1 /\ r.min # MaxTxid(L0)
      ELSE r.max > MaxTxid(bucket)

\* Level 0 is appended to, or the key is there already; the levels above hold
\* nothing newer than the bucket.
OrderRefuses(r) ==
    IF r.lvl = 0
      THEN Existing(r) = {} /\ L0 # {} /\ r.min # MaxTxid(L0) + 1
      ELSE r.max > MaxTxid(bucket)

Refused(r) == LeaseRefuses(r) \/ (r.op = "put" /\ OrderRefuses(r))

----------------------------------------------------------------------------
(* The handlers *)

HandlerGoto(h, where) == hpc' = [hpc EXCEPT ![h] = where]

\* The handler answers; what it holds is released.
Respond(h) ==
    /\ HandlerGoto(h, "idle")
    /\ req' = [req EXCEPT ![h] = NoRequest]
    /\ gate' = IF gate = h THEN NoHandler ELSE gate

\* A request arrives.  A PUT faces the fence before its body is received.
Arrive(h) ==
    /\ hpc[h] = "idle" /\ sent < MaxRequests
    /\ sent' = sent + 1
    /\ \E r \in Requests :
          IF r.op = "put" /\ Refused(r)
            THEN UNCHANGED <<hpc, req>>
            ELSE /\ req' = [req EXCEPT ![h] = r]
                 /\ HandlerGoto(h, IF r.op = "put" THEN "spool" ELSE "gate")
    /\ UNCHANGED <<bucket, lease, gate, top, events>>

\* The body is in the spool in full, or it ended early.
Spool(h) ==
    /\ hpc[h] = "spool"
    /\ \/ HandlerGoto(h, "gate") /\ UNCHANGED <<gate, req>>
       \/ Respond(h)
    /\ UNCHANGED <<bucket, lease, top, sent, events>>

TakeGate(h) ==
    /\ hpc[h] = "gate" /\ gate = NoHandler
    /\ gate' = h
    /\ HandlerGoto(h, "fence")
    /\ UNCHANGED <<bucket, lease, req, top, sent, events>>

\* Mutant: the check made before the body came in is trusted.
FenceTrustsAdvisory(h) ==
    /\ hpc[h] = "fence"
    /\ HandlerGoto(h, "apply")
    /\ UNCHANGED <<bucket, lease, gate, req, top, sent, events>>

\* Mutant: another writer's lease is waited for, not answered with 409.
FenceWaitsForLease(h) ==
    /\ hpc[h] = "fence" /\ ~LeaseRefuses(req[h])
    /\ IF Refused(req[h])
         THEN Respond(h)
         ELSE /\ HandlerGoto(h, IF req[h].op = "put" /\ req[h].lvl = 0 /\ Existing(req[h]) # {}
                           THEN "compare" ELSE "apply")
              /\ UNCHANGED <<gate, req>>
    /\ UNCHANGED <<bucket, lease, top, sent, events>>

\* The fence that counts, under the gate.
Fence(h) ==
    /\ hpc[h] = "fence"
    /\ IF Refused(req[h])
         THEN Respond(h)
         ELSE /\ HandlerGoto(h, IF req[h].op = "put" /\ req[h].lvl = 0 /\ Existing(req[h]) # {}
                           THEN "compare" ELSE "apply")
              /\ UNCHANGED <<gate, req>>
    /\ UNCHANGED <<bucket, lease, top, sent, events>>

\* The stored file and the body received have the same bytes.
stored_matches_spool(r) == \E f \in Existing(r) : f.body = r.body

\* Mutant: the stored bytes are not compared.
CompareSizeOnly(h) ==
    /\ hpc[h] = "compare"
    /\ HandlerGoto(h, "apply")
    /\ UNCHANGED <<bucket, lease, gate, req, top, sent, events>>

\* A level 0 file that is there already is accepted only with the same bytes.
Compare(h) ==
    /\ hpc[h] = "compare"
    /\ IF stored_matches_spool(req[h])
         THEN HandlerGoto(h, "apply") /\ UNCHANGED <<gate, req>>
         ELSE Respond(h)
    /\ UNCHANGED <<bucket, lease, top, sent, events>>

Stored(r) == [lvl |-> r.lvl, min |-> r.min, max |-> r.max, body |-> r.body]

\* The bucket after the request.
Applied(r) ==
    CASE r.op = "put"    -> write_ltx_file(bucket, Stored(r))
      [] r.op = "delete" -> bucket \ Existing(r)
      [] r.op = "wipe"   -> {}

\* What the newest TXID of level 0 was since the last wipe.
NewTop(r) ==
    CASE r.op = "wipe"                              -> 0
      [] r.op = "put" /\ r.lvl = 0 /\ r.max > top   -> r.max
      [] OTHER                                      -> top

Apply(h) ==
    /\ hpc[h] = "apply"
    /\ bucket' = Applied(req[h])
    /\ top' = NewTop(req[h])
    /\ HandlerGoto(h, "lease")
    /\ UNCHANGED <<lease, gate, req, sent, events>>

\* The backend fails: nothing was done, a file was renamed into place and the
\* step after that failed, or a wipe stopped half-way.
BackendFails(h) ==
    /\ hpc[h] \in {"fence", "compare", "apply"} /\ events < MaxEvents
    /\ events' = events + 1
    /\ \/ UNCHANGED <<bucket, top>>
       \/ /\ hpc[h] = "apply" /\ req[h].op = "put"
          /\ bucket' = Applied(req[h]) /\ top' = NewTop(req[h])
       \/ /\ hpc[h] = "apply" /\ req[h].op = "wipe"
          /\ bucket' \in SUBSET bucket /\ UNCHANGED top
    /\ Respond(h)
    /\ UNCHANGED <<lease, sent>>

\* commit_lease, the notification, the answer.
CommitLease(h) ==
    /\ hpc[h] = "lease"
    /\ lease' = IF req[h].id = NoId THEN lease ELSE [id |-> req[h].id, fresh |-> TRUE]
    /\ Respond(h)
    /\ UNCHANGED <<bucket, top, sent, events>>

\* The lease gets older than lease_ttl.
Expire ==
    /\ lease.fresh /\ events < MaxEvents
    /\ lease' = [lease EXCEPT !.fresh = FALSE]
    /\ events' = events + 1
    /\ UNCHANGED <<bucket, gate, hpc, req, top, sent>>

\* The server starts again: handlers and lease are gone, the bucket stays.
Restart ==
    /\ events < MaxEvents
    /\ lease' = NoLease /\ gate' = NoHandler
    /\ hpc' = [h \in Handlers |-> "idle"]
    /\ req' = [h \in Handlers |-> NoRequest]
    /\ events' = events + 1
    /\ UNCHANGED <<bucket, top, sent>>

----------------------------------------------------------------------------
FenceInit ==
    /\ bucket = {} /\ lease = NoLease /\ gate = NoHandler
    /\ hpc = [h \in Handlers |-> "idle"]
    /\ req = [h \in Handlers |-> NoRequest]
    /\ top = 0 /\ sent = 0 /\ events = 0

\* What a handler does by itself; receiving the body is up to the client.
HandlerStep(h) == TakeGate(h) \/ Fence(h) \/ Compare(h) \/ Apply(h) \/ CommitLease(h)

FenceNext ==
    \/ \E h \in Handlers : Arrive(h) \/ Spool(h) \/ HandlerStep(h) \/ BackendFails(h)
    \/ Expire \/ Restart

FenceSpec == FenceInit /\ [][FenceNext]_fenceVars

\* Threads are scheduled; clients may stall while they send a body.
FenceLiveSpec == FenceSpec /\ \A h \in Handlers : WF_fenceVars(HandlerStep(h))

----------------------------------------------------------------------------
(* Properties. *)

StoredFile == [lvl : Levels, min : Nat, max : Nat, body : Ids]

\* Type correctness of the mount's state and of its handlers; the gate is held
\* by a handler that is between the fence and its answer.
FenceTypeOK ==
    /\ \A f \in bucket : f \in StoredFile
    /\ lease \in [id : Ids \cup {NoId}, fresh : BOOLEAN]
    /\ gate \in Handlers \cup {NoHandler}
    /\ \A h \in Handlers :
          /\ hpc[h] \in {"idle", "spool", "gate", "fence", "compare", "apply", "lease"}
          /\ hpc[h] = "idle" <=> req[h] = NoRequest
          /\ hpc[h] \in {"fence", "compare", "apply", "lease"} <=> gate = h
    /\ top \in Nat

\* A level 0 file that followers may have read is never overwritten with other
\* bytes, whoever races whom.  (Its key may be deleted and pushed again.)
NeverReplaced ==
    [][\A f \in bucket, g \in bucket' : f.lvl = 0 /\ SameKey(f, g) => f.body = g.body]_fenceVars

\* Two files of level 0 never hold the same TXID, across concurrent pushes,
\* deletions, wipes and restarts of the server.
NoOverlap == \A f, g \in L0 : f # g => f.max < g.min \/ g.max < f.min

\* The levels above are never ahead of level 0: they hold no TXID beyond the
\* newest that level 0 has had since the last wipe.  So a snapshot whose body
\* was still arriving when the bucket was wiped is refused as long as the new
\* history is the shorter one.  Afterwards it is accepted: the fence compares
\* positions, and nothing in a request tells it whose history they count.
NothingBeyond == \A f \in bucket : f.lvl > 0 => f.max <= top

\* While a writer's lease is young, no other identified writer changes the
\* bucket without taking over, however long its request was under way.
OwnerExclusive ==
    [][\A h \in Handlers : hpc[h] = "apply" /\ hpc'[h] = "lease" => ~LeaseRefuses(req[h])]_fenceVars

\* A client that stalls while it sends a body blocks nobody: a request that is
\* complete is answered.
GateServed == \A h \in Handlers : hpc[h] = "gate" ~> hpc[h] = "idle"
=============================================================================
