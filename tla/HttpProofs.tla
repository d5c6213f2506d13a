----------------------------- MODULE HttpProofs -----------------------------
(***************************************************************************)
(* Proofs about the HTTP bucket, modules HttpFence, HttpStream and         *)
(* HttpServer.                                                             *)
(*                                                                         *)
(* Writers (HttpFence): for any number of handlers, writers and requests,  *)
(* with bodies that arrive late or never, failing backends, leases that    *)
(* expire and restarts, level 0 holds no TXID twice and none of its files  *)
(* is overwritten with other bytes, the levels above are never ahead of    *)
(* it, and a young lease keeps others out.                                 *)
(*                                                                         *)
(* Followers (HttpStream): a stream tells its follower to start over only  *)
(* when the bucket was wiped.                                              *)
(*                                                                         *)
(* The server (HttpServer): for any number of connections, peers that      *)
(* stall and calls of shutdown, a server that was shut down has no thread  *)
(* left.                                                                   *)
(***************************************************************************)
EXTENDS HttpFence, HttpStream, HttpServer, BucketProofs

----------------------------------------------------------------------------
(* HttpServer *)

\* What the accept loop has in hand has no handler before it is spawned.
InHand ==
    /\ acc \notin {"spawn", "register"} => taken = {}
    /\ acc = "spawn" => \A c \in taken : cpc[c] = "none"

\* The order of shutdown: the accept loop is gone before the drain, and what
\* the drain leaves behind is nothing.
Drained ==
    /\ hostpc \in {"drain", "down"} => acc = "exited"
    /\ hostpc # "drain" => joining = {}
    /\ hostpc = "down" => conns = {}

\* The inductive invariant.
ServerIInv == ServerTypeOK /\ NoOrphan /\ InHand /\ Drained

\* The server starts with no handler.
LEMMA ServerInitIInv == ServerInit => ServerIInv
<1> SUFFICES ASSUME ServerInit PROVE ServerIInv
  OBVIOUS
<1>1. stop \in BOOLEAN /\ streamsWoken \in BOOLEAN
  BY Zenon DEF ServerInit
<1>2. NoOrphan /\ InHand /\ Drained
  BY DEF ServerInit, NoOrphan, InHand, Drained, Running, NoConn
<1>3. \A c \in Peers : c \in holder <=> cpc[c] = "held"
  BY DEF ServerInit, NoConn
<1>4. shutdowns \in 0..MaxShutdowns
  BY HttpServerAssumption DEF ServerInit
<1>5. QED
  BY <1>1, <1>2, <1>3, <1>4 DEF ServerInit, ServerIInv, ServerTypeOK, NoConn

\* The accept loop keeps every handler it starts within reach.
LEMMA AcceptIInv == ServerIInv /\ AcceptLoop => ServerIInv'
<1> SUFFICES ASSUME ServerIInv, AcceptLoop PROVE ServerIInv'
  OBVIOUS
<1> USE DEF AcceptOnly, serverVars, NoConn, Running, Done
<1>1. CASE AcceptStops
  BY <1>1 DEF AcceptStops, ServerIInv, ServerTypeOK, NoOrphan, InHand, Drained
<1>2. CASE Accept
  BY <1>2 DEF Accept, ServerIInv, ServerTypeOK, NoOrphan, InHand, Drained
<1>3. CASE Spawn
  BY <1>3 DEF Spawn, ServerIInv, ServerTypeOK, NoOrphan, InHand, Drained
<1>4. CASE Register
  BY <1>4 DEF Register, ServerIInv, ServerTypeOK, NoOrphan, InHand, Drained
<1>5. CASE reap
  BY <1>5 DEF reap, ServerIInv, ServerTypeOK, NoOrphan, InHand, Drained
<1>6. QED
  BY <1>1, <1>2, <1>3, <1>4, <1>5 DEF AcceptLoop

\* A step of a handler: it stays where it is registered until it has exited.
LEMMA ConnectionIInv ==
    ASSUME NEW c \in Peers, ServerIInv,
           ConnectionStep(c) \/ PeerMoves(c) \/ PollEnds(c) \/ SocketFails(c) \/ ServingFails(c)
    PROVE  ServerIInv'
<1> USE DEF HandlerOnly, serverVars, acceptVars, NoConn, Running, Handler, After, Ends
<1>1. CASE SocketFails(c)
  BY <1>1 DEF SocketFails, ServerIInv, ServerTypeOK, NoOrphan, InHand, Drained
<1>2. CASE PeerMoves(c)
  <2>1. CASE ReadHead(c) /\ HandlerOnly
    BY <2>1 DEF ReadHead, ServerIInv, ServerTypeOK, NoOrphan, InHand, Drained
  <2>2. CASE ~ReadHead(c)
    BY <1>2, <2>2 DEF PeerMoves, ServerIInv, ServerTypeOK, NoOrphan, InHand, Drained
  <2>3. QED BY <1>2, <2>1, <2>2 DEF PeerMoves
<1>3. CASE TakesGate(c)
  BY <1>3 DEF TakesGate, ServerIInv, ServerTypeOK, NoOrphan, InHand, Drained
<1>4. CASE Stores(c)
  BY <1>4 DEF Stores, ServerIInv, ServerTypeOK, NoOrphan, InHand, Drained
<1>5. CASE LooksAtStop(c)
  BY <1>5 DEF LooksAtStop, ServerIInv, ServerTypeOK, NoOrphan, InHand, Drained
<1>6. CASE Woken(c) \/ PollEnds(c)
  BY <1>6 DEF Woken, PollEnds, ServerIInv, ServerTypeOK, NoOrphan, InHand, Drained
<1>7. CASE Exits(c)
  BY <1>7 DEF Exits, ServerIInv, ServerTypeOK, NoOrphan, InHand, Drained
<1>8. CASE ServingFails(c)
  BY <1>8 DEF ServingFails, ServerIInv, ServerTypeOK, NoOrphan, InHand, Drained
<1>9. QED
  BY <1>1, <1>2, <1>3, <1>4, <1>5, <1>6, <1>7, <1>8 DEF ConnectionStep

\* A step of shutdown: only a handler that was joined is forgotten.
LEMMA ShutdownIInv == ServerIInv /\ (ShutdownBegins \/ ShutdownStep) => ServerIInv'
<1> SUFFICES ASSUME ServerIInv, ShutdownBegins \/ ShutdownStep PROVE ServerIInv'
  OBVIOUS
<1> USE DEF HostOnly, NoConn, Running
<1>1. CASE ShutdownBegins
  BY <1>1, HttpServerAssumption DEF ShutdownBegins, ServerIInv, ServerTypeOK, NoOrphan, InHand, Drained
<1>2. CASE WakeStreams
  BY <1>2 DEF WakeStreams, ServerIInv, ServerTypeOK, NoOrphan, InHand, Drained
<1>3. CASE CloseAll
  BY <1>3 DEF CloseAll, ServerIInv, ServerTypeOK, NoOrphan, InHand, Drained
<1>4. CASE JoinAccept
  BY <1>4 DEF JoinAccept, ServerIInv, ServerTypeOK, NoOrphan, InHand, Drained
<1>5. ASSUME NEW c \in Peers, DrainClose(c) PROVE ServerIInv'
  BY <1>5 DEF DrainClose, ServerIInv, ServerTypeOK, NoOrphan, InHand, Drained
<1>6. CASE DrainJoin
  BY <1>6 DEF DrainJoin, ServerIInv, ServerTypeOK, NoOrphan, InHand, Drained
<1>7. CASE ShutdownReturns
  BY <1>7 DEF ShutdownReturns, ServerIInv, ServerTypeOK, NoOrphan, InHand, Drained
<1>8. QED
  BY <1>1, <1>2, <1>3, <1>4, <1>5, <1>6, <1>7 DEF ShutdownStep

\* ServerIInv is an invariant: one case per group of threads.
THEOREM ServerInvariant == ServerSpec => []ServerIInv
<1>1. ServerIInv /\ [ServerNext]_httpServerVars => ServerIInv'
  <2> SUFFICES ASSUME ServerIInv, [ServerNext]_httpServerVars PROVE ServerIInv'
    OBVIOUS
  <2>1. CASE UNCHANGED httpServerVars
    BY <2>1 DEF httpServerVars, serverVars, acceptVars, ServerIInv, ServerTypeOK, NoOrphan, InHand, Drained, Running
  <2>2. CASE ServerNext
    BY <2>2, AcceptIInv, ConnectionIInv, ShutdownIInv DEF ServerNext
  <2>3. QED
    BY <2>1, <2>2
<1>2. QED
  BY <1>1, ServerInitIInv, PTL DEF ServerSpec

\* When shutdown() has returned, the accept loop and every handler are gone,
\* whatever came in while it ran.
THEOREM ShutdownLeavesNothing == ServerSpec => []DownIsDown
<1>1. ServerIInv => DownIsDown
  BY DEF ServerIInv, ServerTypeOK, NoOrphan, InHand, Drained, DownIsDown
<1>2. QED
  BY <1>1, ServerInvariant, PTL

----------------------------------------------------------------------------
(* HttpFence: the inductive invariant *)

\* Each handler is somewhere, with a request that was sent.
HandlersInv ==
    /\ hpc \in [Handlers -> {"idle", "spool", "gate", "fence", "compare", "apply", "lease"}]
    /\ req \in [Handlers -> Requests \cup {NoRequest}]
    /\ gate \in Handlers \cup {NoHandler}
    /\ \A h \in Handlers : /\ hpc[h] = "idle" <=> req[h] = NoRequest
                           /\ hpc[h] \in {"fence", "compare", "apply", "lease"} <=> gate = h

\* What is stored: one file per key, nothing newer than level 0 has had, and
\* no two files of level 0 with the same TXID.
BucketInv ==
    /\ top \in Nat
    /\ \A f \in bucket : f \in StoredFile /\ f.max <= top
    /\ \A f, g \in bucket : SameKey(f, g) => f = g
    /\ \A f, g \in bucket : f.lvl = 0 /\ g.lvl = 0 /\ f # g => f.max < g.min \/ g.max < f.min

\* The lease names a writer or nobody.
LeaseInv == lease \in [id : Ids \cup {NoId}, fresh : BOOLEAN]

\* What the fence has established about a request and nobody can take back
\* while its handler has the gate.
Fenced(h) ==
    hpc[h] \in {"compare", "apply"}
    => /\ ~LeaseRefuses(req[h])
       /\ req[h].op = "put" => ~OrderRefuses(req[h])

\* Before a level 0 file is written again its bytes are found equal.
Compared(h) ==
    hpc[h] = "apply" /\ req[h].op = "put" /\ req[h].lvl = 0
    => \A f \in Existing(req[h]) : f.body = req[h].body

\* The inductive invariant.
FenceIInv == HandlersInv /\ BucketInv /\ LeaseInv /\ \A h \in Handlers : Fenced(h) /\ Compared(h)

----------------------------------------------------------------------------
(* The steps that write the bucket *)

\* A request the fence let through leaves the bucket in order, and no level 0
\* file is replaced.
LEMMA AppliedInv ==
    ASSUME BucketInv, NEW r \in Requests,
           r.op = "put" => ~OrderRefuses(r),
           r.op = "put" /\ r.lvl = 0 => \A f \in Existing(r) : f.body = r.body,
           bucket' = Applied(r), top' = NewTop(r)
    PROVE  /\ BucketInv'
           /\ \A f \in bucket, g \in bucket' : f.lvl = 0 /\ SameKey(f, g) => f.body = g.body
<1>1. /\ r.op \in {"put", "delete", "wipe"} /\ r.lvl \in Levels /\ r.min \in Nat /\ r.max \in Nat
      /\ r.body \in Ids
  BY HttpFenceAssumption DEF Request
<1>2. CASE r.op = "delete"
  BY <1>2, <1>1 DEF Applied, NewTop, BucketInv, SameKey
<1>3. CASE r.op = "wipe"
  BY <1>3, <1>1 DEF Applied, NewTop, BucketInv
<1>4. CASE r.op = "put"
  <2> DEFINE s == Stored(r)
  <2>1. s \in StoredFile /\ s.lvl = r.lvl /\ s.min = r.min /\ s.max = r.max /\ s.body = r.body
    BY <1>1 DEF Stored, StoredFile
  <2>2. bucket' = {g \in bucket : ~SameKey(s, g)} \cup {s}
    BY <1>4 DEF Applied, write_ltx_file
  <2>3. top' = IF r.lvl = 0 /\ r.max > top THEN r.max ELSE top
    BY <1>4 DEF NewTop
  <2>4. \A f \in bucket : f \in Existing(r) <=> SameKey(s, f)
    BY <2>1 DEF Existing, SameKey
  <2>5. top \in Nat /\ top' \in Nat /\ top <= top'
    BY <2>3, <1>1 DEF BucketInv
  <2>6. \A f \in bucket : f \in StoredFile /\ f.max \in Nat /\ f.min \in Nat /\ f.max <= top
    BY DEF BucketInv, StoredFile
  <2>7. s.max <= top'
    <3>1. CASE r.lvl = 0
      BY <3>1, <2>1, <2>3, <1>1, <2>5
    <3>2. CASE r.lvl # 0
      <4>1. MaxTxid(bucket) \in Nat /\ MaxTxid(bucket) <= top
        BY <2>5, <2>6, MaxTxidIs
      <4>2. ~(r.max > MaxTxid(bucket))
        BY <3>2, <1>4 DEF OrderRefuses
      <4>3. QED BY <4>1, <4>2, <2>1, <2>5, <1>1
    <3>3. QED BY <3>1, <3>2
  <2>8. ASSUME NEW f \in bucket, f.lvl = 0, r.lvl = 0, ~SameKey(s, f)
        PROVE  f.max < s.min \/ s.max < f.min
    <3>1. CASE Existing(r) # {}
      <4>1. PICK e \in bucket : e \in Existing(r)
        BY <3>1 DEF Existing
      <4>2. e.lvl = 0 /\ e.min = s.min /\ e.max = s.max
        BY <4>1, <2>1, <2>8 DEF Existing, SameKey
      <4>3. e # f
        BY <4>1, <2>4, <2>8
      <4>4. QED BY <4>2, <4>3, <2>8 DEF BucketInv
    <3>2. CASE Existing(r) = {}
      <4>1. f \in L0 /\ \A g \in L0 : g \in bucket
        BY <2>6, <2>8 DEF L0, ltx_files
      <4>2. r.min = MaxTxid(L0) + 1
        BY <4>1, <3>2, <2>8, <1>4 DEF OrderRefuses
      <4>3. f.max <= MaxTxid(L0) /\ MaxTxid(L0) \in Nat
        BY <4>1, <2>5, <2>6, MaxTxidIs
      <4>4. QED BY <4>2, <4>3, <2>1, <2>6
    <3>3. QED BY <3>1, <3>2
  <2>9. BucketInv'
    <3> HIDE DEF s
    <3>1. \A f \in bucket' : f \in bucket \/ f = s
      BY <2>2
    <3>2. \A f \in bucket' : f \in StoredFile /\ f.max <= top'
      <4>1. ASSUME NEW f \in bucket PROVE f.max <= top'
        BY <2>5, <2>6
      <4>2. QED BY <3>1, <4>1, <2>1, <2>6, <2>7
    <3>3. \A f, g \in bucket' : SameKey(f, g) => f = g
      BY <2>2 DEF BucketInv, SameKey
    <3>4. \A f, g \in bucket' : f.lvl = 0 /\ g.lvl = 0 /\ f # g => f.max < g.min \/ g.max < f.min
      BY <2>2, <2>8, <2>1 DEF BucketInv
    <3>5. QED BY <2>5, <3>2, <3>3, <3>4 DEF BucketInv, StoredFile, SameKey
  <2>10. ASSUME NEW f \in bucket, NEW g \in bucket', f.lvl = 0, SameKey(f, g) PROVE f.body = g.body
    <3>1. CASE g \in bucket
      BY <3>1, <2>10 DEF BucketInv
    <3>2. CASE g = s
      BY <3>2, <2>10, <2>1, <2>4, <1>4 DEF SameKey
    <3>3. QED BY <3>1, <3>2, <2>2
  <2>11. QED BY <2>9, <2>10
<1>5. QED BY <1>1, <1>2, <1>3, <1>4

----------------------------------------------------------------------------
(* Every step keeps the invariant *)

\* The mount starts over an empty bucket, with every handler idle.
LEMMA FenceInitIInv == FenceInit => FenceIInv
<1> SUFFICES ASSUME FenceInit PROVE FenceIInv
  OBVIOUS
<1>1. LeaseInv
  BY Zenon DEF FenceInit, LeaseInv, NoLease
<1>2. HandlersInv /\ BucketInv
  BY HttpFenceAssumption DEF FenceInit, HandlersInv, BucketInv
<1>3. \A h \in Handlers : Fenced(h) /\ Compared(h)
  BY DEF FenceInit, Fenced, Compared
<1>4. QED BY <1>1, <1>2, <1>3 DEF FenceIInv

\* The handler at an operation that the gate protects is the only one there.
LEMMA OneAtTheGate ==
    ASSUME HandlersInv, NEW h \in Handlers, NEW g \in Handlers, g # h,
           hpc[h] \in {"fence", "compare", "apply", "lease"}
    PROVE  hpc[g] \notin {"fence", "compare", "apply", "lease"}
BY DEF HandlersInv

\* Nothing a request in hand was checked against changes while bucket and
\* lease do not.
LEMMA ChecksKept ==
    ASSUME NEW h \in Handlers, Fenced(h), Compared(h), UNCHANGED <<bucket, lease>>,
           hpc'[h] \in {"compare", "apply"} => hpc'[h] = hpc[h] /\ req'[h] = req[h]
    PROVE  Fenced(h)' /\ Compared(h)'
BY DEF Fenced, Compared, LeaseRefuses, OrderRefuses, Existing, L0

\* The answer: the handler is idle, the gate free of it.
LEMMA RespondHandlers ==
    ASSUME HandlersInv, NEW h \in Handlers, Respond(h)
    PROVE  /\ HandlersInv'
           /\ hpc'[h] = "idle"
           /\ \A g \in Handlers \ {h} : hpc'[g] = hpc[g] /\ req'[g] = req[g]
BY HttpFenceAssumption DEF HandlersInv, Respond, HandlerGoto

\* The steps that leave bucket and lease alone.
LEMMA HandlerIInv ==
    ASSUME FenceIInv, NEW h \in Handlers,
           Arrive(h) \/ Spool(h) \/ TakeGate(h) \/ Fence(h) \/ Compare(h)
    PROVE  FenceIInv'
<1>1. UNCHANGED <<bucket, lease, top>>
  BY DEF Arrive, Spool, TakeGate, Fence, Compare
<1>2. BucketInv' /\ LeaseInv'
  BY <1>1 DEF FenceIInv, BucketInv, LeaseInv
<1>3. ASSUME HandlersInv',
             \A g \in Handlers : hpc'[g] \in {"compare", "apply"} => hpc'[g] = hpc[g] /\ req'[g] = req[g]
      PROVE  FenceIInv'
  BY <1>1, <1>2, <1>3, ChecksKept DEF FenceIInv
<1>4. CASE Respond(h)
  BY SMTT(20), SMTT(30), <1>3, <1>4, RespondHandlers DEF FenceIInv
<1>5. CASE Arrive(h)
  <2>1. PICK r \in Requests :
          IF r.op = "put" /\ Refused(r)
            THEN UNCHANGED <<hpc, req>>
            ELSE /\ req' = [req EXCEPT ![h] = r]
                 /\ HandlerGoto(h, IF r.op = "put" THEN "spool" ELSE "gate")
    BY <1>5 DEF Arrive
  <2>2. r # NoRequest
    BY HttpFenceAssumption DEF Request, NoRequest
  <2>3. gate' = gate /\ hpc[h] = "idle"
    BY <1>5 DEF Arrive
  <2>4. HandlersInv' /\ \A g \in Handlers : hpc'[g] \in {"compare", "apply"} => hpc'[g] = hpc[g] /\ req'[g] = req[g]
    BY SMTT(20), SMTT(30), <2>1, <2>2, <2>3 DEF FenceIInv, HandlersInv, HandlerGoto
  <2>5. QED BY <2>4, <1>3
<1>6. CASE Spool(h) /\ ~Respond(h)
  BY SMTT(20), SMTT(30), <1>3, <1>6 DEF Spool, FenceIInv, HandlersInv, HandlerGoto
<1>7. CASE TakeGate(h)
  <2>1. HandlersInv' /\ \A g \in Handlers : hpc'[g] \in {"compare", "apply"} => hpc'[g] = hpc[g] /\ req'[g] = req[g]
    BY <1>7, HttpFenceAssumption DEF TakeGate, FenceIInv, HandlersInv, HandlerGoto
  <2>2. QED BY <2>1, <1>3
<1>8. CASE (Fence(h) \/ Compare(h)) /\ ~Respond(h)
  <2>1. HandlersInv' /\ UNCHANGED req /\ \A g \in Handlers \ {h} : hpc'[g] = hpc[g]
    BY SMTT(20), <1>8 DEF Fence, Compare, FenceIInv, HandlersInv, HandlerGoto
  <2>2. \A g \in Handlers \ {h} : Fenced(g)' /\ Compared(g)'
    BY ZenonT(30), <2>1, <1>1, ChecksKept DEF FenceIInv
  <2>3. CASE Fence(h)
    <3>1. ~Refused(req[h]) /\ hpc'[h] = (IF req[h].op = "put" /\ req[h].lvl = 0 /\ Existing(req[h]) # {}
                                           THEN "compare" ELSE "apply")
      BY SMTT(20), <1>8, <2>3 DEF Fence, FenceIInv, HandlersInv, HandlerGoto
    <3>2. Fenced(h)'
      BY Zenon, <3>1, <2>1, <1>1 DEF Refused, Fenced, LeaseRefuses, OrderRefuses, Existing, L0
    <3>3. Compared(h)'
      BY Zenon, <3>1, <2>1, <1>1 DEF Compared, Existing
    <3>4. QED BY Zenon, <1>2, <2>1, <2>2, <3>2, <3>3 DEF FenceIInv
  <2>4. CASE Compare(h)
    <3>1. stored_matches_spool(req[h]) /\ hpc[h] = "compare" /\ hpc'[h] = "apply"
      BY SMTT(20), <1>8, <2>4 DEF Compare, FenceIInv, HandlersInv, HandlerGoto
    <3>2. Fenced(h)'
      BY ZenonT(30), <3>1, <2>1, <1>1 DEF FenceIInv, Fenced, LeaseRefuses, OrderRefuses, Existing, L0
    <3>3. \A e, f \in Existing(req[h]) : e = f
      BY DEF FenceIInv, BucketInv, Existing, SameKey
    <3>4. Compared(h)'
      BY ZenonT(30), <3>1, <3>3, <2>1, <1>1 DEF Compared, Existing, stored_matches_spool
    <3>5. QED BY SMTT(20), SMTT(30), <1>2, <2>1, <2>2, <3>2, <3>4 DEF FenceIInv
  <2>5. QED BY SMTT(20), SMTT(30), <1>8, <2>3, <2>4
<1>9. QED BY SMTT(20), SMTT(30), <1>4, <1>5, <1>6, <1>7, <1>8

\* The steps of the handler at the gate that change bucket or lease: nobody
\* else has been checked against them.
LEMMA MutationIInv ==
    ASSUME FenceIInv, NEW h \in Handlers, Apply(h) \/ BackendFails(h) \/ CommitLease(h)
    PROVE  /\ FenceIInv'
           /\ \A f \in bucket, g \in bucket' : f.lvl = 0 /\ SameKey(f, g) => f.body = g.body
<1>1. hpc[h] \in {"fence", "compare", "apply", "lease"}
  BY Zenon DEF Apply, BackendFails, CommitLease
<1>2. \A g \in Handlers \ {h} : hpc[g] \notin {"fence", "compare", "apply", "lease"}
  BY <1>1, OneAtTheGate DEF FenceIInv
<1>3. /\ HandlersInv' /\ hpc'[h] \in {"idle", "lease"}
      /\ \A g \in Handlers \ {h} : hpc'[g] = hpc[g]
  <2>1. CASE Apply(h)
    BY SMTT(20), SMTT(30), <2>1 DEF Apply, FenceIInv, HandlersInv, HandlerGoto
  <2>2. CASE BackendFails(h) \/ CommitLease(h)
    BY SMTT(20), SMTT(30), <2>2, RespondHandlers DEF BackendFails, CommitLease, FenceIInv
  <2>3. QED BY <2>1, <2>2
<1>4. \A g \in Handlers : Fenced(g)' /\ Compared(g)'
  BY <1>2, <1>3 DEF Fenced, Compared
<1>5. req[h] \in Requests
  BY <1>1 DEF FenceIInv, HandlersInv
<1>6. LeaseInv'
  <2>1. CASE CommitLease(h)
    <3>1. req[h].id \in Ids \cup {NoId}
      BY SMTT(20), <1>5, HttpFenceAssumption DEF Request
    <3>2. lease' = lease \/ lease' = [id |-> req[h].id, fresh |-> TRUE]
      BY <2>1 DEF CommitLease
    <3>3. [id |-> req[h].id, fresh |-> TRUE] \in [id : Ids \cup {NoId}, fresh : BOOLEAN]
      BY Zenon, <3>1
    <3>4. lease \in [id : Ids \cup {NoId}, fresh : BOOLEAN]
      BY Zenon DEF LeaseInv, FenceIInv
    <3>5. lease' \in [id : Ids \cup {NoId}, fresh : BOOLEAN]
      BY ZenonT(30), <3>2, <3>3, <3>4
    <3>6. QED BY Zenon, <3>5 DEF LeaseInv
  <2>2. CASE Apply(h) \/ BackendFails(h)
    BY ZenonT(30), <2>2 DEF Apply, BackendFails, LeaseInv, FenceIInv
  <2>3. QED BY <2>1, <2>2
<1>7. BucketInv' /\ \A f \in bucket, g \in bucket' : f.lvl = 0 /\ SameKey(f, g) => f.body = g.body
  <2>1. CASE hpc[h] = "apply" /\ bucket' = Applied(req[h]) /\ top' = NewTop(req[h])
    BY <2>1, <1>5, AppliedInv DEF FenceIInv, Fenced, Compared
  <2>2. CASE bucket' \subseteq bucket /\ top' = top
    BY <2>2 DEF FenceIInv, BucketInv, SameKey
  <2>3. CASE Apply(h)
    BY Zenon, <2>1, <2>3 DEF Apply
  <2>4. CASE CommitLease(h)
    BY SMTT(20), SMTT(30), <2>2, <2>4 DEF CommitLease
  <2>5. CASE BackendFails(h)
    BY <2>1, <2>2, <2>5 DEF BackendFails
  <2>6. QED BY SMTT(20), SMTT(30), <2>3, <2>4, <2>5
<1>8. QED BY ZenonT(30), <1>3, <1>4, <1>6, <1>7 DEF FenceIInv

\* A lease that gets old and a restart keep what was checked true.
LEMMA EventIInv == FenceIInv /\ (Expire \/ Restart) => FenceIInv'
<1> SUFFICES ASSUME FenceIInv, Expire \/ Restart PROVE FenceIInv'
  OBVIOUS
<1>1. BucketInv' /\ UNCHANGED bucket
  BY DEF Expire, Restart, FenceIInv, BucketInv
<1>2. CASE Expire
  <2>1. HandlersInv'
    BY <1>2 DEF Expire, FenceIInv, HandlersInv
  <2>2. LeaseInv' /\ lease'.fresh = FALSE
    BY Zenon, <1>2 DEF Expire, FenceIInv, LeaseInv
  <2>3. \A h \in Handlers : Fenced(h)' /\ Compared(h)'
    BY SMTT(20), SMTT(30), <1>1, <1>2, <2>2 DEF Expire, FenceIInv, Fenced, Compared, LeaseRefuses, OrderRefuses, Existing, L0
  <2>4. QED BY <1>1, <2>1, <2>2, <2>3 DEF FenceIInv
<1>3. CASE Restart
  <2>1. HandlersInv' /\ \A h \in Handlers : hpc'[h] = "idle"
    BY <1>3, HttpFenceAssumption DEF Restart, HandlersInv
  <2>2. LeaseInv'
    BY ZenonT(30), <1>3 DEF Restart, LeaseInv, NoLease
  <2>3. QED BY <1>1, <2>1, <2>2 DEF FenceIInv, Fenced, Compared
<1>4. QED BY <1>2, <1>3

\* A step of the mount keeps the invariant.
LEMMA StepIInv == FenceIInv /\ [FenceNext]_fenceVars => FenceIInv'
<1> SUFFICES ASSUME FenceIInv, [FenceNext]_fenceVars PROVE FenceIInv'
  OBVIOUS
<1>1. CASE UNCHANGED fenceVars
  BY SMTT(20), <1>1 DEF fenceVars, FenceIInv, HandlersInv, BucketInv, LeaseInv, Fenced, Compared, LeaseRefuses,
              OrderRefuses, Existing, L0
<1>2. CASE FenceNext
  BY Zenon, <1>2, HandlerIInv, MutationIInv, EventIInv DEF FenceNext, HandlerStep
<1>3. QED BY <1>1, <1>2

\* The invariant of the fence: what was checked under the gate stays true
\* until it is used, so every accepted request leaves the bucket in order.
THEOREM FenceInvariant == FenceSpec => []FenceIInv
BY FenceInitIInv, StepIInv, PTL DEF FenceSpec

\* The mount's state has its types and the gate has one holder at most.
THEOREM FenceTypes == FenceSpec => []FenceTypeOK
<1>1. FenceIInv => FenceTypeOK
  BY DEF FenceIInv, HandlersInv, BucketInv, LeaseInv, FenceTypeOK
<1>2. QED BY <1>1, FenceInvariant, PTL

\* Level 0 never holds a TXID twice, whoever pushes at the same time.
THEOREM FenceNoOverlap == FenceSpec => []NoOverlap
<1>1. FenceIInv => NoOverlap
  BY DEF FenceIInv, BucketInv, NoOverlap, L0, ltx_files
<1>2. QED BY <1>1, FenceInvariant, PTL

\* The levels above level 0 reach no TXID beyond those level 0 has reached since
\* the last wipe.  (Positions, not contents: a snapshot of the history before
\* the wipe is accepted once the new level 0 has come as far.)
THEOREM FenceNothingBeyond == FenceSpec => []NothingBeyond
<1>1. FenceIInv => NothingBeyond
  BY DEF FenceIInv, BucketInv, NothingBeyond
<1>2. QED BY <1>1, FenceInvariant, PTL

\* No step replaces a stored level 0 file by other bytes.
THEOREM FenceNeverReplaced == FenceSpec => NeverReplaced
<1> DEFINE Keeps == \A f \in bucket, g \in bucket' : f.lvl = 0 /\ SameKey(f, g) => f.body = g.body
<1>1. FenceIInv /\ [FenceNext]_fenceVars => [Keeps]_fenceVars
  <2> SUFFICES ASSUME FenceIInv, FenceNext PROVE Keeps
    OBVIOUS
  <2>1. CASE bucket' = bucket
    BY <2>1 DEF FenceIInv, BucketInv
  <2>2. CASE \E h \in Handlers : Apply(h) \/ BackendFails(h) \/ CommitLease(h)
    BY <2>2, MutationIInv
  <2>3. QED
    BY <2>1, <2>2 DEF FenceNext, HandlerStep, Arrive, Spool, TakeGate, Fence, Compare, Expire, Restart
<1>2. QED BY <1>1, FenceInvariant, PTL DEF FenceSpec, NeverReplaced

\* A request is applied only while no other writer's lease is young.
THEOREM FenceOwnerExclusive == FenceSpec => OwnerExclusive
<1> DEFINE Owns == \A h \in Handlers : hpc[h] = "apply" /\ hpc'[h] = "lease" => ~LeaseRefuses(req[h])
<1>1. FenceIInv => Owns
  BY DEF FenceIInv, Fenced
<1>2. QED BY <1>1, FenceInvariant, PTL DEF FenceSpec, OwnerExclusive

----------------------------------------------------------------------------
(* HttpStream *)

\* What the device leaves in the bucket: one file per key, nothing newer than
\* the head, and, unless a wipe is under way, the head in level 0.
DeviceInv ==
    /\ head \in Nat /\ gen \in Nat
    /\ \A f \in bucket : f.lvl \in Levels /\ f.min \in Nat /\ f.max \in Nat /\ f.max <= head
    /\ \A f, g \in bucket : SameKey(f, g) => f = g
    /\ due # "wipe" /\ head > 0 => \E f \in bucket : f.lvl = 0 /\ f.max = head

\* What a stream knows of the lineage it was opened in: its follower is not
\* ahead of the head, and neither is its listing.
CursorInv ==
    /\ since \in Nat /\ cursor \in Nat /\ since <= gen
    /\ \A f \in files : f.lvl = 0 /\ f.min \in Nat /\ f.max \in Nat
    /\ \A f, g \in files : SameKey(f, g) => f = g
    /\ spc = "closed" => files = {} /\ since < gen
    /\ since = gen => cursor <= head + 1 /\ \A f \in files : f.max <= head

\* What a scan has found: after level 0 it has the head, which retention never
\* deletes, so that nothing that moves between levels can hide it.
ScanInv ==
    /\ level \in Nat /\ max \in Nat
    /\ level > 0 => spc \in {"preamble", "confirm", "ping", "aborted"}
    /\ level = 0 => max = 0
    /\ level > 0 /\ since = gen /\ due # "wipe" => max >= cursor - 1 \/ (max = 0 /\ level > SNAPSHOT_LEVEL)

\* The inductive invariant.
IInv == DeviceInv /\ CursorInv /\ ScanInv /\ NoFalseReset

----------------------------------------------------------------------------
(* The device *)

\* The first file of a level is one of its files.
LEMMA FirstAt ==
    ASSUME DeviceInv, NEW l, At(l) # {}
    PROVE  First(At(l)) \in At(l)
<1>1. \A f \in At(l) : f.min \in Nat /\ f.max \in Nat
  BY DEF DeviceInv, At, ltx_files
<1>2. \A f, g \in At(l) : f.min = g.min /\ f.max = g.max => f = g
  BY DEF DeviceInv, At, ltx_files, SameKey
<1>3. QED BY <1>1, <1>2, FirstIs

\* A file is written above level 0.
LEMMA WriteAbove ==
    ASSUME DeviceInv, NEW f, f.lvl \in Levels \ {0}, f.min \in Nat, f.max \in Nat, f.max <= head,
           bucket' = write_ltx_file(bucket, f), UNCHANGED <<head, gen>>, due' # "wipe" => due # "wipe"
    PROVE  DeviceInv'
<1>1. bucket' = {g \in bucket : ~SameKey(f, g)} \cup {f}
  BY DEF write_ltx_file
<1>2. \A g \in bucket : g.lvl = 0 => g \in bucket'
  BY <1>1 DEF SameKey
<1>3. \A g, h \in bucket' : SameKey(g, h) => g = h
  BY <1>1 DEF SameKey, DeviceInv
<1>4. QED BY <1>1, <1>2, <1>3 DEF DeviceInv, SameKey

\* A file is deleted that is not the head in level 0.
LEMMA DeleteOther ==
    ASSUME DeviceInv, NEW f, f.lvl # 0 \/ f.max < head,
           bucket' = bucket \ {f}, UNCHANGED <<head, gen>>, due' # "wipe" => due # "wipe"
    PROVE  DeviceInv'
BY SMTT(20), SMTT(30) DEF DeviceInv, SameKey

\* A mutation of the bucket keeps what the device promises.
LEMMA MutationInv ==
    ASSUME DeviceInv, (Mutate \/ Delete) /\ ~Wipe
    PROVE  DeviceInv' /\ UNCHANGED gen /\ head' \in Nat /\ head <= head' /\ (due' # "wipe" => due # "wipe")
<1> USE SnapshotLevelAssumption
<1>0. due' # "wipe" /\ due # "wipe"
  BY DEF Mutate, Delete, Ready
<1>1. CASE Push
  <2>1. /\ head \in Nat /\ head' = head + 1 /\ gen' = gen
        /\ bucket' = bucket \cup {File(0, head + 1, head + 1)}
    BY <1>1 DEF Push, DeviceInv
  <2> DEFINE f == File(0, head + 1, head + 1)
  <2>2. f.lvl = 0 /\ f.min = head + 1 /\ f.max = head + 1
    BY DEF File
  <2>3. \A g \in bucket : ~SameKey(f, g) /\ ~SameKey(g, f)
    BY <2>1, <2>2 DEF SameKey, DeviceInv
  <2> HIDE DEF f
  <2>4. \A g, h \in bucket' : SameKey(g, h) => g = h
    BY <2>1, <2>3 DEF DeviceInv, f
  <2>5. \A g \in bucket' : g.lvl \in Levels /\ g.min \in Nat /\ g.max \in Nat /\ g.max <= head'
    <3>1. ASSUME NEW g \in bucket PROVE g.lvl \in Levels /\ g.min \in Nat /\ g.max \in Nat /\ g.max <= head'
      BY <2>1 DEF DeviceInv
    <3>2. f.lvl \in Levels /\ f.min \in Nat /\ f.max \in Nat /\ f.max <= head'
      BY <2>1, <2>2 DEF Levels
    <3>3. QED BY <2>1, <3>1, <3>2 DEF f
  <2>6. f \in bucket' /\ f.max = head'
    BY <2>1, <2>2 DEF f
  <2>7. DeviceInv'
    BY SMTT(20), SMTT(30), <2>1, <2>2, <2>4, <2>5, <2>6 DEF DeviceInv, SameKey, Levels
  <2>8. QED BY <1>0, <2>1, <2>7
<1>2. CASE PutSnapshot
  <2> DEFINE f == File(SNAPSHOT_LEVEL, 1, head)
  <2>1. f.lvl = SNAPSHOT_LEVEL /\ f.min = 1 /\ f.max = head
    BY DEF File
  <2>2. bucket' = write_ltx_file(bucket, f) /\ UNCHANGED <<head, gen>>
    BY <1>2 DEF PutSnapshot
  <2> HIDE DEF f
  <2>3. f.lvl \in Levels \ {0} /\ f.min \in Nat /\ f.max \in Nat /\ f.max <= head
    BY <2>1 DEF Levels, DeviceInv
  <2>4. QED BY <1>0, <2>2, <2>3, WriteAbove DEF DeviceInv
<1>3. ASSUME NEW l \in MergedLevels, Merge(l) PROVE DeviceInv' /\ UNCHANGED <<head, gen>>
  <2> DEFINE S == Sources(l)
             f == File(l, First(S).min, MaxTxid(S))
  <2>1. S # {} /\ bucket' = write_ltx_file(bucket, f) /\ UNCHANGED <<head, gen>>
    BY <1>3 DEF Merge
  <2>2. f.lvl = l /\ f.min = First(S).min /\ f.max = MaxTxid(S)
    BY DEF File
  <2>3. \A g \in S : g \in bucket /\ g.lvl = l - 1
    BY DEF Sources, ltx_files
  <2> HIDE DEF S, f
  <2>4. First(S) \in S
    <3>1. \A g \in S : g.min \in Nat /\ g.max \in Nat
      BY <2>3 DEF DeviceInv
    <3>2. \A g, h \in S : g.min = h.min /\ g.max = h.max => g = h
      BY <2>3 DEF DeviceInv, SameKey
    <3>3. QED BY <2>1, <3>1, <3>2, FirstIs
  <2>5. MaxTxid(S) \in Nat /\ MaxTxid(S) <= head
    BY <2>3, MaxTxidIs DEF DeviceInv
  <2>6. f.lvl \in Levels \ {0} /\ f.min \in Nat /\ f.max \in Nat /\ f.max <= head
    BY SMTT(20), SMTT(30), <2>2, <2>3, <2>4, <2>5 DEF MergedLevels, Levels, DeviceInv
  <2>7. QED BY <1>0, <2>1, <2>6, WriteAbove
<1>4. CASE DropL0
  <2> DEFINE f == First(At(0))
  <2>1. f.max < MaxTxid(At(0)) /\ bucket' = bucket \ {f} /\ UNCHANGED <<head, gen>> /\ At(0) # {}
    BY <1>4 DEF DropL0
  <2>2. MaxTxid(At(0)) \in Nat /\ MaxTxid(At(0)) <= head
    BY MaxTxidIs DEF DeviceInv, At, ltx_files
  <2>3. f \in At(0)
    BY <2>1, FirstAt
  <2>4. f.max < head
    BY SMTT(20), SMTT(30), <2>1, <2>2, <2>3 DEF DeviceInv, At, ltx_files
  <2> HIDE DEF f
  <2>5. QED BY <1>0, <2>1, <2>4, DeleteOther DEF DeviceInv
<1>5. CASE DropSnapshot
  <2> DEFINE f == First(At(SNAPSHOT_LEVEL))
  <2>1. bucket' = bucket \ {f} /\ UNCHANGED <<head, gen>> /\ At(SNAPSHOT_LEVEL) # {}
    BY <1>5 DEF DropSnapshot
  <2>2. f.lvl # 0
    BY Zenon, <2>1, FirstAt, SNAPSHOT_LEVEL # 0 DEF At, ltx_files
  <2> HIDE DEF f
  <2>3. QED BY <1>0, <2>1, <2>2, DeleteOther DEF DeviceInv
<1>6. ASSUME NEW l \in MergedLevels, DropMerged(l) PROVE DeviceInv' /\ UNCHANGED <<head, gen>>
  <2> DEFINE f == First(At(l))
  <2>1. bucket' = bucket \ {f} /\ UNCHANGED <<head, gen>> /\ At(l) # {}
    BY <1>6 DEF DropMerged
  <2>2. f.lvl # 0
    <3>1. f \in At(l)
      BY <2>1, FirstAt
    <3>2. l # 0
      BY DEF MergedLevels
    <3>3. QED BY <3>1, <3>2 DEF At, ltx_files
  <2> HIDE DEF f
  <2>3. QED BY <1>0, <2>1, <2>2, DeleteOther
<1>7. QED BY SMTT(20), SMTT(30), <1>0, <1>1, <1>2, <1>3, <1>4, <1>5, <1>6 DEF Mutate, Delete, DeviceInv

----------------------------------------------------------------------------
(* The stream *)

\* Where the streams start.
LEMMA InitIInv == Init => IInv
<1> SUFFICES ASSUME Init PROVE IInv
  OBVIOUS
<1>1. PICK b \in Found : bucket = b.files /\ head = b.head
  BY DEF Init
<1>2. Kept(b)
  BY HttpStreamAssumption
<1>3. DeviceInv
  BY <1>1, <1>2 DEF Init, DeviceInv, Kept
<1>4. QED
  BY <1>3 DEF Init, IInv, CursorInv, ScanInv, NoFalseReset

\* The device: only a wipe takes anything back, and a wipe is a new lineage.
LEMMA DeviceIInv ==
    ASSUME IInv, Device
    PROVE  IInv'
<1>1. UNCHANGED <<spc, cursor, since, files, level, max>>
  BY DEF Device, roundVars, scanVars
<1>2. CASE (Mutate \/ Delete) /\ ~Wipe
  <2>1. DeviceInv' /\ gen' = gen /\ head' \in Nat /\ head <= head' /\ due' # "wipe" /\ due # "wipe"
    <3>1. due' # "wipe" /\ due # "wipe"
      BY <1>2 DEF Mutate, Delete, Ready
    <3>2. QED BY <1>2, <3>1, MutationInv DEF IInv
  <2>2. CursorInv'
    <3>1. since = gen => cursor <= head' + 1 /\ \A f \in files : f.max <= head'
      <4>1. /\ cursor \in Nat /\ head \in Nat /\ \A f \in files : f.max \in Nat
            /\ since = gen => cursor <= head + 1 /\ \A f \in files : f.max <= head
        BY DEF IInv, CursorInv, DeviceInv
      <4>2. head' \in Nat /\ head <= head'
        BY Zenon, <2>1
      <4>3. ASSUME since = gen, NEW f \in files PROVE f.max <= head'
        <5>1. f.max \in Nat /\ f.max <= head /\ head \in Nat
          BY Zenon, <4>1, <4>3
        <5>2. QED BY <4>2, <5>1
      <4>4. ASSUME since = gen PROVE cursor <= head' + 1
        <5>1. cursor \in Nat /\ head \in Nat /\ cursor <= head + 1
          BY Zenon, <4>1, <4>4
        <5>2. \A a, b, c \in Nat : a <= b + 1 /\ b <= c => a <= c + 1
          BY SMTT(20), SMTT(30)
        <5>3. QED BY Zenon, <4>2, <5>1, <5>2
      <4>5. QED BY Zenon, <4>3, <4>4
    <3>2. QED BY Zenon, <1>1, <2>1, <3>1 DEF IInv, CursorInv, SameKey
  <2>3. QED
    BY <1>1, <2>1, <2>2 DEF IInv, ScanInv, NoFalseReset
<1>3. CASE Wipe
  <2>1. bucket' = {} /\ head' = 0 /\ gen' = gen + 1
    BY <1>3 DEF Wipe
  <2>2. DeviceInv' /\ since < gen'
    BY SMTT(20), SMTT(30), <1>1, <2>1 DEF IInv, DeviceInv, CursorInv
  <2>3. QED
    BY <1>1, <2>1, <2>2 DEF IInv, DeviceInv, CursorInv, ScanInv, NoFalseReset, SameKey
<1>4. CASE WipeSome
  <2>1. bucket' \subseteq bucket /\ due' = "wipe" /\ UNCHANGED <<head, gen>>
    BY <1>4 DEF WipeSome
  <2>2. DeviceInv'
    BY SMTT(20), SMTT(30), <2>1 DEF IInv, DeviceInv, SameKey
  <2>3. QED
    BY <1>1, <2>1, <2>2 DEF IInv, CursorInv, ScanInv, NoFalseReset, SameKey
<1>5. CASE (notify \/ MutationFails) /\ UNCHANGED upkeepVars
  <2>1. due # "wipe" /\ due' # "wipe" /\ UNCHANGED <<bucket, head, gen>>
    BY <1>5 DEF notify, MutationFails, upkeepVars
  <2>2. QED
    BY <1>1, <2>1 DEF IInv, DeviceInv, CursorInv, ScanInv, NoFalseReset, SameKey
<1>6. QED
  BY <1>2, <1>3, <1>4, <1>5 DEF Device

\* The scan of all levels.
LEMMA ScanIInv ==
    ASSUME IInv, Scan \/ Scanned
    PROVE  IInv'
<1> USE SnapshotLevelAssumption
<1>0. UNCHANGED <<bucket, head, gen, due, since, cursor, files>>
  BY Zenon DEF Scan, Scanned, StreamOnly, upkeepVars, deviceVars, roundVars
<1>1. DeviceInv'
  BY <1>0 DEF IInv, DeviceInv, SameKey
<1>2. CASE Scan
  <2>1. spc \in {"preamble", "confirm", "ping"} /\ spc' = spc /\ level <= SNAPSHOT_LEVEL
    BY <1>2 DEF Scan
  <2>2. CursorInv' /\ NoFalseReset'
    BY <1>0, <2>1 DEF IInv, CursorInv, NoFalseReset, SameKey
  <2>3. MaxTxid(At(level)) \in Nat /\ \A f \in At(level) : f.max <= MaxTxid(At(level))
    BY MaxTxidIs DEF IInv, DeviceInv, At, ltx_files
  <2>4. CASE max' = 0 /\ level' = SNAPSHOT_LEVEL + 1
    <3>1. ScanInv'
      BY SMTT(20), SMTT(30), <1>0, <2>1, <2>4 DEF IInv, ScanInv
    <3>2. QED BY <1>1, <2>2, <3>1 DEF IInv
  <2>5. CASE /\ max' = (IF MaxTxid(At(level)) > max THEN MaxTxid(At(level)) ELSE max)
             /\ level' = level + 1
    <3>1. /\ max \in Nat /\ level \in Nat /\ max' \in Nat
          /\ max' >= max /\ max' >= MaxTxid(At(level)) /\ level' = level + 1
      BY <2>3, <2>5 DEF IInv, ScanInv
    <3>2. ASSUME since = gen, due # "wipe" PROVE max' >= cursor - 1
      <4>1. cursor \in Nat /\ head \in Nat /\ cursor <= head + 1
        BY <3>2 DEF IInv, CursorInv, DeviceInv
      <4>2. CASE level > 0
        BY SMTT(20), SMTT(30), <2>1, <3>1, <3>2, <4>1, <4>2 DEF IInv, ScanInv
      <4>3. CASE level = 0 /\ head > 0
        <5>1. PICK f \in bucket : f.lvl = 0 /\ f.max = head
          BY <3>2, <4>3 DEF IInv, DeviceInv
        <5>2. f \in At(level)
          BY <4>3, <5>1 DEF At, ltx_files, IInv, DeviceInv
        <5>3. QED BY SMTT(20), SMTT(30), <2>3, <3>1, <4>1, <5>1, <5>2
      <4>4. CASE level = 0 /\ head = 0
        BY <3>1, <4>1, <4>4
      <4>5. QED BY SMTT(20), SMTT(30), <3>1, <4>1, <4>2, <4>3, <4>4
    <3>3. ScanInv'
      BY <1>0, <2>1, <3>1, <3>2 DEF ScanInv
    <3>4. QED BY <1>1, <2>2, <3>3 DEF IInv
  <2>6. QED BY <1>2, <2>4, <2>5 DEF Scan
<1>3. CASE Scanned
  <2>1. /\ spc \in {"preamble", "confirm", "ping"} /\ level > SNAPSHOT_LEVEL
        /\ level' = 0 /\ max' = 0 /\ spc' \in {"reset", "top", "caught up"}
        /\ spc' = "reset" => is_reset(max, cursor)
    BY Zenon, <1>3 DEF Scanned, Goto
  <2>2. NoFalseReset'
    <3> SUFFICES ASSUME spc' = "reset" PROVE since < gen \/ due = "wipe"
      BY <1>0 DEF NoFalseReset
    <3>1. max # 0 /\ max < cursor - 1
      BY <2>1 DEF is_reset
    <3>2. level > 0 /\ max \in Nat /\ cursor \in Nat
      BY <2>1 DEF IInv, ScanInv, CursorInv
    <3>3. since # gen \/ due = "wipe"
      BY SMTT(20), SMTT(30), <3>1, <3>2 DEF IInv, ScanInv
    <3>4. QED BY <3>3 DEF IInv, CursorInv, DeviceInv
  <2>3. QED
    <3>1. CursorInv'
      BY Zenon, <1>0, <2>1 DEF IInv, CursorInv, SameKey
    <3>2. ScanInv'
      <4>1. level' = 0 /\ max' = 0
        BY Zenon, <2>1
      <4>2. QED BY <4>1 DEF ScanInv
    <3>3. QED BY <1>1, <2>2, <3>1, <3>2 DEF IInv
<1>4. QED BY <1>2, <1>3

\* The files of a round.
LEMMA SendIInv ==
    ASSUME IInv, List \/ Send
    PROVE  IInv'
<1>0. UNCHANGED <<bucket, head, gen, due, since, level, max>>
  BY DEF List, Send, StreamOnly, upkeepVars, deviceVars, scanVars
<1>1. DeviceInv'
  BY <1>0 DEF IInv, DeviceInv, SameKey
<1>2. level = 0 /\ spc \in {"list", "send"} /\ spc' \in {"send", "gap", "aborted"}
  BY DEF List, Send, Goto, IInv, ScanInv
<1>3. ScanInv' /\ NoFalseReset'
  BY <1>0, <1>2 DEF IInv, ScanInv, NoFalseReset
<1>4. CASE List
  <2>1. files' = Wanted(At(0)) /\ cursor' = cursor
    BY <1>4 DEF List
  <2>2. \A f \in files' : f \in bucket /\ f.lvl = 0
    BY <2>1 DEF Wanted, At, ltx_files
  <2>3. \A f \in files' : f.lvl = 0 /\ f.min \in Nat /\ f.max \in Nat /\ f.max <= head'
    BY <1>0, <2>2 DEF IInv, DeviceInv
  <2>4. \A f, g \in files' : SameKey(f, g) => f = g
    BY <2>2 DEF IInv, DeviceInv
  <2>5. CursorInv'
    BY SMTT(20), SMTT(30), <1>0, <1>2, <2>1, <2>3, <2>4 DEF IInv, CursorInv, SameKey
  <2>6. QED BY <1>1, <1>3, <2>5 DEF IInv
<1>5. CASE Send
  <2> DEFINE f == First(files)
  <2>1. files # {}
    BY <1>5 DEF Send
  <2>2. f \in files
    <3>1. \A g \in files : g.min \in Nat /\ g.max \in Nat
      BY DEF IInv, CursorInv
    <3>2. \A g, h \in files : g.min = h.min /\ g.max = h.max => g = h
      BY SMTT(20), SMTT(30) DEF IInv, CursorInv, SameKey
    <3>3. QED BY <2>1, <3>1, <3>2, FirstIs
  <2>3. files' \subseteq files /\ (cursor' = cursor \/ cursor' = f.max + 1)
    BY <1>5 DEF Send
  <2> HIDE DEF f
  <2>4. cursor' \in Nat /\ (since = gen => cursor' <= head + 1)
    BY <2>2, <2>3 DEF IInv, CursorInv, DeviceInv
  <2>5. CursorInv'
    BY <1>0, <1>2, <2>3, <2>4 DEF IInv, CursorInv, SameKey
  <2>6. QED BY <1>1, <1>3, <2>5 DEF IInv
<1>6. QED BY <1>4, <1>5

\* Everything else a stream does.
LEMMA OtherIInv ==
    ASSUME IInv, Shutdown \/ Top \/ RoundEnd \/ CaughtUp \/ Wake \/ PollTick \/ Aborts
    PROVE  IInv'
<1>0. UNCHANGED <<bucket, head, gen, due, since, cursor, level, max, files>>
  BY Zenon DEF Shutdown, Top, RoundEnd, CaughtUp, Wake, PollTick, Aborts, StreamOnly,
         upkeepVars, deviceVars, roundVars, scanVars
<1>1. DeviceInv'
  BY <1>0 DEF IInv, DeviceInv, SameKey
<1>2. spc' = spc \/ spc' = "aborted" \/
      (/\ spc \notin {"preamble", "confirm", "ping", "aborted"}
       /\ spc' \in {"stopped", "list", "top", "confirm", "caught up", "ping", "parked"})
  BY Zenon DEF Shutdown, Top, RoundEnd, CaughtUp, Wake, PollTick, Aborts, Goto
<1>3. QED
  <2>1. CursorInv'
    BY Zenon, <1>0, <1>2 DEF IInv, CursorInv, SameKey
  <2>2. ScanInv'
    BY Zenon, <1>0, <1>2 DEF IInv, ScanInv
  <2>3. NoFalseReset'
    BY <1>0, <1>2 DEF IInv, NoFalseReset
  <2>4. QED BY <1>1, <2>1, <2>2, <2>3 DEF IInv

\* A follower asks: it has applied a prefix of the lineage there is.
LEMMA OpenIInv ==
    ASSUME IInv, Open
    PROVE  IInv'
<1>0. UNCHANGED <<bucket, head, gen, due, level, max, files>>
  BY DEF Open, upkeepVars, deviceVars, roundVars, scanVars
<1>1. /\ spc = "closed" /\ spc' = "preamble" /\ since' = gen
      /\ cursor' \in 1..(head + 1)
  BY DEF Open, Goto
<1>2. files = {} /\ level = 0
  BY <1>1 DEF IInv, CursorInv, ScanInv
<1>3. DeviceInv'
  BY SMTT(20), SMTT(30), <1>0 DEF IInv, DeviceInv, SameKey
<1>4. QED
  BY <1>0, <1>1, <1>2, <1>3 DEF IInv, DeviceInv, CursorInv, ScanInv, NoFalseReset

\* IInv is an invariant of the stream beside its device.
THEOREM StreamInvariant == Spec => []IInv
<1>1. IInv /\ [Next]_vars => IInv'
  <2> SUFFICES ASSUME IInv, [Next]_vars PROVE IInv'
    OBVIOUS
  <2>1. CASE UNCHANGED vars
    BY <2>1 DEF vars, upkeepVars, deviceVars, roundVars, scanVars,
                IInv, DeviceInv, CursorInv, ScanInv, NoFalseReset, SameKey
  <2>2. CASE Next
    BY <2>2, DeviceIInv, ScanIInv, SendIInv, OtherIInv, OpenIInv DEF Next, StreamStep
  <2>3. QED BY <2>1, <2>2
<1>2. QED BY <1>1, InitIInv, PTL DEF Spec

\* However the device merges, deletes and snapshots between two listings of
\* bucket_max, a follower is sent the reset frame only when the bucket was
\* wiped after it asked, or is being wiped.
THEOREM ResetMeansWiped == Spec => []NoFalseReset
BY StreamInvariant, PTL DEF IInv
=============================================================================
