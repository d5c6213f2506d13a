----------------------------- MODULE HttpServer -----------------------------
(***************************************************************************)
(* The life of the HTTP server's threads, crates/liters-storage/src/http/  *)
(* server.rs: an accept loop, one handler thread per connection, and the   *)
(* host that shuts the server down while connections still come in.        *)
(*                                                                         *)
(* What a request does to the bucket is in HttpFence and HttpStream.  Here *)
(* a handler is a thread that blocks on its socket: a peer may let it wait *)
(* for as long as it likes, and only a closed socket ends the wait for     *)
(* sure (the socket timeouts may end it earlier and are not relied on).    *)
(***************************************************************************)
EXTENDS Naturals, FiniteSets

CONSTANTS
    Peers,        \* connections that can come in, each once
    MaxShutdowns  \* bound: calls of shutdown, the one on drop included

ASSUME HttpServerAssumption == IsFiniteSet(Peers) /\ MaxShutdowns \in Nat

VARIABLES
    stop,         \* Shared::stop
    streamsWoken, \* the mount's streams were woken by a shutdown
    conns,        \* HttpServer::conns
    closed,       \* sockets that were shut down in both directions
    acc, taken,   \* where the accept loop is, and the connection it has in hand
    cpc,          \* where the handler of each connection is
    drains,       \* connections whose request has a body, drained after the answer
    holder,       \* the handler that holds the mount's write gate
    hostpc,       \* where the host's call of shutdown is
    joining,      \* the connection the drain pass waits for
    shutdowns

acceptVars == <<acc, taken, conns>>
serverVars == <<stop, streamsWoken, hostpc, joining, shutdowns>>
httpServerVars == <<serverVars, closed, acceptVars, cpc, drains, holder>>

NoConn == {}

----------------------------------------------------------------------------
(* accept_loop *)

AcceptOnly == UNCHANGED <<serverVars, closed, drains, holder>>

\* The loop ends when it sees the token.
AcceptStops ==
    /\ acc = "top" /\ stop
    /\ acc' = "exited"
    /\ UNCHANGED <<taken, conns, cpc>> /\ AcceptOnly

\* A connection is taken and has a second handle for the registry; or there is
\* none, or its socket cannot be set up and is dropped.
Accept ==
    /\ acc = "top" /\ ~stop
    /\ \/ \E c \in Peers : cpc[c] = "none" /\ taken' = {c} /\ acc' = "spawn" /\ UNCHANGED cpc
       \/ acc' = "reap" /\ UNCHANGED <<taken, cpc>>
       \/ \E c \in Peers : cpc[c] = "none" /\ cpc' = [cpc EXCEPT ![c] = "exited"] /\ UNCHANGED <<acc, taken>>
    /\ UNCHANGED conns /\ AcceptOnly

\* The handler's thread starts, or cannot be started.
Spawn ==
    /\ acc = "spawn"
    /\ \/ cpc' = [c \in Peers |-> IF c \in taken THEN "head" ELSE cpc[c]]
          /\ acc' = "register" /\ UNCHANGED taken
       \/ cpc' = [c \in Peers |-> IF c \in taken THEN "exited" ELSE cpc[c]]
          /\ acc' = "reap" /\ taken' = NoConn
    /\ UNCHANGED conns /\ AcceptOnly

\* The handler runs already when its connection is registered.
Register ==
    /\ acc = "register"
    /\ conns' = conns \cup taken
    /\ taken' = NoConn /\ acc' = "reap"
    /\ UNCHANGED cpc /\ AcceptOnly

Done(c) == cpc[c] \in {"done", "exited"}

\* Mutant: every connection is joined.
ReapAll ==
    /\ acc = "reap"
    /\ \A c \in conns : cpc[c] = "exited"
    /\ conns' = {} /\ acc' = "top"
    /\ UNCHANGED <<taken, cpc>> /\ AcceptOnly

\* Handlers that have set their flag are joined and forgotten.
reap ==
    /\ acc = "reap"
    /\ \A c \in conns : Done(c) => cpc[c] = "exited"
    /\ conns' = {c \in conns : ~Done(c)} /\ acc' = "top"
    /\ UNCHANGED <<taken, cpc>> /\ AcceptOnly

----------------------------------------------------------------------------
(* handle_connection *)

HandlerOnly == UNCHANGED <<serverVars, closed, acceptVars>>
Handler(c, from, to) == cpc[c] = from /\ cpc' = [cpc EXCEPT ![c] = to]

\* What follows the response: what is left of a request body is drained.
After(c) == IF c \in drains THEN "drain" ELSE "done"

\* A body in chunks ends: what is buffered is written, with the last chunk when
\* the end is a clean one; or nothing is left to write.
Ends(c) == {"answer", After(c)}

\* The request: one that is answered at once, a file, a stream, a DELETE, which
\* needs the mount's write gate, or a PUT with a body.  Any of them may declare
\* a body that has to be drained.
ReadHead(c) ==
    \/ \E to \in {"answer", "chunk", "frame", "gate"} :
          Handler(c, "head", to) /\ drains' \in {drains, drains \cup {c}} /\ UNCHANGED holder
    \/ Handler(c, "head", "body") /\ drains' = drains \cup {c} /\ UNCHANGED holder

\* The peer does its part: a read or a write on the socket completes.
PeerMoves(c) ==
    /\ c \notin closed
    /\ \/ ReadHead(c)
       \/ /\ \/ Handler(c, "body", "gate")
             \/ Handler(c, "answer", After(c))
             \/ Handler(c, "chunk", "file")
             \/ Handler(c, "frame", "stream")
             \/ Handler(c, "drain", "done")
          /\ UNCHANGED <<drains, holder>>
    /\ HandlerOnly

\* A read or a write fails.  A body that stops short is answered with an
\* error; what was being written is given up.
SocketFails(c) ==
    /\ \/ \E from \in {"head", "drain"} : Handler(c, from, "done")
       \/ Handler(c, "answer", After(c))
       \/ \E from \in {"chunk", "frame"}, to \in Ends(c) : Handler(c, from, to)
       \/ Handler(c, "body", "answer")
    /\ UNCHANGED <<drains, holder>> /\ HandlerOnly

\* A body received in full is stored, or a DELETE done, under the mount's write
\* gate.
TakesGate(c) ==
    /\ holder = NoConn /\ holder' = {c}
    /\ Handler(c, "gate", "held")
    /\ UNCHANGED drains /\ HandlerOnly

Stores(c) ==
    /\ Handler(c, "held", "answer")
    /\ holder' = holder \ {c}
    /\ UNCHANGED drains /\ HandlerOnly

\* Before each chunk of a file and each round of a stream the handler looks
\* at the token.  A file that is sent, a stream that is told to stop and one
\* that ends with a gap or a reset end with a last write; a stream with nothing
\* to send waits.
LooksAtStop(c) ==
    /\ \/ stop /\ \E from \in {"file", "stream"}, to \in Ends(c) : Handler(c, from, to)
       \/ ~stop /\ \E to \in {"chunk", "answer"} : Handler(c, "file", to)
       \/ ~stop /\ \E to \in {"frame", "parked", "answer"} : Handler(c, "stream", to)
    /\ UNCHANGED <<drains, holder>> /\ HandlerOnly

\* The backend fails: the body is cut short.
ServingFails(c) ==
    /\ \E from \in {"file", "stream"}, to \in Ends(c) : Handler(c, from, to)
    /\ UNCHANGED <<drains, holder>> /\ HandlerOnly

\* The mount's signal, or the poll interval, ends the wait.
Woken(c) == streamsWoken /\ Handler(c, "parked", "stream") /\ UNCHANGED <<drains, holder>> /\ HandlerOnly
PollEnds(c) == ~streamsWoken /\ Handler(c, "parked", "stream") /\ UNCHANGED <<drains, holder>> /\ HandlerOnly

\* DoneGuard has set the flag; the thread ends.
Exits(c) == Handler(c, "done", "exited") /\ UNCHANGED <<drains, holder>> /\ HandlerOnly

----------------------------------------------------------------------------
(* HttpServer::shutdown *)

HostOnly == UNCHANGED <<acc, taken, cpc, drains, holder>>

\* The token is cancelled, once.
ShutdownBegins ==
    /\ hostpc \in {"up", "down"} /\ shutdowns < MaxShutdowns
    /\ shutdowns' = shutdowns + 1
    /\ stop' = TRUE
    /\ hostpc' = IF stop THEN "close" ELSE "wake"
    /\ UNCHANGED <<streamsWoken, conns, closed, joining>> /\ HostOnly

WakeStreams ==
    /\ hostpc = "wake" /\ hostpc' = "close" /\ streamsWoken' = TRUE
    /\ UNCHANGED <<stop, conns, closed, joining, shutdowns>> /\ HostOnly

\* The sockets registered so far are closed.
CloseAll ==
    /\ hostpc = "close" /\ hostpc' = "join"
    /\ closed' = closed \cup conns
    /\ UNCHANGED <<stop, streamsWoken, conns, joining, shutdowns>> /\ HostOnly

\* Mutant: the accept thread is not waited for.
JoinNobody ==
    /\ hostpc = "join" /\ hostpc' = "drain"
    /\ UNCHANGED <<stop, streamsWoken, conns, closed, joining, shutdowns>> /\ HostOnly

\* The accept thread is joined: nothing is registered any more.
JoinAccept ==
    /\ hostpc = "join" /\ acc = "exited" /\ hostpc' = "drain"
    /\ UNCHANGED <<stop, streamsWoken, conns, closed, joining, shutdowns>> /\ HostOnly

\* Mutant: the drain pass only joins.
DrainUnclosed(c) ==
    /\ hostpc = "drain" /\ joining = NoConn /\ c \in conns
    /\ joining' = {c} /\ conns' = conns \ {c}
    /\ UNCHANGED <<stop, streamsWoken, hostpc, closed, shutdowns>> /\ HostOnly

\* The drain pass closes a connection once more before it joins its handler.
DrainClose(c) ==
    /\ hostpc = "drain" /\ joining = NoConn /\ c \in conns
    /\ closed' = closed \cup {c}
    /\ joining' = {c} /\ conns' = conns \ {c}
    /\ UNCHANGED <<stop, streamsWoken, hostpc, shutdowns>> /\ HostOnly

DrainJoin ==
    /\ hostpc = "drain" /\ joining # NoConn
    /\ \A c \in joining : cpc[c] = "exited"
    /\ joining' = NoConn
    /\ UNCHANGED <<stop, streamsWoken, hostpc, conns, closed, shutdowns>> /\ HostOnly

ShutdownReturns ==
    /\ hostpc = "drain" /\ joining = NoConn /\ conns = {}
    /\ hostpc' = "down"
    /\ UNCHANGED <<stop, streamsWoken, conns, closed, joining, shutdowns>> /\ HostOnly

----------------------------------------------------------------------------
\* HttpServer::bind.
ServerInit ==
    /\ stop = FALSE /\ streamsWoken = FALSE
    /\ conns = {} /\ closed = {}
    /\ acc = "top" /\ taken = NoConn
    /\ cpc = [c \in Peers |-> "none"] /\ drains = {} /\ holder = NoConn
    /\ hostpc = "up" /\ joining = NoConn /\ shutdowns = 0

AcceptLoop == AcceptStops \/ Accept \/ Spawn \/ Register \/ reap

\* What a handler does without waiting for its peer.
ConnectionStep(c) ==
    \/ c \in closed /\ SocketFails(c)
    \/ TakesGate(c) \/ Stores(c) \/ LooksAtStop(c) \/ Woken(c) \/ Exits(c)

ShutdownStep == WakeStreams \/ CloseAll \/ JoinAccept \/ (\E c \in Peers : DrainClose(c)) \/ DrainJoin \/ ShutdownReturns

ServerNext ==
    \/ AcceptLoop \/ ShutdownBegins \/ ShutdownStep
    \/ \E c \in Peers : ConnectionStep(c) \/ PeerMoves(c) \/ PollEnds(c) \/ SocketFails(c) \/ ServingFails(c)

ServerSpec == ServerInit /\ [][ServerNext]_httpServerVars

\* The server's threads and the host's call run.  Nothing is assumed of the
\* peers, of the timeouts of their sockets, or of the poll interval.
ServerLiveSpec ==
    /\ ServerSpec
    /\ WF_httpServerVars(AcceptLoop) /\ WF_httpServerVars(ShutdownStep)
    /\ \A c \in Peers : WF_httpServerVars(ConnectionStep(c))

----------------------------------------------------------------------------
(* Properties. *)

\* Type correctness.  The write gate is held by the handler that stores its
\* body and by nobody else.
ServerTypeOK ==
    /\ stop \in BOOLEAN /\ streamsWoken \in BOOLEAN /\ shutdowns \in 0..MaxShutdowns
    /\ conns \subseteq Peers /\ closed \subseteq Peers /\ drains \subseteq Peers /\ holder \subseteq Peers
    /\ taken \subseteq Peers /\ joining \subseteq Peers
    /\ acc \in {"top", "spawn", "register", "reap", "exited"}
    /\ cpc \in [Peers -> {"none", "head", "body", "gate", "held", "answer", "file", "chunk", "stream",
                          "frame", "parked", "drain", "done", "exited"}]
    /\ \A c \in Peers : c \in holder <=> cpc[c] = "held"
    /\ hostpc \in {"up", "wake", "close", "join", "drain", "down"}

Running(c) == cpc[c] \notin {"none", "exited"}

\* No handler is out of reach of shutdown(): one that runs is registered, about
\* to be registered by an accept loop that has not exited, or being joined.
NoOrphan ==
    \A c \in Peers :
      Running(c) => c \in conns \cup joining \/ (acc = "register" /\ c \in taken)

\* When shutdown() has returned, no thread of the server runs and none will.
DownIsDown == hostpc = "down" => acc = "exited" /\ (\A c \in Peers : ~Running(c)) /\ conns = {}

\* shutdown() returns although peers stall: neither a handler that blocks on
\* its socket or for the write gate, nor a stream that waits, nor a connection
\* registered after the first close pass holds it up.
ShutdownEnds == hostpc \in {"wake", "close", "join", "drain"} ~> hostpc = "down"

\* Stalled peers never hold up the accept loop: it comes back to its top.
KeepsAccepting == []<>(acc \in {"top", "exited"})
=============================================================================
