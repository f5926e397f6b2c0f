---------------------------- MODULE HttpServer ----------------------------
(***************************************************************************)
(* HTTPP::HttpServer together with the HTTP::Connection objects it owns.   *)
(*                                                                         *)
(* Three kinds of threads work on them: the thread that calls start, bind, *)
(* stopListeners and stop ("main"), the threads of the io_service pool,    *)
(* which run the completion handlers, and the threads the user's request   *)
(* handlers answer from.  A connection's life is one flow of control that  *)
(* moves between these threads: pc[c] is where that flow is, runner[c] the *)
(* thread executing it, or "none" while it waits for an asynchronous       *)
(* operation or is in the hands of the user's handler.  The flow of an     *)
(* accept handler is accPc[a]; the thread running it is named after a.     *)
(*                                                                         *)
(* Data (what is received and sent) is abstracted to the tests the code    *)
(* makes on it.  A member of Conns is an address: it is reused once the    *)
(* object there has been deleted.                                          *)
(***************************************************************************)
EXTENDS Integers, FiniteSets

CONSTANTS
  Conns,               \* addresses of HTTP::Connection objects
  NoConn,
  Acceptors,           \* listening sockets
  SslAcceptors,        \* those bound with an SSL context
  HandlerThreads,      \* where handlers answer from: "pool", "user"
  SourceCalled,        \* do log messages (by their level) or handlers call source()
  GracefulStop         \* does the user call stopListeners() before stop()

ASSUME ThreadsAssumption ==
  /\ SslAcceptors \subseteq Acceptors
  /\ HandlerThreads \subseteq {"pool", "user"}
  /\ Acceptors \cap {"none", "main", "pool", "user"} = {}
  /\ NoConn \notin Conns
  /\ SourceCalled \in BOOLEAN
  /\ GracefulStop \in BOOLEAN

ASSUME FiniteAssumption == IsFiniteSet(Conns) /\ IsFiniteSet(Acceptors)

VARIABLES
  running,          \* running_
  main,             \* where the main thread is
  toSweep,          \* connections stop() still has to mark
  acceptors,        \* acceptors_
  listening,        \* per acceptor: its socket is open
  runningAcceptors, \* running_acceptors_
  accPc,            \* per acceptor: where its accept handler is
  accOp,            \* per acceptor: its async_accept
  accConn,          \* per acceptor: the connection it accepts into
  connections,      \* connections_ (a vector without duplicates)
  connectionCount,  \* connection_count_
  pc,               \* per connection: where its flow is
  runner,           \* per connection: the thread running that flow
  mutex,            \* per connection: the thread holding mutex_
  isOwned,          \* is_owned_
  shouldBeDeleted,  \* should_be_deleted_; the socket is closed with it
  op,               \* the asynchronous operation on the socket
  hasData,          \* request_buffer_ holds bytes not parsed yet
  reply,            \* what follows the response being sent
  tls,              \* ssl_socket_ and need_handshake_: where its TLS session is
  resume            \* the caller of destroy() goes on using the connection

mainVars == <<running, main, toSweep, acceptors, runningAcceptors>>
accVars  == <<listening, accPc, accOp, accConn>>
listVars == <<connections, connectionCount>>
flagVars == <<isOwned, shouldBeDeleted, op, hasData, reply, tls, resume>>
connVars == <<pc, runner, mutex, flagVars>>
vars     == <<mainVars, accVars, listVars, connVars>>

Threads  == Acceptors \cup {"main", "pool", "user"}
OpStates == {"none", "pending", "ok", "error"}
Replies  == {"keep", "close", "continue", "callback"}
TlsStates == {"no", "new", "up", "down"}

\* Places where the flow of a connection waits for an operation.
Waiting == {"handshake", "reading", "readingBody", "writing"}

\* Places where a thread waits in ssl_socket_->shutdown: with mutex_ held, in
\* markToBeDeleted, or without it, in release.
ClosingLocked == {"destroyTls", "dtorTls"}
Closing == ClosingLocked \cup {"releaseTls"}

Places  == Waiting \cup Closing \cup
  {"none", "accept", "start", "readRequest", "readInit", "invalid", "badRequest",
   "handler", "bodyInit", "sendInit", "destroy", "unlist", "release", "dtorMark",
   "dtorUnlist", "freeing", "lost", "dangling"}

AccPlaces  == {"unbound", "mark", "accepting", "starting", "destroying",
               "failing", "lost"}
MainPlaces == {"off", "on", "closing", "waitAcceptors", "sweep",
               "waitConnections", "join"}

Freed(c)  == pc[c] \in {"none", "dangling"}
Available == {c \in Conns : pc[c] = "none"}

Init ==
  /\ running = FALSE /\ main = "off" /\ toSweep = {}
  /\ acceptors = {} /\ runningAcceptors = 0
  /\ listening = [a \in Acceptors |-> FALSE]
  /\ accPc = [a \in Acceptors |-> "unbound"]
  /\ accOp = [a \in Acceptors |-> "none"]
  /\ accConn = [a \in Acceptors |-> NoConn]
  /\ connections = {} /\ connectionCount = 0
  /\ pc = [c \in Conns |-> "none"]
  /\ runner = [c \in Conns |-> "none"]
  /\ mutex = [c \in Conns |-> "none"]
  /\ isOwned = [c \in Conns |-> FALSE]
  /\ shouldBeDeleted = [c \in Conns |-> FALSE]
  /\ op = [c \in Conns |-> "none"]
  /\ hasData = [c \in Conns |-> FALSE]
  /\ reply = [c \in Conns |-> "keep"]
  /\ tls = [c \in Conns |-> "no"]
  /\ resume = [c \in Conns |-> FALSE]

----------------------------------------------------------------------------
(* Steps shared by several operations.                                     *)

Goto(c, place, thread) ==
  /\ pc' = [pc EXCEPT ![c] = place]
  /\ runner' = [runner EXCEPT ![c] = thread]

\* Mutant: the error of a closed socket is one no completion handler knows.
StartedOp_unknown(c) == IF shouldBeDeleted[c] THEN "closed" ELSE "pending"

\* An operation started on a closed socket completes with an error.
StartedOp(c) == IF shouldBeDeleted[c] THEN "error" ELSE "pending"

\* Closing the socket of a TLS session starts with ssl_socket_->shutdown, which
\* returns when the peer has answered (or at once, when the handshake is not over).
ClosesTls(c) == tls[c] = "up" /\ ~shouldBeDeleted[c]

\* Mutants: mutex_ is not locked; the operation in progress is not cancelled.
markToBeDeleted_unlocked(c, t) ==
  /\ shouldBeDeleted' = [shouldBeDeleted EXCEPT ![c] = TRUE]
  /\ op' = [op EXCEPT ![c] = IF @ = "pending" THEN "error" ELSE @]
  /\ UNCHANGED mutex

markToBeDeleted_uncancelled(c, t) ==
  /\ mutex[c] = "none"
  /\ mutex' = [mutex EXCEPT ![c] = IF ClosesTls(c) THEN t ELSE "none"]
  /\ shouldBeDeleted' = [shouldBeDeleted EXCEPT ![c] = TRUE]
  /\ UNCHANGED op

\* markToBeDeleted, on thread t: waits for mutex_; the first call cancels the
\* operation in progress and closes the socket, and keeps mutex_ while a TLS
\* session is shut down.
markToBeDeleted(c, t) ==
  /\ mutex[c] = "none"
  /\ mutex' = [mutex EXCEPT ![c] = IF ClosesTls(c) THEN t ELSE "none"]
  /\ shouldBeDeleted' = [shouldBeDeleted EXCEPT ![c] = TRUE]
  /\ op' = [op EXCEPT ![c] = IF @ = "pending" THEN "error" ELSE @]

\* The memory is returned.  A caller that goes on using the connection is left with
\* a dangling pointer: what the code does from there on is undefined, and the flow
\* ends here ("dangling").
FreeMemory(c) ==
  /\ Goto(c, IF resume[c] THEN "dangling" ELSE "none",
             IF resume[c] THEN runner[c] ELSE "none")
  /\ isOwned' = [isOwned EXCEPT ![c] = FALSE]
  /\ shouldBeDeleted' = [shouldBeDeleted EXCEPT ![c] = FALSE]
  /\ op' = [op EXCEPT ![c] = "none"]
  /\ hasData' = [hasData EXCEPT ![c] = FALSE]
  /\ reply' = [reply EXCEPT ![c] = "keep"]
  /\ tls' = [tls EXCEPT ![c] = "no"]
  /\ resume' = [resume EXCEPT ![c] = FALSE]

\* Mutant: the connection is erased and still counted.
Unlist_counted(c) ==
  /\ main # "sweep"
  /\ connections' = connections \ {c}
  /\ UNCHANGED connectionCount

\* Erase c from connections_, under connections_mutex_ (held during the sweep).
Unlist(c) ==
  /\ main # "sweep"
  /\ connections' = connections \ {c}
  /\ connectionCount' = IF c \in connections THEN connectionCount - 1
                                             ELSE connectionCount

\* A connection is created with the SSL context of its acceptor, if it has one.
NewTls(a) == IF a \in SslAcceptors THEN "new" ELSE "no"

----------------------------------------------------------------------------
(* The main thread.                                                        *)

start ==
  /\ main = "off"
  /\ running' = TRUE
  /\ main' = "on"
  /\ UNCHANGED <<toSweep, acceptors, runningAcceptors, accVars, listVars, connVars>>

\* The static bind opens the listening socket; when it throws nothing has changed.
Listen(a) == listening' = [listening EXCEPT ![a] = TRUE]

\* bind also runs the first start_accept of the acceptor: the connection it
\* creates is counted, listed and accepted into before bind returns.
bind(a) ==
  /\ main = "on" /\ running
  /\ accPc[a] = "unbound" /\ a \notin acceptors
  /\ acceptors' = acceptors \cup {a}
  /\ Listen(a)
  /\ runningAcceptors' = runningAcceptors + 1
  /\ \E c \in Available :
       /\ Goto(c, "accept", "none")
       /\ tls' = [tls EXCEPT ![c] = NewTls(a)]
       /\ accConn' = [accConn EXCEPT ![a] = c]
       /\ connections' = connections \cup {c}
  /\ connectionCount' = connectionCount + 1
  /\ accPc' = [accPc EXCEPT ![a] = "accepting"]
  /\ accOp' = [accOp EXCEPT ![a] = "pending"]
  /\ UNCHANGED <<running, main, toSweep, mutex, isOwned, shouldBeDeleted, op,
                 hasData, reply, resume>>

\* stopListeners called on its own, then the loop of stopListeners.
stopListeners ==
  /\ main = "on"
  /\ main' = "closing"
  /\ UNCHANGED <<running, toSweep, acceptors, runningAcceptors, accVars, listVars,
                 connVars>>

CloseListener(a) ==
  /\ main = "closing"
  /\ a \in acceptors /\ listening[a]
  /\ listening' = [listening EXCEPT ![a] = FALSE]
  /\ accOp' = [accOp EXCEPT ![a] = IF @ = "pending" THEN "error" ELSE @]
  /\ UNCHANGED <<mainVars, accPc, accConn, listVars, connVars>>

ListenersClosed ==
  /\ main = "closing"
  /\ \A a \in acceptors : ~listening[a]
  /\ acceptors' = {}
  /\ main' = "waitAcceptors"
  /\ UNCHANGED <<running, toSweep, runningAcceptors, accVars, listVars, connVars>>

\* stop: the early return when not running leaves nothing to do.
stop ==
  /\ main = "on" /\ running
  /\ GracefulStop => acceptors = {}
  /\ running' = FALSE
  /\ main' = "closing"
  /\ UNCHANGED <<toSweep, acceptors, runningAcceptors, accVars, listVars, connVars>>

\* Mutant: stopListeners does not wait for the accept handlers.
AcceptorsStopped_early ==
  /\ main = "waitAcceptors"
  /\ main' = IF running THEN "on" ELSE "sweep"
  /\ toSweep' = IF running THEN {} ELSE connections
  /\ UNCHANGED <<running, acceptors, runningAcceptors, accVars, listVars, connVars>>

\* The end of stopListeners: it returns to its caller, the user or stop, which
\* then locks connections_mutex_.
AcceptorsStopped ==
  /\ main = "waitAcceptors" /\ runningAcceptors = 0
  /\ main' = IF running THEN "on" ELSE "sweep"
  /\ toSweep' = IF running THEN {} ELSE connections
  /\ UNCHANGED <<running, acceptors, runningAcceptors, accVars, listVars, connVars>>

\* stop() is in the shutdown of a TLS session, with connections_mutex_ and the
\* mutex_ of the connection held.
MainClosing == \E c \in Conns : mutex[c] = "main"

\* Mutant: stop() also erases the connections it marks.
Sweep_erasing(c) ==
  /\ main = "sweep" /\ c \in toSweep /\ ~MainClosing
  /\ markToBeDeleted(c, "main")
  /\ toSweep' = toSweep \ {c}
  /\ connections' = connections \ {c} /\ connectionCount' = connectionCount - 1
  /\ UNCHANGED <<running, main, acceptors, runningAcceptors, accVars, pc, runner,
                 isOwned, hasData, reply, tls, resume>>

Sweep(c) ==
  /\ main = "sweep" /\ c \in toSweep /\ ~MainClosing
  /\ markToBeDeleted(c, "main")
  /\ toSweep' = toSweep \ {c}
  /\ UNCHANGED <<running, main, acceptors, runningAcceptors, accVars, listVars, pc,
                 runner, isOwned, hasData, reply, tls, resume>>

Swept ==
  /\ main = "sweep" /\ toSweep = {} /\ ~MainClosing
  /\ main' = "waitConnections"
  /\ UNCHANGED <<running, toSweep, acceptors, runningAcceptors, accVars, listVars,
                 connVars>>

\* Mutant: stop() does not wait for the connections.
ConnectionsGone_early ==
  /\ main = "waitConnections"
  /\ main' = "join"
  /\ UNCHANGED <<running, toSweep, acceptors, runningAcceptors, accVars, listVars,
                 connVars>>

ConnectionsGone ==
  /\ main = "waitConnections" /\ connectionCount = 0
  /\ main' = "join"
  /\ UNCHANGED <<running, toSweep, acceptors, runningAcceptors, accVars, listVars,
                 connVars>>

\* Both waits are loops around std::this_thread::yield.
Spin ==
  /\ \/ main = "waitAcceptors" /\ runningAcceptors # 0
     \/ main = "waitConnections" /\ connectionCount # 0
  /\ UNCHANGED vars

\* ThreadPool::stop (commonpp) joins the threads of the pool.
PoolIdle ==
  /\ \A c \in Conns : /\ runner[c] \in {"none", "user"}
                      /\ mutex[c] \in {"none", "user"}
  /\ \A a \in Acceptors : accPc[a] \in {"unbound", "accepting", "lost"}

PoolStopped ==
  /\ main = "join" /\ PoolIdle
  /\ main' = "off"
  /\ UNCHANGED <<running, toSweep, acceptors, runningAcceptors, accVars, listVars,
                 connVars>>

----------------------------------------------------------------------------
(* The accept handlers, on threads of the pool.                            *)

\* ClientBound: a client is accepted only while an address is left for the
\* connection that every accept handler on its way may still create.
ClientBound ==
  Cardinality(Available) >
    Cardinality({a \in Acceptors : \/ accPc[a] \in {"starting", "destroying"}
                                   \/ accOp[a] = "ok"})

AcceptCompletes(a) ==
  /\ accOp[a] = "pending"
  /\ \/ ClientBound /\ accOp' = [accOp EXCEPT ![a] = "ok"]
     \/ accOp' = [accOp EXCEPT ![a] = "error"]
  /\ UNCHANGED <<mainVars, listening, accPc, accConn, listVars, connVars>>

\* accept_callback up to its call of destroy or start.
accept_callback(a) ==
  LET c == accConn[a]
      Call(accPlace, place) == /\ accPc' = [accPc EXCEPT ![a] = accPlace]
                               /\ Goto(c, place, a)
  IN /\ accPc[a] = "accepting" /\ accOp[a] \in {"ok", "error"}
     /\ accOp' = [accOp EXCEPT ![a] = "none"]
     /\ \/ accOp[a] = "error" /\ Call("failing", "destroy") /\ UNCHANGED resume
        \/ accOp[a] = "ok" /\ ~running /\ Call("destroying", "destroy")
             /\ UNCHANGED resume
        \/ accOp[a] = "ok" /\ running /\ Call("starting", "start")
             /\ UNCHANGED resume
        \/ accOp[a] = "ok" /\ running /\ SourceCalled
             /\ Call("starting", "destroy")
             /\ resume' = [resume EXCEPT ![c] = TRUE]
     /\ UNCHANGED <<mainVars, listening, accConn, listVars, mutex, isOwned,
                    shouldBeDeleted, op, hasData, reply, tls>>

\* The call of start or destroy made by the accept handler of a has returned.
Returned(a) == runner[accConn[a]] # a /\ mutex[accConn[a]] # a

\* The end of accept_callback when async_accept failed.
AcceptorFailed(a) ==
  /\ accPc[a] = "failing" /\ Returned(a)
  /\ runningAcceptors' = runningAcceptors - 1
  /\ accPc' = [accPc EXCEPT ![a] = "unbound"]
  /\ accConn' = [accConn EXCEPT ![a] = NoConn]
  /\ UNCHANGED <<running, main, toSweep, acceptors, listening, accOp, listVars,
                 connVars>>

\* start_accept up to the increment in mark; it does nothing when not running.
start_accept(a) ==
  /\ accPc[a] \in {"starting", "destroying"} /\ Returned(a)
  /\ IF running
     THEN /\ accPc' = [accPc EXCEPT ![a] = "mark"]
          /\ connectionCount' = connectionCount + 1
          /\ \E c \in Available :
               /\ Goto(c, "accept", a)
               /\ tls' = [tls EXCEPT ![c] = NewTls(a)]
               /\ accConn' = [accConn EXCEPT ![a] = c]
     ELSE /\ accPc' = [accPc EXCEPT ![a] = "lost"]
          /\ accConn' = [accConn EXCEPT ![a] = NoConn]
          /\ UNCHANGED <<connectionCount, pc, runner, tls>>
  /\ UNCHANGED <<mainVars, listening, accOp, connections, mutex, isOwned,
                 shouldBeDeleted, op, hasData, reply, resume>>

\* Mutant: async_accept on a closed listener never completes.
mark_stuck(a) ==
  LET c == accConn[a]
  IN /\ accPc[a] = "mark" /\ main # "sweep"
     /\ connections' = connections \cup {c}
     /\ accPc' = [accPc EXCEPT ![a] = "accepting"]
     /\ accOp' = [accOp EXCEPT ![a] = "pending"]
     /\ runner' = [runner EXCEPT ![c] = "none"]
     /\ UNCHANGED <<mainVars, listening, accConn, connectionCount, pc, mutex,
                    flagVars>>

\* The rest of mark, under connections_mutex_, and async_accept.
mark(a) ==
  LET c == accConn[a]
  IN /\ accPc[a] = "mark" /\ main # "sweep"
     /\ connections' = connections \cup {c}
     /\ accPc' = [accPc EXCEPT ![a] = "accepting"]
     /\ accOp' = [accOp EXCEPT ![a] = IF listening[a] THEN "pending" ELSE "error"]
     /\ runner' = [runner EXCEPT ![c] = "none"]
     /\ UNCHANGED <<mainVars, listening, accConn, connectionCount, pc, mutex,
                    flagVars>>

----------------------------------------------------------------------------
(* The flow of a connection.                                               *)

\* The network, or the peer, completes the operation in progress.
IoCompletes(c) ==
  /\ op[c] = "pending"
  /\ \E r \in {"ok", "error"} : op' = [op EXCEPT ![c] = r]
  /\ UNCHANGED <<mainVars, accVars, listVars, pc, runner, mutex, isOwned,
                 shouldBeDeleted, hasData, reply, tls, resume>>

\* The thread that started an operation under mutex_ leaves the locked scope.
Unlock(c) ==
  /\ mutex[c] \notin {"none", "main"} /\ pc[c] \notin ClosingLocked
  /\ mutex' = [mutex EXCEPT ![c] = "none"]
  /\ UNCHANGED <<mainVars, accVars, listVars, pc, runner, flagVars>>

\* The shutdown of a TLS session returns: the peer has answered, its TCP connection
\* is gone, or the handshake never got far enough for an answer.
TlsClosed(c) ==
  /\ \/ /\ mutex[c] = "main"
        /\ mutex' = [mutex EXCEPT ![c] = "none"]
        /\ UNCHANGED <<pc, runner>>
     \/ /\ pc[c] \in ClosingLocked
        /\ mutex' = [mutex EXCEPT ![c] = "none"]
        /\ Goto(c, IF pc[c] = "dtorTls" THEN "dtorUnlist" ELSE "unlist", runner[c])
     \/ /\ pc[c] = "releaseTls"
        /\ Goto(c, "dtorMark", runner[c])
        /\ UNCHANGED mutex
  /\ tls' = [tls EXCEPT ![c] = "down"]
  /\ UNCHANGED <<mainVars, accVars, listVars, isOwned, shouldBeDeleted, op, hasData,
                 reply, resume>>

\* Connection::start: only a recycled connection can hold bytes of a request.
StartConnection(c) ==
  /\ pc[c] = "start" /\ ~isOwned[c]
  /\ isOwned' = [isOwned EXCEPT ![c] = TRUE]
  /\ \E b \in IF runner[c] \in Acceptors THEN {FALSE} ELSE BOOLEAN :
       hasData' = [hasData EXCEPT ![c] = b]
  /\ tls' = [tls EXCEPT ![c] = IF @ = "new" THEN "up" ELSE @]
  /\ IF tls[c] = "new"
     THEN Goto(c, "handshake", "none") /\ op' = [op EXCEPT ![c] = StartedOp(c)]
     ELSE Goto(c, "readRequest", runner[c]) /\ UNCHANGED op
  /\ UNCHANGED <<mainVars, accVars, listVars, mutex, shouldBeDeleted, reply, resume>>

HandshakeDone(c) ==
  /\ pc[c] = "handshake" /\ op[c] \in {"ok", "error"}
  /\ op' = [op EXCEPT ![c] = "none"]
  /\ Goto(c, IF op[c] = "ok" THEN "readRequest" ELSE "destroy", "pool")
  /\ isOwned' = [isOwned EXCEPT ![c] = op[c] = "ok"]
  /\ UNCHANGED <<mainVars, accVars, listVars, mutex, shouldBeDeleted, hasData, reply,
                 tls, resume>>

\* The handler is given the connection.  A server without one answers NoContent, as
\* a handler that calls sendResponse() at once does (HandlerSend).
connection_notify_request(c) == Goto(c, "handler", "none")

\* read_request up to notifying the handler (after a log message that may find
\* the socket without a remote endpoint), logging an invalid request, or locking
\* mutex_ in async_read_some.
read_request(c) ==
  /\ pc[c] = "readRequest"
  /\ \/ /\ shouldBeDeleted[c]
        /\ Goto(c, "destroy", runner[c])
        /\ isOwned' = [isOwned EXCEPT ![c] = FALSE]
        /\ UNCHANGED <<hasData, resume>>
     \/ /\ ~shouldBeDeleted[c] /\ hasData[c]
        /\ connection_notify_request(c)
        /\ isOwned' = [isOwned EXCEPT ![c] = FALSE]
        /\ hasData' = [hasData EXCEPT ![c] = FALSE]
        /\ UNCHANGED resume
     \/ /\ ~shouldBeDeleted[c] /\ hasData[c] /\ SourceCalled
        /\ Goto(c, "destroy", runner[c])
        /\ resume' = [resume EXCEPT ![c] = TRUE]
        /\ UNCHANGED <<isOwned, hasData>>
     \/ /\ ~shouldBeDeleted[c] /\ hasData[c]
        /\ Goto(c, "invalid", runner[c])
        /\ hasData' = [hasData EXCEPT ![c] = FALSE]
        /\ UNCHANGED <<isOwned, resume>>
     \/ /\ ~shouldBeDeleted[c]
        /\ Goto(c, "readInit", runner[c])
        /\ UNCHANGED <<isOwned, hasData, resume>>
  /\ UNCHANGED <<mainVars, accVars, listVars, mutex, shouldBeDeleted, op, reply,
                 tls>>

\* Mutant: the connection is not disowned before the answer is sent.
InvalidRequest_owned(c) ==
  /\ pc[c] = "invalid"
  /\ Goto(c, "badRequest", runner[c])
  /\ UNCHANGED <<mainVars, accVars, listVars, mutex, flagVars>>

\* The log message of an invalid request: source() destroys the connection when
\* the socket has no remote endpoint, which is so once it has been closed.
InvalidRequest(c) ==
  /\ pc[c] = "invalid"
  /\ \/ /\ SourceCalled
        /\ Goto(c, "destroy", runner[c])
        /\ resume' = [resume EXCEPT ![c] = TRUE]
        /\ UNCHANGED isOwned
     \/ /\ ~(SourceCalled /\ shouldBeDeleted[c])
        /\ Goto(c, "badRequest", runner[c])
        /\ isOwned' = [isOwned EXCEPT ![c] = FALSE]
        /\ UNCHANGED resume
  /\ UNCHANGED <<mainVars, accVars, listVars, mutex, shouldBeDeleted, op, hasData,
                 reply, tls>>

\* Lock mutex_ and start an operation: async_read_some and async_read in
\* Connection.hpp, response_.sendResponse in sendResponse(cb).
StartOp(c, from, to) ==
  /\ pc[c] = from /\ mutex[c] = "none"
  /\ mutex' = [mutex EXCEPT ![c] = runner[c]]
  /\ op' = [op EXCEPT ![c] = StartedOp(c)]
  /\ Goto(c, to, "none")
  /\ UNCHANGED <<mainVars, accVars, listVars, isOwned, shouldBeDeleted, hasData,
                 reply, tls, resume>>

async_read_some(c) == StartOp(c, "readInit", "reading")
async_read_body(c) == StartOp(c, "bodyInit", "readingBody")
async_write(c)     == StartOp(c, "sendInit", "writing")

\* Mutant: the connection is not disowned when the read fails.
ReadDone_owned(c) ==
  /\ pc[c] = "reading" /\ op[c] \in {"ok", "error"}
  /\ op' = [op EXCEPT ![c] = "none"]
  /\ Goto(c, IF op[c] = "ok" THEN "readRequest" ELSE "destroy", "pool")
  /\ hasData' = [hasData EXCEPT ![c] = op[c] = "ok"]
  /\ UNCHANGED <<mainVars, accVars, listVars, mutex, isOwned, shouldBeDeleted, reply,
                 tls, resume>>

\* The completion handler of read_request.
ReadDone(c) ==
  /\ pc[c] = "reading" /\ op[c] \in {"ok", "error"}
  /\ op' = [op EXCEPT ![c] = "none"]
  /\ Goto(c, IF op[c] = "ok" THEN "readRequest" ELSE "destroy", "pool")
  /\ isOwned' = [isOwned EXCEPT ![c] = op[c] = "ok"]
  /\ hasData' = [hasData EXCEPT ![c] = op[c] = "ok"]
  /\ UNCHANGED <<mainVars, accVars, listVars, mutex, shouldBeDeleted, reply,
                 tls, resume>>

\* sendResponse(cb) of a connection just owned, up to locking mutex_.
sendResponse(c, t, r) ==
  /\ ~isOwned[c]
  /\ IF shouldBeDeleted[c]
     THEN Goto(c, "destroy", t) /\ UNCHANGED <<isOwned, reply>>
     ELSE /\ Goto(c, "sendInit", t)
          /\ isOwned' = [isOwned EXCEPT ![c] = TRUE]
          /\ reply' = [reply EXCEPT ![c] = r]
  /\ UNCHANGED <<mainVars, accVars, listVars, mutex, shouldBeDeleted, op, hasData,
                 tls, resume>>

SendBadRequest(c) == pc[c] = "badRequest" /\ sendResponse(c, runner[c], "close")

\* A further write of a chunked response; write_chunk does not lock mutex_.
write_chunk(c) ==
  /\ pc[c] = "writing" /\ op[c] = "ok"
  /\ op' = [op EXCEPT ![c] = StartedOp(c)]
  /\ UNCHANGED <<mainVars, accVars, listVars, pc, runner, mutex, isOwned,
                 shouldBeDeleted, hasData, reply, tls, resume>>

\* Mutant: recycle is called on a connection that is still owned.
WriteDone_owned(c) ==
  /\ pc[c] = "writing" /\ op[c] \in {"ok", "error"}
  /\ op' = [op EXCEPT ![c] = "none"]
  /\ reply' = [reply EXCEPT ![c] = "keep"]
  /\ IF op[c] = "error" \/ reply[c] = "close" \/ shouldBeDeleted[c]
     THEN Goto(c, "destroy", "pool")
     ELSE Goto(c, "start", "pool")
  /\ UNCHANGED <<mainVars, accVars, listVars, mutex, isOwned, shouldBeDeleted, hasData,
                 tls, resume>>

\* A connection that is kept starts again.
connection_recycle(c) == Goto(c, "start", "pool")

\* The handler of the last write: disown, then the user's callback (sendContinue)
\* or recycle, which leaves an interim response ("continue") to the handler.
WriteDone(c) ==
  /\ pc[c] = "writing" /\ op[c] \in {"ok", "error"}
  /\ op' = [op EXCEPT ![c] = "none"]
  /\ isOwned' = [isOwned EXCEPT ![c] = FALSE]
  /\ reply' = [reply EXCEPT ![c] = "keep"]
  /\ IF op[c] = "error" \/ reply[c] = "close"
          \/ (shouldBeDeleted[c] /\ reply[c] # "callback")
     THEN Goto(c, "destroy", "pool")
     ELSE IF reply[c] = "keep" THEN connection_recycle(c)
                               ELSE Goto(c, "handler", "none")
  /\ UNCHANGED <<mainVars, accVars, listVars, mutex, shouldBeDeleted, hasData,
                 tls, resume>>

----------------------------------------------------------------------------
(* What the user's handler does with a connection it was given.            *)

\* sendResponse(), or sendContinue(cb) when r = "callback".
HandlerSend(c, t) ==
  /\ pc[c] = "handler"
  /\ \E r \in Replies : sendResponse(c, t, r)

\* read(...) of a body that is not in body_buffer_ yet.
HandlerRead(c, t) ==
  /\ pc[c] = "handler" /\ ~isOwned[c]
  /\ isOwned' = [isOwned EXCEPT ![c] = TRUE]
  /\ Goto(c, "bodyInit", t)
  /\ UNCHANGED <<mainVars, accVars, listVars, mutex, shouldBeDeleted, op, hasData,
                 reply, tls, resume>>

\* The completion handler of read: disown, and call the user's callback, or
\* own the connection again for the next part of the body.
BodyDone(c) ==
  /\ pc[c] = "readingBody" /\ op[c] \in {"ok", "error"}
  /\ op' = [op EXCEPT ![c] = "none"]
  /\ \/ Goto(c, "handler", "none") /\ isOwned' = [isOwned EXCEPT ![c] = FALSE]
     \/ op[c] = "ok" /\ Goto(c, "bodyInit", "pool") /\ UNCHANGED isOwned
  /\ UNCHANGED <<mainVars, accVars, listVars, mutex, shouldBeDeleted, hasData, reply,
                 tls, resume>>

\* releaseFromHandler: own, close without mutex_, then delete; the destructor finds
\* is_owned_ set.
HandlerRelease(c, t) ==
  /\ pc[c] = "handler" /\ ~isOwned[c]
  /\ isOwned' = [isOwned EXCEPT ![c] = TRUE]
  /\ Goto(c, IF tls[c] = "up" THEN "releaseTls" ELSE "dtorMark", t)
  /\ UNCHANGED <<mainVars, accVars, listVars, mutex, shouldBeDeleted, op, hasData,
                 reply, tls, resume>>

\* The handler asks for source() and the socket has no remote endpoint.
HandlerSource(c, t) ==
  /\ pc[c] = "handler" /\ SourceCalled
  /\ Goto(c, "destroy", t)
  /\ resume' = [resume EXCEPT ![c] = TRUE]
  /\ UNCHANGED <<mainVars, accVars, listVars, mutex, isOwned, shouldBeDeleted, op,
                 hasData, reply, tls>>

----------------------------------------------------------------------------
(* HttpServer::destroy and ~Connection.                                    *)

DestroyMark(c, from, closing, to) ==
  /\ pc[c] = from
  /\ markToBeDeleted(c, runner[c])
  /\ Goto(c, IF ClosesTls(c) THEN closing ELSE to, runner[c])
  /\ UNCHANGED <<mainVars, accVars, listVars, isOwned, hasData, reply, tls, resume>>

\* destroy(connection): a connection that is not listed is not released.
destroy(c) == DestroyMark(c, "destroy", "destroyTls", "unlist")

DestroyUnlist(c) ==
  /\ pc[c] = "unlist"
  /\ Unlist(c)
  /\ IF c \in connections THEN Goto(c, "release", runner[c])
                          ELSE Goto(c, "lost", "none")
  /\ UNCHANGED <<mainVars, accVars, mutex, flagVars>>

\* release: delete; ~Connection calls destroy(this, false) on an owned one.
release(c) ==
  /\ pc[c] = "release"
  /\ IF isOwned[c] THEN Goto(c, "dtorMark", runner[c]) /\ UNCHANGED flagVars
                   ELSE FreeMemory(c)
  /\ UNCHANGED <<mainVars, accVars, listVars, mutex>>

DtorMark(c) == DestroyMark(c, "dtorMark", "dtorTls", "dtorUnlist")

DtorUnlist(c) ==
  /\ pc[c] = "dtorUnlist"
  /\ Unlist(c)
  /\ Goto(c, "freeing", runner[c])
  /\ UNCHANGED <<mainVars, accVars, mutex, flagVars>>

DtorDone(c) ==
  /\ pc[c] = "freeing"
  /\ FreeMemory(c)
  /\ UNCHANGED <<mainVars, accVars, listVars, mutex>>

----------------------------------------------------------------------------

MainProgress ==
  \/ \E a \in Acceptors : CloseListener(a)
  \/ ListenersClosed \/ AcceptorsStopped
  \/ \E c \in Conns : Sweep(c)
  \/ Swept \/ ConnectionsGone \/ PoolStopped

UserCalls == start \/ stopListeners \/ stop \/ \E a \in Acceptors : bind(a)

AcceptStep(a) ==
  accept_callback(a) \/ AcceptorFailed(a) \/ start_accept(a) \/ mark(a)

ConnStep(c) ==
  \/ StartConnection(c) \/ HandshakeDone(c) \/ read_request(c) \/ InvalidRequest(c)
  \/ async_read_some(c) \/ ReadDone(c) \/ SendBadRequest(c)
  \/ async_write(c) \/ write_chunk(c) \/ WriteDone(c)
  \/ async_read_body(c) \/ BodyDone(c)
  \/ destroy(c) \/ DestroyUnlist(c) \/ release(c)
  \/ DtorMark(c) \/ DtorUnlist(c) \/ DtorDone(c)

HandlerEnds(c) == \E t \in HandlerThreads : HandlerSend(c, t) \/ HandlerRelease(c, t)
HandlerStep(c) ==
  \/ HandlerEnds(c)
  \/ \E t \in HandlerThreads : HandlerRead(c, t) \/ HandlerSource(c, t)

Next ==
  \/ UserCalls \/ MainProgress \/ Spin
  \/ \E a \in Acceptors : AcceptCompletes(a) \/ AcceptStep(a)
  \/ \E c \in Conns : \/ IoCompletes(c) \/ TlsClosed(c) \/ Unlock(c)
                      \/ ConnStep(c) \/ HandlerStep(c)

Spec == Init /\ [][Next]_vars

(***************************************************************************)
(* Fairness.  The main thread and the threads of the pool keep running,    *)
(* a thread leaves its locked scope, and stop() gets a mutex_ that is free *)
(* again and again.  A handler that is given a connection again and again  *)
(* (after reads and interim responses) answers or releases it some day.    *)
(* Nothing is assumed of the peer: neither an operation nor the shutdown   *)
(* of a TLS session need ever end.                                         *)
(***************************************************************************)
Fairness ==
  /\ WF_vars(MainProgress)
  /\ \A a \in Acceptors : WF_vars(AcceptStep(a))
  /\ \A c \in Conns : /\ WF_vars(Unlock(c)) /\ WF_vars(ConnStep(c))
                      /\ SF_vars(Sweep(c)) /\ SF_vars(HandlerEnds(c))

FairSpec == Spec /\ Fairness

----------------------------------------------------------------------------
(* Properties.                                                             *)

MainTypeOK ==
  /\ running \in BOOLEAN /\ main \in MainPlaces /\ toSweep \subseteq Conns
  /\ acceptors \subseteq Acceptors /\ runningAcceptors \in Int
  /\ connections \subseteq Conns /\ connectionCount \in Int

AccTypeOK ==
  /\ listening \in [Acceptors -> BOOLEAN]
  /\ accPc \in [Acceptors -> AccPlaces]
  /\ accOp \in [Acceptors -> OpStates]
  /\ accConn \in [Acceptors -> Conns \cup {NoConn}]

FlowTypeOK ==
  /\ pc \in [Conns -> Places]
  /\ runner \in [Conns -> Threads \cup {"none"}]
  /\ mutex \in [Conns -> Threads \cup {"none"}]

FlagTypeOK ==
  /\ isOwned \in [Conns -> BOOLEAN]
  /\ shouldBeDeleted \in [Conns -> BOOLEAN]
  /\ op \in [Conns -> OpStates]
  /\ hasData \in [Conns -> BOOLEAN]
  /\ reply \in [Conns -> Replies]
  /\ tls \in [Conns -> TlsStates]
  /\ resume \in [Conns -> BOOLEAN]

\* Every variable keeps its type: the places and flags of Connection and HttpServer.
TypeOK == MainTypeOK /\ AccTypeOK /\ FlowTypeOK /\ FlagTypeOK

\* Every pointer the server keeps is to a live object: the list stop() walks
\* while other threads delete connections, the mutex_ of a connection whose
\* operation completed before the thread that started it left its locked scope,
\* and the connection an accept handler works on.
ReferencesLive ==
  /\ \A c \in Conns :
       Freed(c) => c \notin connections /\ c \notin toSweep /\ mutex[c] = "none"
  /\ \A a \in Acceptors :
       accPc[a] \in {"mark", "accepting"} => pc[accConn[a]] = "accept"

\* The code that drives a connection never finds it owned when it is about to
\* own it, so own() fails, and "Invalid connection state" is thrown, only for
\* handlers that use a connection they have not been given back.
OwnNeverFails ==
  \A c \in Conns :
    pc[c] \in {"start", "badRequest", "handler"} => ~isOwned[c]

\* ~Connection finds a connection owned only when a handler released it: what
\* the server destroys itself was disowned first ("A connection is destroyed
\* manually, this should always be done by the HttpServer").
ServerDestroysDisowned == \A c \in Conns : pc[c] = "release" => ~isOwned[c]

\* Acceptors whose handler is between the two halves of mark, and acceptors whose
\* chain of accept handlers has not ended.
Marking == {a \in Acceptors : accPc[a] = "mark"}
Chained == {a \in Acceptors : accPc[a] # "unbound"}

\* connection_count_, which stop() waits on, is the length of connections_ but
\* for connections counted by mark and not listed yet.
CountMatchesList ==
  connectionCount = Cardinality(connections) + Cardinality(Marking)

\* Past its wait on running_acceptors_ stop() meets no accept handler, so that
\* no connection appears behind its back.
AcceptorsQuiesced ==
  main \in {"sweep", "waitConnections", "join"} =>
    \A a \in Acceptors : accPc[a] = "unbound"

\* Every connection stop() waits for has been told to go: none can stay idle on
\* a keep-alive connection and hold stop() up.
SweepCoversAll ==
  main \in {"waitConnections", "join"} =>
    \A c \in connections : shouldBeDeleted[c] /\ op[c] # "pending"

\* When stop() has returned no connection is left but those a thread of the user
\* has taken off the list and is about to delete.
NoneOutlivesStop ==
  main = "off" =>
    \A c \in Conns : \/ pc[c] = "none"
                     \/ runner[c] = "user" /\ pc[c] \in {"release", "freeing"}

\* The peer of a TLS session answers, or loses its connection, when the session is
\* shut down: no thread stays in ssl_socket_->shutdown for ever.
PeersEndTls ==
  \A c \in Conns : []<>(pc[c] \notin Closing /\ mutex[c] # "main")

\* stopListeners() returns, whatever the accept handlers are doing, as long as the
\* peers of TLS sessions let go of the threads that shut them down.
StopListenersReturns ==
  PeersEndTls =>
    ((main \in {"closing", "waitAcceptors"} /\ running) ~> (main = "on"))

\* stop() returns once every handler has answered, as long as the peers of TLS
\* sessions let go of the threads that shut them down: the locks held meanwhile
\* (mutex_, and connections_mutex_ in the sweep) make no two threads wait for each
\* other.
StopReturns ==
  PeersEndTls => ((main \notin {"on", "off"} /\ ~running) ~> (main = "off"))

(***************************************************************************)
(* HttpServer implements ServerContract: a connection exists for the       *)
(* contract while it is in connections_.                                   *)
(***************************************************************************)
ContractPhase ==
  CASE main = "off" -> "stopped"
    [] main # "off" /\ running -> "serving"
    [] ~running /\ main \in {"on", "closing", "waitAcceptors"} -> "closing"
    [] ~running /\ main \in {"sweep", "waitConnections", "join"} -> "draining"

\* A handler holds a connection until it answers, reads or releases; it still holds
\* the one that source() destroys under it.
HandlerHolds(c) ==
  \/ pc[c] = "handler"
  \/ resume[c] /\ ~isOwned[c] /\ runner[c] \notin Acceptors

ContractHolder ==
  [c \in Conns |-> CASE c \notin connections -> "nobody"
                     [] c \in connections /\ HandlerHolds(c) -> "handler"
                     [] OTHER -> "server"]

Contract == INSTANCE ServerContract WITH phase <- ContractPhase,
                                         holder <- ContractHolder

\* Seen through connections_, the server keeps its contract: it takes no
\* connection away from a handler, takes none in once stop() has swept the list,
\* and is stopped only when the list is empty.
ImplementsContract == Contract!Spec

----------------------------------------------------------------------------
(* The inductive invariant behind the safety properties.                   *)

\* Places of a connection that is not, or no longer, in connections_.
UnlistedPlaces == {"none", "release", "freeing", "lost", "dangling"}

\* Places reached only with mutex_ free: before the first operation, and after
\* markToBeDeleted has waited for it and closed the socket.
UnlockedPlaces == {"none", "accept", "unlist", "release", "dtorUnlist", "freeing",
                   "lost", "dangling"}

\* A connection on its own: listed while it is alive, unlocked before it is
\* unlisted, owned exactly by the flow that drives it, and never waiting on a
\* socket that has been closed; nobody has a TLS session of it left to shut down
\* once destroy has marked it.
ConnInv(c) ==
  /\ c \in connections => pc[c] \notin UnlistedPlaces
  /\ pc[c] \in UnlockedPlaces => mutex[c] = "none"
  /\ pc[c] \in {"none", "accept", "start", "badRequest", "handler"} => ~isOwned[c]
  /\ pc[c] \in {"destroy", "destroyTls", "unlist", "release"} => ~isOwned[c] \/ resume[c]
  /\ resume[c] => SourceCalled
  /\ shouldBeDeleted[c] => op[c] # "pending"
  /\ pc[c] \in ClosingLocked \cup {"unlist", "dtorUnlist"} => shouldBeDeleted[c]
  /\ pc[c] = "accept" => tls[c] # "up"

\* An accept handler and its connection; no two handlers share one.
AccInv ==
  /\ \A a \in Acceptors : accPc[a] \notin {"unbound", "lost"} => accConn[a] \in Conns
  /\ \A a \in Acceptors :
       accPc[a] \in {"mark", "accepting"} => pc[accConn[a]] = "accept"
  /\ \A a \in Acceptors : accPc[a] = "mark" => accConn[a] \notin connections
  /\ \A a, b \in Acceptors :
       /\ accPc[a] \in {"mark", "accepting"} /\ accPc[b] \in {"mark", "accepting"}
       /\ accConn[a] = accConn[b]
       => a = b

SweepInv ==
  /\ toSweep \subseteq connections
  /\ main # "sweep" => toSweep = {}
  /\ main \in {"sweep", "waitConnections", "join"} =>
       \A c \in connections \ toSweep : shouldBeDeleted[c]

\* Both counters, and what stop() knows when the first one is zero.
CountInv ==
  /\ runningAcceptors = Cardinality(Chained)
  /\ AcceptorsQuiesced
  /\ CountMatchesList

\* What every step of the server preserves; each of the safety properties above
\* that TLAPS proves of HttpServer and Connection follows from it.
Inv ==
  TypeOK /\ (\A c \in Conns : ConnInv(c)) /\ AccInv /\ SweepInv /\ CountInv
============================================================================
