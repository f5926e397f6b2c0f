--------------------------- MODULE ClientManager ---------------------------
(***************************************************************************)
(* HTTPP::HttpClient: the client::detail::Manager, which drives libcurl's  *)
(* multi interface from the single thread of pool_io_, the Connection of   *)
(* each request, the threads that cancel requests through an AsyncHandler, *)
(* and the thread that destroys the client.                                *)
(*                                                                         *)
(* ioq is the queue of pool_io_.  Each task in it runs to its end before   *)
(* the next one, so one action takes the first task and performs the whole *)
(* handler, the calls libcurl makes back into the Manager included.  What  *)
(* a call of libcurl does to a transfer is left open (operator Driven).    *)
(***************************************************************************)
EXTENDS Naturals, Sequences, FiniteSets

CONSTANTS
  Requests,     \* one Connection object each
  Cancellers,   \* threads that call cancelOperation
  MaxPolls,     \* bound on the waits all connections have on their sockets
  CurlMoves,    \* can libcurl replace a socket while the connection polls it
  CurlGaps,     \* can libcurl close a socket and go on without opening another
  PollErrors,   \* can a wait end with an error other than operation_aborted
  SetupErrors,  \* can configureRequest or curl_multi_add_handle fail
  LateCalls     \* is the AsyncHandler used while the client is being destroyed

ASSUME BoundsAssumption ==
  /\ IsFiniteSet(Requests) /\ "none" \notin Requests
  /\ MaxPolls \in Nat \ {0}
  /\ Cancellers \cap {"nobody", "dtor"} = {}
  /\ {CurlMoves, CurlGaps, PollErrors, SetupErrors, LateCalls} \subseteq BOOLEAN

VARIABLES
  conn,     \* per request: its Connection and its entries in the Manager's maps
  ioq,      \* the tasks of pool_io_
  armed,    \* the timer has an async_wait that has not ended
  running,  \* Manager::running
  crashed,  \* the io thread has used a socket that is null or deleted
  caller,   \* per canceller: where its call of cancelOperation is
  dtor      \* where ~Manager is

vars == <<conn, ioq, armed, running, crashed, caller, dtor>>

States     == {"absent", "Default", "Polling", "PerformIo", "Cancelled"}
Unfinished == {"connecting", "connected"}

\* state is the entry in current_connections, promise the one in
\* cancelled_connections, action the number of waits poll_action asks for, polls
\* the waits on socket and stale those on sockets the transfer has left; aborted
\* counts waits ended within the running task.
NewConnection ==
  [life |-> "new", state |-> "absent", easy |-> "out", cancelled |-> FALSE,
   notified |-> TRUE, posted |-> FALSE, action |-> 0, socket |-> "null", polls |-> 0,
   stale |-> 0, aborted |-> 0, promise |-> "nobody"]

Init ==
  /\ conn = [r \in Requests |-> NewConnection]
  /\ ioq = <<>> /\ armed = FALSE /\ running = TRUE /\ crashed = FALSE
  /\ caller = [k \in Cancellers |-> [at |-> "idle", r |-> "none"]]
  /\ dtor = "alive"

----------------------------------------------------------------------------
(* The Connection of a request, as operators on its record.                *)

\* Mutant: a second result is notified, too.
complete_again(x) == [x EXCEPT !.notified = TRUE, !.posted = TRUE, !.socket = "null"]

\* complete: the first result is kept and its handler posted to pool_dispatch_.
complete(x) ==
  IF x.notified THEN x
  ELSE [x EXCEPT !.notified = TRUE, !.posted = TRUE, !.socket = "null"]

\* closesocket, closeSocket: deleting the socket aborts its waits, and leaves the
\* pointer of the Connection as it is.
closesocket(x) ==
  [x EXCEPT !.socket = IF @ = "open" THEN "deleted" ELSE @,
            !.aborted = @ + x.polls, !.polls = 0]

\* Mutant: the new socket is left to a sock_cb that may not come.
opensocket_late(x) == x

\* opensocket: the socket is taken over at once by a connection that polls.
opensocket(x) == [x EXCEPT !.socket = IF x.action # 0 THEN "open" ELSE @]

\* Connection::poll waits on the socket once for each direction asked for (libcurl
\* asks for one or both, so that its default case, an error, is not reached);
\* Manager::poll calls it for a connection in state Default.
PollSocket(x) == [x EXCEPT !.polls = @ + x.action]

poll(x) ==
  IF x.state = "Default" THEN PollSocket([x EXCEPT !.state = "Polling"]) ELSE x

\* sock_cb: libcurl wants a socket polled, in one direction or both.
setSocket(x) == [x EXCEPT !.socket = "open"]
sock_cb(x, what) == poll([setSocket(x) EXCEPT !.action = what])

\* The transfer leaves a socket that stays open in libcurl's connection cache.
Leave(x) == [x EXCEPT !.stale = @ + x.polls, !.polls = 0]

\* What one call of libcurl may do to a transfer: nothing; ask for its socket to
\* be polled; replace a socket it closes or leaves, with a sock_cb or, when the
\* descriptor is the same as before, without; close it and have none for the
\* time being; finish.
Driven(x) ==
  LET Reconnecting == {[y EXCEPT !.easy = "connecting"] :
                         y \in {opensocket(closesocket(x)), opensocket(Leave(x))}}
      Asking   == {[x EXCEPT !.easy = e] : e \in {x.easy, "connected"}}
      CanMove  == x.socket = "open" /\ (x.state = "Polling" => CurlMoves)
      CanClose == x.socket = "open" /\ CurlGaps
      Outcomes ==
        {x} \cup {sock_cb(y, what) : y \in Asking, what \in {1, 2}}
            \cup {y \in Reconnecting : CanMove}
            \cup {sock_cb(y, what) : y \in {z \in Reconnecting : CanMove}, what \in {1, 2}}
            \cup {y \in {[closesocket(x) EXCEPT !.easy = "connecting"]} : CanClose}
            \cup {[y EXCEPT !.easy = "done"] : y \in {closesocket(x), Leave(x)}}
  IN IF x.easy \in Unfinished THEN Outcomes ELSE {x}

\* removeConnection: libcurl closes the socket of a transfer it had not finished.
removeConnection(x) ==
  LET y == IF x.easy \in Unfinished THEN closesocket(x) ELSE x
  IN [y EXCEPT !.state = "absent", !.easy = "out"]

\* Mutant: the result of a finished transfer is not notified.
buildResponse_silent(x) == x

\* buildResponse completes with the response or with an exception.
buildResponse(x) == complete(x)

\* Mutants: the messages of libcurl are not read; a cancelled connection stays in
\* current_connections.
CheckDone_unread(x) == x

CheckCancelled_kept(x) ==
  IF x.promise = "nobody" THEN x
  ELSE complete([x EXCEPT !.action = 0, !.promise = "nobody"])

\* checkHandles: finished transfers first, then cancelled connections.
CheckDone(x) ==
  IF x.easy = "done" THEN buildResponse(removeConnection([x EXCEPT !.action = 0]))
  ELSE x

CheckCancelled(x) ==
  LET y == complete([x EXCEPT !.action = 0, !.promise = "nobody"])
  IN CASE x.promise = "nobody" -> x
       [] x.promise # "nobody" /\ x.state = "absent" -> y
       [] x.promise # "nobody" /\ x.state # "absent" -> removeConnection(y)

checkHandles(c) == [r \in Requests |-> CheckCancelled(CheckDone(c[r]))]

----------------------------------------------------------------------------
(* The end of a task.                                                      *)

Task(t, r)       == [t |-> t, r |-> r]
PollTask(r, ec)  == [t |-> "performOp", r |-> r, ec |-> ec]
CancelTask(r, k) == [t |-> "cancel", r |-> r, by |-> k]

\* The waits a task has aborted, each with the request it was for: those of one
\* connection follow each other, the connections of a map come in any order.
AbortedWaits(c) ==
  LET Hit == {r \in Requests : c[r].aborted > 0}
  IN {q \in UNION {[1..n -> Hit] : n \in 0..MaxPolls} :
        /\ \A r \in Hit : Cardinality({i \in DOMAIN q : q[i] = r}) = c[r].aborted
        /\ \A i, j, k \in DOMAIN q : i < j /\ j < k /\ q[i] = q[k] => q[j] = q[i]}

\* The task is over, and the waits it aborted are queued.
EndTask(c) ==
  /\ \E q \in AbortedWaits(c) :
       ioq' = Tail(ioq) \o [i \in DOMAIN q |-> PollTask(q[i], "aborted")]
  /\ conn' = [r \in Requests |-> [c[r] EXCEPT !.aborted = 0]]

\* Mutant: the promises are dropped and not set.
Released_never == caller

\* Promises of cancelled_connections that checkHandles set: their callers return.
Released == [k \in Cancellers |->
               IF \E r \in Requests : conn[r].promise = k
               THEN [at |-> "idle", r |-> "none"] ELSE caller[k]]

\* Each wait in both directions leaves one more behind; MaxPolls bounds the waits
\* of all connections, those that have ended and are queued included.
Waits(c) ==
  UNION {{r} \X (1..(c[r].polls + c[r].stale + c[r].aborted)) : r \in Requests}

WaitsBound(c) ==
  Cardinality(Waits(c)) + Cardinality({i \in 2..Len(ioq) : ioq[i].t = "performOp"})
    <= MaxPolls

\* Asked for a timeout of zero, curl_timer_cb calls timer_cb at once, within the call
\* of libcurl: libcurl is called again.  The checkHandles of that timer_cb is followed
\* by the caller's, and one after the other does what one does.
DrivenAgain(x) == UNION {Driven(y) : y \in Driven(x)}

\* A call of libcurl lets a transfer make progress (DriveBound: one; checkHandles
\* treats each on its own, so several at once are as good as one after the other).
AllDriven(c) ==
  {d \in UNION {{[c EXCEPT ![r] = y] : y \in DrivenAgain(c[r])} : r \in Requests} :
     WaitsBound(d)}

\* curl_timer_cb, called by libcurl in c with a timeout or, to stop the timer, with
\* none: the timer is set while a transfer is connecting (it has a timeout then) and
\* stopped with the last transfer; once the manager is stopped it is not set again.
\* With none timer_cb is called at once too, and curl_multi_remove_handle may ask for
\* that between the find and the erase of removeConnection.  The checkHandles within
\* then does what is left of the one around it.  That libcurl drives no other transfer
\* in that call, as it would if the timer of one had expired, is assumed.
curl_timer_cb(c) ==
  IF running
  THEN \/ armed' = TRUE /\ \E r \in Requests : c[r].easy \in Unfinished
       \/ armed' = FALSE /\ \A r \in Requests : c[r].easy # "connecting"
  ELSE armed' \in {armed, FALSE}

First(t) == ~crashed /\ dtor # "deleted" /\ ioq # <<>> /\ Head(ioq).t = t

----------------------------------------------------------------------------
(* The tasks of the io thread.                                             *)

\* handleRequest: refused when the manager is stopped.  configureRequest resets
\* the flags last, so a result completed after it has failed is not notified.
HandleRefused ==
  /\ First("handle") /\ ~running
  /\ EndTask([conn EXCEPT ![Head(ioq).r].life = "dropped"])
  /\ UNCHANGED <<armed, running, crashed, caller, dtor>>

HandleUnconfigured ==
  /\ First("handle") /\ running /\ SetupErrors
  /\ LET r == Head(ioq).r
     IN EndTask([conn EXCEPT ![r] = complete([@ EXCEPT !.life = "dropped"])])
  /\ UNCHANGED <<armed, running, crashed, caller, dtor>>

configureRequest(x) ==
  [x EXCEPT !.life = "handled", !.cancelled = FALSE, !.notified = FALSE]

HandleNotAdded ==
  /\ First("handle") /\ running /\ SetupErrors
  /\ LET r == Head(ioq).r
     IN EndTask([conn EXCEPT ![r] = complete(configureRequest(@))])
  /\ UNCHANGED <<armed, running, crashed, caller, dtor>>

\* curl_multi_add_handle asks for a timer, or to be called back at once.
Added(r) ==
  [conn EXCEPT ![r] = [configureRequest(@) EXCEPT !.state = "Default",
                                                  !.easy = "connecting"]]

handleRequest ==
  /\ First("handle") /\ running
  /\ LET c == Added(Head(ioq).r)
     IN \/ /\ EndTask(c) /\ armed' = TRUE
           /\ UNCHANGED caller
        \/ \E d \in {checkHandles(e) : e \in AllDriven(c)} :
             EndTask(d) /\ curl_timer_cb(d) /\ caller' = Released
  /\ UNCHANGED <<running, crashed, dtor>>

timer_cb ==
  /\ First("timer")
  /\ \E d \in {checkHandles(e) : e \in AllDriven(conn)} : EndTask(d) /\ curl_timer_cb(d)
  /\ caller' = Released
  /\ UNCHANGED <<running, crashed, dtor>>

\* Mutant: performOp returns at once when its wait was aborted.
PollFailed_early ==
  /\ First("performOp") /\ Head(ioq).ec # "ok"
  /\ EndTask(conn)
  /\ UNCHANGED <<armed, running, crashed, caller, dtor>>

\* performOp of a wait that failed: it does not poll again.
PollFailed ==
  /\ First("performOp") /\ Head(ioq).ec # "ok"
  /\ LET r == Head(ioq).r
         c == IF Head(ioq).ec = "aborted" THEN conn
              ELSE [conn EXCEPT ![r] = complete(@)]
     IN EndTask(checkHandles(c))
  /\ caller' = Released
  /\ UNCHANGED <<armed, running, crashed, dtor>>

PollUntracked ==
  /\ First("performOp") /\ Head(ioq).ec = "ok"
  /\ conn[Head(ioq).r].state = "absent"
  /\ EndTask(conn)
  /\ UNCHANGED <<armed, running, crashed, caller, dtor>>

\* performOp: the socket is ready, libcurl is called, and the connection polled
\* again unless its transfer is over.
performOp ==
  LET r == Head(ioq).r
  IN /\ First("performOp") /\ Head(ioq).ec = "ok" /\ conn[r].state # "absent"
     /\ conn[r].socket = "open"
     /\ \E d \in AllDriven([conn EXCEPT ![r].state = "PerformIo"]) :
          LET c == checkHandles(d)
              again == c[r].action # 0 /\ c[r].state # "absent"
          IN IF \A s \in Requests : d[s].easy \notin Unfinished
             THEN EndTask(c) /\ armed' = FALSE /\ UNCHANGED crashed
             ELSE /\ curl_timer_cb(c)
                  /\ crashed' = (again /\ c[r].socket # "open")
                  /\ LET e == [c EXCEPT ![r] = poll([@ EXCEPT !.state = "Default"])]
                     IN IF again THEN WaitsBound(e) /\ EndTask(e) ELSE EndTask(c)
     /\ caller' = Released
     /\ UNCHANGED <<running, dtor>>

PerformOpOnDeadSocket ==
  /\ First("performOp") /\ Head(ioq).ec = "ok"
  /\ conn[Head(ioq).r].state # "absent" /\ conn[Head(ioq).r].socket # "open"
  /\ crashed' = TRUE
  /\ UNCHANGED <<conn, ioq, armed, running, caller, dtor>>

\* Mutants: the waits are not cancelled; the state is not set; the promise of a
\* second cancellation is not set.
cancelPoll_none(x) == x

cancel_connection_stateless(x, who) == [x EXCEPT !.promise = who]

cancel_connection_io_thread_forgetful ==
  /\ First("cancel") /\ conn[Head(ioq).r].state = "Cancelled"
  /\ EndTask(conn)
  /\ UNCHANGED <<armed, running, crashed, caller, dtor>>

\* cancel_connection_io_thread for a connection that is tracked and not yet
\* Cancelled: a polling one has its waits cancelled, others are left to the next
\* checkHandles.  A connection of cancelled_connections in another state, for
\* which the code has a branch, does not occur (CancelledAgree).
cancelPoll(x) ==
  IF x.socket = "open" THEN [x EXCEPT !.aborted = @ + x.polls, !.polls = 0] ELSE x

cancel_connection(x, who) ==
  LET y == [x EXCEPT !.state = "Cancelled", !.promise = who]
  IN IF x.state = "Polling" THEN cancelPoll(y) ELSE y

cancel_connection_io_thread ==
  LET r == Head(ioq).r
      k == Head(ioq).by
      Return(at) == caller' = [caller EXCEPT ![k] = [at |-> at, r |-> "none"]]
  IN /\ First("cancel")
     /\ \/ conn[r].state = "absent" /\ EndTask(conn) /\ Return("threw")
             /\ UNCHANGED crashed
        \/ conn[r].state = "Cancelled" /\ EndTask(conn) /\ Return("idle")
             /\ UNCHANGED crashed
        \/ /\ conn[r].state \notin {"absent", "Cancelled"}
           /\ EndTask([conn EXCEPT ![r] = cancel_connection(@, k)])
           /\ crashed' = (conn[r].state = "Polling" /\ conn[r].socket = "deleted")
           /\ UNCHANGED caller
     /\ UNCHANGED <<armed, running, dtor>>

\* Mutant: the connections still alive are not cancelled.
Shutdown_only ==
  /\ First("shutdown")
  /\ EndTask(conn)
  /\ running' = FALSE /\ dtor' = "futures"
  /\ UNCHANGED <<armed, crashed, caller>>

\* The first task of ~Manager: stop, and cancel what nobody has cancelled.
Shutdown ==
  /\ First("shutdown")
  /\ running' = FALSE
  /\ LET Alone(x) == x.state # "absent" /\ ~x.cancelled
     IN /\ EndTask([r \in Requests |->
             LET x == [conn[r] EXCEPT !.cancelled = TRUE]
             IN CASE ~Alone(conn[r]) -> conn[r]
                  [] Alone(conn[r]) /\ x.state = "Cancelled" -> x
                  [] Alone(conn[r]) /\ x.state # "Cancelled" ->
                       cancel_connection(x, "dtor")])
        /\ crashed' = \E r \in Requests : /\ Alone(conn[r])
                                          /\ conn[r].state = "Polling"
                                          /\ conn[r].socket = "deleted"
  /\ dtor' = "futures"
  /\ UNCHANGED <<armed, caller>>

\* Its second task.
LastCheck ==
  /\ First("check")
  /\ EndTask(checkHandles(conn))
  /\ caller' = Released
  /\ dtor' = "cleanup"
  /\ UNCHANGED <<armed, running, crashed>>

IoTask ==
  \/ HandleRefused \/ HandleUnconfigured \/ HandleNotAdded \/ handleRequest
  \/ timer_cb \/ PollFailed \/ PollUntracked \/ performOp \/ PerformOpOnDeadSocket
  \/ cancel_connection_io_thread \/ Shutdown \/ LastCheck

----------------------------------------------------------------------------
(* The reactor and the other threads.                                      *)

\* A wait ends: the socket is ready, or in error, or closed in the cache.
PollReady(r) ==
  /\ \/ /\ conn[r].polls > 0
        /\ conn' = [conn EXCEPT ![r].polls = @ - 1]
        /\ ioq' = Append(ioq, PollTask(r, "ok"))
     \/ /\ conn[r].polls > 0 /\ PollErrors
        /\ conn' = [conn EXCEPT ![r].polls = @ - 1]
        /\ ioq' = Append(ioq, PollTask(r, "error"))
     \/ /\ conn[r].stale > 0
        /\ conn' = [conn EXCEPT ![r].stale = @ - 1]
        /\ \E ec \in {"ok", "aborted"} : ioq' = Append(ioq, PollTask(r, ec))
  /\ UNCHANGED <<armed, running, crashed, caller, dtor>>

\* The timer expires; at most one expiration waits in the queue (TimerBound).
TimerFires ==
  /\ armed /\ \A i \in 1..Len(ioq) : ioq[i].t # "timer"
  /\ armed' = FALSE
  /\ ioq' = Append(ioq, Task("timer", "none"))
  /\ UNCHANGED <<conn, running, crashed, caller, dtor>>

\* HttpClient::handle_request.
handle_request(r) ==
  /\ conn[r].life = "new"
  /\ dtor = "alive" \/ (LateCalls /\ dtor # "deleted")
  /\ conn' = [conn EXCEPT ![r].life = "submitted"]
  /\ ioq' = Append(ioq, Task("handle", r))
  /\ UNCHANGED <<armed, running, crashed, caller, dtor>>

\* A thread of pool_dispatch_ calls the completion handler.
Deliver(r) ==
  /\ conn[r].posted
  /\ conn' = [conn EXCEPT ![r].posted = FALSE]
  /\ UNCHANGED <<ioq, armed, running, crashed, caller, dtor>>

\* The weak_ptr of the AsyncHandler can be locked while somebody holds a
\* shared_ptr: the manager's maps, a task, a wait or the posted handler.
Referenced(r) ==
  \/ conn[r].state # "absent" \/ conn[r].posted
  \/ conn[r].polls + conn[r].stale > 0
  \/ \E i \in 1..Len(ioq) : ioq[i].r = r

\* AsyncHandler::cancelOperation, Connection::cancel: only the first call goes on.
cancelOperation(k, r) ==
  /\ caller[k].at = "idle" /\ Referenced(r) /\ ~conn[r].cancelled
  /\ dtor = "alive" \/ (LateCalls /\ dtor # "deleted")
  /\ conn' = [conn EXCEPT ![r].cancelled = TRUE]
  /\ caller' = [caller EXCEPT ![k] = [at |-> "flagged", r |-> r]]
  /\ UNCHANGED <<ioq, armed, running, crashed, dtor>>

\* cancelConnection posts its task and waits.
cancelConnection(k) ==
  /\ caller[k].at = "flagged" /\ dtor # "deleted"
  /\ ioq' = Append(ioq, CancelTask(caller[k].r, k))
  /\ caller' = [caller EXCEPT ![k].at = "waiting"]
  /\ UNCHANGED <<conn, armed, running, crashed, dtor>>

\* ~HttpClient, ~Manager: two tasks, and between them the wait for what was
\* cancelled.
Calling == {k \in Cancellers : caller[k].at \in {"flagged", "waiting"}}

Destroy ==
  /\ dtor = "alive" /\ (LateCalls \/ Calling = {})
  /\ dtor' = "shutdown"
  /\ ioq' = Append(ioq, Task("shutdown", "none"))
  /\ UNCHANGED <<conn, armed, running, crashed, caller>>

FuturesSet ==
  /\ dtor = "futures" /\ \A r \in Requests : conn[r].promise # "dtor"
  /\ dtor' = "checking"
  /\ ioq' = Append(ioq, Task("check", "none"))
  /\ UNCHANGED <<conn, armed, running, crashed, caller>>

Cleanup ==
  /\ dtor = "cleanup"
  /\ dtor' = "deleted" /\ armed' = FALSE
  /\ UNCHANGED <<conn, ioq, running, crashed, caller>>

\* Nothing is left to happen to a client that is gone.
Gone == (dtor = "deleted" \/ crashed) /\ UNCHANGED vars

Next ==
  \/ IoTask \/ TimerFires \/ Destroy \/ FuturesSet \/ Cleanup \/ Gone
  \/ \E r \in Requests : PollReady(r) \/ handle_request(r) \/ Deliver(r)
  \/ \E k \in Cancellers : cancelConnection(k) \/ \E r \in Requests : cancelOperation(k, r)

Spec == Init /\ [][Next]_vars

(***************************************************************************)
(* Fairness: the threads run, and the timer expires.  Nothing is assumed   *)
(* of the network or of the progress libcurl makes.                        *)
(***************************************************************************)
Fairness ==
  /\ WF_vars(IoTask) /\ WF_vars(TimerFires) /\ WF_vars(FuturesSet) /\ WF_vars(Cleanup)
  /\ \A k \in Cancellers : WF_vars(cancelConnection(k))

FairSpec == Spec /\ Fairness

----------------------------------------------------------------------------
(* Properties.                                                             *)

\* Every field of Connection and every variable of Manager keeps its type.
TypeOK ==
  /\ \A r \in Requests :
       LET x == conn[r]
       IN /\ x.life \in {"new", "submitted", "handled", "dropped"}
          /\ x.state \in States
          /\ x.easy \in {"out", "connecting", "connected"}
          /\ x.socket \in {"null", "open", "deleted"}
          /\ x.action \in 0..2 /\ x.aborted = 0
          /\ x.polls + x.stale <= MaxPolls
          /\ x.promise \in Cancellers \cup {"nobody", "dtor"}
  /\ {armed, running, crashed} \subseteq BOOLEAN
  /\ \A k \in Cancellers : caller[k].at \in {"idle", "flagged", "waiting", "threw"}
  /\ dtor \in {"alive", "shutdown", "futures", "checking", "cleanup", "deleted"}

\* performOp, poll and cancelPoll only touch a socket that exists, although
\* libcurl replaces sockets behind a connection that polls them.
SocketsLive == ~crashed

\* current_connections and cancelled_connections agree: a connection is in the
\* second exactly while its state in the first is Cancelled, so performOp, which
\* overwrites the state, loses no cancellation.
CancelledAgree ==
  \A r \in Requests : (conn[r].promise # "nobody") <=> (conn[r].state = "Cancelled")

\* A request the manager took on is in current_connections until its result is
\* notified, and then no longer: none leaves in silence, and none is notified
\* and still driven.
ManagedUntilNotified ==
  \A r \in Requests :
    conn[r].life = "handled" => (conn[r].state = "absent" <=> conn[r].notified)

\* A thread that waits in cancelOperation waits for a task in the queue or for a
\* promise checkHandles will set, never for a promise that is gone.
WaitersKnown ==
  \A k \in Cancellers :
    caller[k].at = "waiting" =>
      \/ \E r \in Requests : conn[r].promise = k
      \/ \E i \in 1..Len(ioq) : ioq[i].t = "cancel" /\ ioq[i].by = k

\* The refinement mapping: which result a request has, and who waits for it.
Status(r) ==
  CASE conn[r].life # "handled" -> conn[r].life
    [] conn[r].life = "handled" /\ ~conn[r].notified -> "active"
    [] conn[r].life = "handled" /\ conn[r].notified ->
         IF conn[r].posted THEN "notified" ELSE "delivered"

Contract ==
  INSTANCE ClientContract WITH
    Orderly   <- ~LateCalls,
    status    <- [r \in Requests |-> Status(r)],
    cancelled <- {r \in Requests : conn[r].promise # "nobody"},
    gone      <- dtor = "deleted"

\* The manager, its queue and its callbacks implement ClientContract: one result for
\* each request it takes on, handed over once, whatever errors, completions and
\* cancellations come together; cancelOperation throws only when its request was over
\* or never taken on; and the destructor leaves no request behind.
ImplementsClientContract == Contract!Spec

\* cancelOperation does not block for ever, whatever the peer does.
CancelReturns ==
  \A k \in Cancellers : (caller[k].at = "waiting") ~> (caller[k].at # "waiting")

\* The client's destructor returns, whatever the peer does.
DestructorReturns == (dtor = "shutdown") ~> (dtor = "deleted")
============================================================================
