# A TLA+ verification of httpp

httpp is a C++ library with an HTTP server on boost::asio and an HTTP client on
libcurl's multi interface. This directory holds TLA+ models of its concurrent parts,
of its parsers and of the path of a request and its response between the two ends, the
TLC configurations that check them, and theorems about the server, the client and the
buffers of a connection that TLAPS checks. `PROJECT.json` lists, for each definition
that models code, the lines it models.

## The system and its parts

| Part | Source | Module |
| --- | --- | --- |
| `HttpServer`: listeners, accept handlers, list and counters of connections, start, bind, stopListeners, stop, destroy | `src/httpp/HttpServer.cpp` | `HttpServer` |
| Server `Connection`: ownership, `mutex_`, deletion, handshake, request, body, response, recycling | `src/httpp/http/Connection.cpp`, `include/httpp/http/Connection.hpp` | `HttpServer` (control), `RequestCycle` (bytes) |
| `Response`: setters, plain and chunked writes | `include/httpp/http/Response.hpp`, `src/httpp/http/Response.cpp` | `Exchange` (what is written), `HttpServer` (the writes among threads) |
| Parsers, stream and ragel | `src/httpp/http/Parser.cpp`, `parser.rl`, `parser_ragel.cpp` | `RequestParser` (grammar), `RequestCycle` (what they take from the buffers) |
| `VectorStreamBuf`, `RestDispatcher`, `ReadWholeRequest`, keep-alive rule | `include/httpp/utils`, `src/httpp/http` | `RequestCycle` |
| `HttpClient`, client `Manager`, client `Connection` | `src/httpp/HttpClient.cpp`, `src/httpp/http/client` | `ClientManager` (threads), `ClientContract` (the promise), `Exchange` (requests and responses) |
| Client header parser | `src/httpp/http/client/curl_parser.cpp` | `Exchange` |
| `Protocol`, `Request`, `SortedVectorKP`, `LazyDecodedValue` | `src/httpp/http`, `src/httpp/utils`, `include/httpp/utils` | `RequestParser` |

How they interact. The server's thread pool runs accept handlers and the completion
handlers of connections; the thread that owns the server calls `start`, `bind`,
`stopListeners` and `stop`; handlers of the user answer from the pool or from threads
of their own. A connection is driven by one flow at a time, which `is_owned_` records;
`stop` reaches across with `markToBeDeleted`. A connection's request is read into
`request_buffer_`, parsed, handed to the sink (often a `RestDispatcher`), answered, and
on a keep-alive connection the bytes left in `body_buffer_` begin the next request. The
client has one io thread that runs every call of libcurl, a pool for completion
handlers, threads of the user that cancel requests, and the thread that destroys it.

## The modules

**`HttpServer`**. State: the main thread (`main`, `toSweep`), the listeners
(`acceptors`, `listening`, `runningAcceptors`), each listener's chain of accept handlers
(`accPc`, `accOp`, `accConn`), `connections_` and `connection_count_`, and for each
connection where its flow is (`pc`), the thread that runs it (`runner`), `mutex_`,
`is_owned_`, `should_be_deleted_`, its asynchronous operation (`op`) and what decides
its next step. Actions are the stretches of code between points where another thread
can see a difference: a lock taken or left, an operation started or completed. An
operation may complete, and its handler run, before the thread that started it has
left its locked scope. `stop` is `stop`, `CloseListener`, `AcceptorsStopped`, `Sweep`
(once for each connection in the list), `Swept`, `ConnectionsGone`, `PoolStopped`.
`destroy` is `DestroyMark`, `DestroyUnlist`, `release`; a release by a handler goes
through `DtorMark` and `DtorUnlist`. Closing the socket of a TLS session waits for the
peer: `markToBeDeleted` keeps `mutex_` until `TlsClosed`, `stop` keeps
`connections_mutex_` as well, and a release by a handler waits without a lock. `tls` says
whether a session was begun and whether it was shut down. In the places `dangling` and
`lost` a flow is about to use a connection that `source()` has destroyed. What the code
does from there on is undefined; the model ends that flow there, and nothing is claimed
about what would follow.

**`ServerContract`** is what the server promises: a phase, and who holds each
connection. `HttpServer` is shown to implement it, where `source()` is not called, with
`ContractPhase` and `ContractHolder` as the refinement mapping. A handler that calls
`source()` may have the connection destroyed under it: it still holds it in the mapping
(`HandlerHolds`), which the contract does not allow.

**`ClientManager`**. One record for each request (its `Connection` and its entries in
`current_connections` and `cancelled_connections`), the queue of the io thread, the
timer, the callers of `cancelOperation` and the destructor. A task of the io thread is
one action with everything it calls, the callbacks of libcurl included. libcurl itself
is external: `Driven` says what one call may do to a transfer (nothing, ask for a poll,
replace or close its socket, finish), `DrivenAgain` has the call within the call that
`curl_timer_cb` makes when libcurl asks for a timeout of zero, and the constants `CurlMoves`, `CurlGaps`,
`PollErrors`, `SetupErrors` and `LateCalls` choose how unpleasant the environment is.

**`ClientContract`** is what the client promises its user, without its threads and
libcurl: a request it has taken on has one result, handed over once; a cancellation
that was accepted ends the request, its caller comes back, and with an exception only
when there was nothing left to cancel; the client is gone only when it works on no
request. `ClientManager` implements it with `Status` and the fields of its callers as
the refinement mapping. `Orderly` is the condition on the user: nobody calls the client
while it is being destroyed.

**`RequestCycle`**. The bytes of one connection: `request_buffer_`, `body_buffer_` and
`size_` with the sizes and capacities of the vectors, and what `resize` leaves or
overwrites. A byte is its position in what the peer sends. The blank line that ends a
head counts as one byte. The parsers are abstracted to how much they take: a head at
the front of the bytes is accepted, and a complete head behind something else (the
body of a request that was answered without being read) is refused. A handler reads the
body whole, in parts, or not at all; when a read of the body fails it may still answer,
and the connection is recycled with what the failed read has left in `body_buffer_`.

**`RequestParser`**. The two parsers, as functions of a head, which is a sequence of
characters from a small alphabet with all the delimiters. The ragel machine is the
table of its 63 states: each definition of transitions is a group of states of
`parser_ragel.cpp`, with the actions of `parser.rl`. The stream parser is its functions,
with the iterator as a position. `SortedVectorKP` is the set of the orders an unstable
sort may leave. The reference is `Render`, which spells a request with spaces, escapes
and missing parts, and `Meaning`, what that request says, whichever parser reads it.

**`Exchange`**. A connection between the client and the server with what it carries.
`configureRequest` makes the head, `read_request` parses it, a handler calls the setters
of `Response` in any order and number and `sendContinue`, `sendResponse` and
`write_chunk` write items (a status line, fields, data, sizes of chunks), libcurl
(external) reads item by item, hands them to `writeHd` and `writefn` and follows
redirections, and `buildResponse` makes the response of the client. Writes fail in the
middle, transfers time out, and the connection is kept or opened anew. A ghost, `meant`,
keeps what the handler asked for, and `spoilt` that a response which has no body was
given one.

**The proofs.** `HttpServerProofs` has the theorems about `HttpServer`, its refinement of
`ServerContract` included. Those about `ClientManager` are in five modules, each of which
extends the one before it: `ClientSteps` (what one call does to one connection, and what
a task does to the queue), `ClientTasks` (the inductive invariant, and the tasks that
drive transfers), `ClientProofs` (the other tasks and the callers; the invariance and the
properties), `ClientWork` (the refinement of `ClientContract`) and `ClientTypes` (the
bound on waits, and `TypeOK`). `CycleProofs` has the inductive invariant of
`RequestCycle`, lemmas about vectors, and a lemma for each step; `CycleTheorems` the
initial state and the theorems.

`MCHttpServer`, `MCClientManager`, `MCRequestCycle` and `MCExchange` instantiate the
modules for TLC.

## The runs

| Run | Instance | What it shows |
| --- | --- | --- |
| `HttpServer_safety` | 3 connections (symmetric), 1 TLS listener, handlers in the pool and outside | `TypeOK`, `ReferencesLive`, `OwnNeverFails`, `ServerDestroysDisowned`, `CountMatchesList`, `AcceptorsQuiesced`, `SweepCoversAll`, `NoneOutlivesStop`, the inductive invariant `Inv`, and the refinement `ImplementsContract` |
| `HttpServer_live` | 2 connections, 1 TLS listener, `stopListeners` before `stop` | `StopListenersReturns`, `StopReturns`, both if peers end TLS sessions (`PeersEndTls`) |
| `HttpServer_stop` | 2 connections, `stop` alone | `StopReturns` fails (finding 1) |
| `HttpServer_source` | 2 connections, `source()` called | `CountMatchesList`, `SweepCoversAll` up to the first use of a connection that `source()` has destroyed |
| `HttpServer_destroy` | as above | `ServerDestroysDisowned` fails (finding 2) |
| `Client_safety` | 2 requests, 1 canceller | `TypeOK`, `SocketsLive`, `CancelledAgree`, `ManagedUntilNotified`, `WaitersKnown`, and the refinement `ImplementsClientContract` |
| `Client_cancel` | 1 request, 2 cancellers | `CancelReturns`, `DestructorReturns` |
| `Client_errors` | 1 request, 2 cancellers, every kind of trouble | `CancelledAgree`, `WaitersKnown`, `ImplementsClientContract` without `Orderly` |
| `Client_moves` | 1 request, sockets replaced while polled | `DestructorReturns` fails (finding 3) |
| `Request_cycle` | up to 3 requests of 8 kinds, `BUF_SIZE` 3, both parsers | `TypeOK`, `StreamIntact`, `BodiesIntact`, `HeadIntact`, `RoomToRead`, `RequestsInOrder`, `RefusedOnlyIfIgnored`, `AllAnswered` |
| `Request_heads` | two heads longer than `BUF_SIZE` | `HeadIntact` fails (finding 4) |
| `Exchange` | two requests of the client, 1 redirection each; some 1400 heads of other peers, both parsers | `HeadsRead`, `LookupFinds`, `ResponsesRead`, `HeadersRead`, `FramingIntact`, `Completes` |

Deadlock is checked except where the system may really stop: a server whose flow has
been cut off by `source()`, a client in which nothing waits any more
(`Client_errors`, `Client_moves`), and a connection whose requests are all answered
(`Exchange`).

### Findings

1. `stop()` may spin for ever. An accept that succeeds around `running_ = false` ends
   its chain in `start_accept`, which returns without decrementing
   `running_acceptors_`. Calling `stopListeners()` first avoids it.
2. `source()`, called from log messages, destroys the connection when its socket has
   no remote endpoint, while the flow that asked owns it and goes on with it.
3. When libcurl replaces the socket of a connection in state `Polling`, nothing waits
   on the new one, and a cancellation (the destructor's too) is never completed.
4. With the ragel parser, a second head longer than `BUF_SIZE` on one connection,
   followed by other bytes, is partly overwritten with zeros while the request refers
   to it: `request_buffer_.resize(consumed)` makes the vector larger.

Six more things the runs state with a condition, because they do not hold without it:

- `close()` calls a synchronous `ssl_socket_->shutdown` (`Connection.cpp:117`), which
  returns when the peer has answered. `stop` makes that call with `mutex_` and
  `connections_mutex_` held, so a peer that never answers keeps it from returning.
  `StopReturns` and `StopListenersReturns` are stated for `PeersEndTls`: no shutdown is
  left unanswered for ever.
- The stream parser leaves a parameter's name without "=" as it is spelled
  (`Parser.cpp:186`), and ragel decodes it (`parser.rl:68`): `?b%20` is read as two
  different names. `HeadsRead` asks, for the stream parser, that such names have no
  escape (`PlainNames`).
- `cancelOperation` throws "Connection already completed" when the request completes
  after the caller has locked its `weak_ptr` and before the cancel task runs
  (`Manager.cpp:425`). The contract allows the exception there and nowhere else.
- A body that is given to the response to a HEAD request, or to one with the code
  NoContent or Continue, is written, and the client reads it as the beginning of the
  next response. `FramingIntact` excludes this with `spoilt`.
- `buildResponse` takes one head off for the interim response of a multipart post,
  whether there was one or not. `HeadersRead` is stated for the number of heads it
  assumes.
- `read_request` lets `request_buffer_` grow when `size_` equals `size()`
  (`Connection.cpp:256`), and reads up to `capacity()`. After two growths the capacity is
  4 `BUF_SIZE` and the size 3 `BUF_SIZE`; a read that goes past the size without ending
  the head is followed by no growth, and once the capacity is full by reads of no bytes,
  one after the other. The bytes can be those of a body that a handler left unread, or of
  a head that long. `RoomToRead` and `AllAnswered` are stated for `Moderate`: fewer than
  4 `BUF_SIZE` bytes wait, and no body is left unread behind a long head.

### Bounds, and why they are enough

- `Conns`: one connection waits in an accept, so three give two that are served; the
  properties relate one connection to the main thread, or two to each other through
  the list. The theorems hold for any number.
- One listener. With two the state space is an order of magnitude larger, and the
  theorems cover any number of them.
- `Requests`, `Cancellers`: the io thread treats requests one by one, and they meet
  in the queue, the timer and `checkHandles`; two show that. Two cancellers of one
  request show the race for `cancelled`.
- `MaxPolls` bounds the waits of all connections together, which the code does not
  bound: a wait in both directions leaves one more behind each time it is renewed.
  Three let one connection wait in both directions while the other waits too.
- A call of libcurl changes one transfer, twice when `curl_timer_cb` calls libcurl from
  within it. `checkHandles` treats transfers independently, so several at once are
  several calls.
- `BUF_SIZE` 3 with heads of 1 to 4 and bodies of 0, 1, 2, 7 and 13 bytes has every
  order of head, body and message boundaries with respect to the buffers; the last
  body, left unread, is more than `request_buffer_` grows to. The theorems hold for
  every size.
- `MaxLong` bounds the heads longer than `BUF_SIZE` on a connection. One such head is
  handled by the ragel build; two are finding 4. The stream build already fails
  `StreamIntact` with one: `shrinkVector` resizes to a size beyond `size()` and zeros
  the bytes it has just moved. For this reason `Request_cycle` gives it none.
- `MaxRequests` 2 is enough for what one response leaves on the connection to show in
  the next, `MaxRedirects` 1 and one interim response for every number of heads in
  front of the last one, `MaxHeaders` 1 for a header that stays. `ClientParser` names
  the one build with which the client's requests are followed; what they need of the
  parser is a small part of the heads of other peers, which go through both.
- A peer other than the client sends one request, which is answered with an empty
  response: what is checked there is the head. The heads are every method with every
  parameter, all pairs of parameters, all pairs of headers, and a parameter with a
  header; the parsers keep no more than one token in mind.

### Fairness

- Server: the main thread, the pool and a thread in a locked scope go on (weak
  fairness); `stop` gets a mutex that is free again and again (strong fairness, a
  `std::mutex` does not promise it but schedulers provide it); a handler that is given
  a connection again and again answers or releases it some day (strong fairness: a
  handler that never does keeps `stop` waiting, in the loop at `HttpServer.cpp:154`). The
  specification assumes nothing of peers; what the two liveness properties need of them
  is their premise.
- Client: the threads run and the timer expires. Nothing is assumed of the network or
  of the progress of transfers. That libcurl keeps a timer set while a transfer is
  connecting is part of its model.
- Request cycle: some step is taken as long as one is possible. Bytes the peer has
  sent arrive, or the read fails.
- Exchange: a write that is under way ends, and libcurl reads what has come, as long as
  one of these can be done (weak fairness of `Progress`). Nothing is assumed of handlers
  and of time-outs.

## What is proved

### The server

`HttpServerProofs` proves, for every finite set of connections, every finite set of
listeners (TLS or not) and every choice of handler threads:

- `Invariance`: `Spec => []Inv`;
- from it `TypeCorrect`, `OwnSucceeds`, `CountExact`, `NoLateAccept`, `SweepComplete`,
  and, where `source()` is not called, `NoDanglingReference` and `DestroysDisowned`.

The assumptions are those of the module: `ThreadsAssumption` (TLS listeners are
listeners, handlers run in the pool or in threads of the user, the names of threads,
listeners and `NoConn` do not clash) and `FiniteAssumption` (finitely many connections
and listeners).

None of the properties is inductive by itself, so `Inv` adds what they rest on.
`ConnInv` is about one connection: it is listed while it is alive, its mutex is free in
the places that come before its first operation or after `markToBeDeleted` has waited
for it, it is owned exactly by the flow that drives it, and it does not wait on a
socket that has been closed. `AccInv` keeps accept handlers and their connections
apart. `SweepInv` says how far `stop` has come in the list. `CountInv` relates both
counters to the sets they count. The steps fall in three groups. The steps of a
connection's flow touch one connection: `FlowFrame`, `FlowTypes`, `FlagTypes` and
`FlowLocal` say, with one case for each action, what they leave alone, that they keep
the types and that they keep `ConnInv` of that connection, and `FlowInv` draws the
consequences for the whole state (`UnlistCount` for the counter). The steps of the
accept handlers and of the main thread have a lemma each, or one for a few that are
alike. `NextInv` puts them together.

It also proves, from `Inv` and for the same constants:

- `ContractKept`: `Spec => ImplementsContract`, where `source()` is not called;
- `StopLeavesNone`: `Spec => []NoneOutlivesStop`, where `source()` is not called.

`Inv` is too weak for either. The refinement needs `StopInv`: the server does not run
once `stop` sweeps, the list is empty once `stop` has waited for the connections (the
counter is zero, and `CountInv` relates it to the list), and no accept handler is left
when `stop` returns. With it, `FlowRefines`, `AcceptRefines` and `MainRefines` map each
step to a step of the contract or to none; without calls of `source()` the mapping is a
simple one (`HolderIsPlain`). A flow unlists its connection only from
`unlist` and `dtorUnlist`, hence never out of the hands of a handler. `StopLeavesNone`
needs the converse of `ConnInv`, `AliveInv`: a connection that is alive is listed, or
about to be listed by `mark`, or on its way to being freed by some thread.

### The client

For every finite set of requests, every set of threads that cancel them and every bound
on the waits, `ClientProofs`, `ClientWork` and `ClientTypes` prove:

| Theorem | Property | Where |
| --- | --- | --- |
| `ClientInvariance` | the inductive invariant `IInv` | always |
| `MapsAgree` | `CancelledAgree` | always |
| `CancelAnswered` | `WaitersKnown` | always |
| `NotifiedLeaves` | `ManagedUntilNotified` | waits end without errors (`~PollErrors`) |
| `SocketsStayLive` | `SocketsLive` | also libcurl has a socket for each transfer it works on (`~CurlGaps`) |
| `ClientKeepsContract` | `ImplementsClientContract` | always; what the contract promises of the destructor is for an orderly user (`~LateCalls`) |
| `ClientTypeCorrect` | `TypeOK` | always |

"Always" means for every value of `CurlMoves`, `CurlGaps`, `PollErrors`, `SetupErrors`
and `LateCalls`. The conditions are those under which `Client_safety` checks the
properties: `performOp` completes a connection whose wait ended with an error
(`Manager.cpp:297`), deletes its socket, and leaves it in `current_connections`. The
assumption is `BoundsAssumption`: the requests are finitely many, and the values that
stand for no caller, the destructor and no request are no thread and no request.

The invariant has one conjunct for each thing a task can disturb. `ConnInv` is about one
connection between two tasks: how its state, promise, notification and entries in the two
maps go together, which is what `CancelledAgree` says and more. `HandleInv` is about the
queue: a submitted request has exactly one `handle` task, and it is in front of every
`cancel` task for that request, so a cancellation finds the connection or finds it
completed. `CallerInv` says that a `cancel` task, or a promise, has one caller waiting
for it, and that no caller has both: this is what makes `WaitersKnown` inductive.
`DtorInv` and `OrderlyInv` follow the destructor: when it has stopped the manager, every
connection that is left is one it has cancelled itself, with its own promise. `SocketInv`
says that a connection which polls has an open socket, and that a connection with nothing
to poll for has no wait left in the queue.

A task changes one connection, or each one on its own. So the proof goes from connection
to queue to state: `ClientSteps` shows, call by call (`setSocket`, `poll`, `close`,
`performOp`, `connection_notify_result`, `cancel_connection_io_thread`), what becomes of
a connection that satisfies the invariant; `HandleInvTask`, `CallerKept`,
`CallerReleased` and their like say what taking the first task and appending aborted
waits does to the queue; and one lemma for each action joins the two. For `TypeOK`,
`FitsInv` bounds the waits of each connection by those of all (`MaxPolls`), which is a
fact about the cardinality of `Waits`.

### The buffers of a connection

For every `BUF_SIZE` greater than zero, every choice of requests, of at least one route,
of the number of requests and of the limit of the body, both parsers, every way the
bytes are split over reads and everything a handler may do, `CycleTheorems` proves:

| Theorem | Property | Beyond `StreamShort` |
| --- | --- | --- |
| `CycleInvariance` | the inductive invariant `IInv` | |
| `CycleTypes` | `TypeOK` | |
| `BytesIntact` | `StreamIntact` | |
| `BodiesGiven` | `BodiesIntact` | |
| `InOrder` | `RequestsInOrder` | |
| `NoneRefused` | `RefusedOnlyIfIgnored` | |
| `HeadsGiven` | `HeadIntact` | `RagelOnce`, no head longer than 3 `BUF_SIZE` |
| `ReadsHaveRoom` | `RoomToRead` | `RagelOnce` |

The conditions are where the code stops being right. `StreamShort`: the build with the
stream parser gets no head longer than `BUF_SIZE` (`shrinkVector`, see the bounds).
`RagelOnce`: the build with the ragel parser gets one such head at most (finding 4); the
bytes and the bodies are right with any number of them. The proof of `HeadsGiven` showed
a limit the run does not reach: a first head between 3 and 4 `BUF_SIZE`, followed by other
bytes, is also partly overwritten, because the vector then has the size 3 `BUF_SIZE`, and
`resize(consumed)` makes it larger.

`Types` and `Ends` are the types and what the positions of requests are. `Order` relates
`current` to the answers given. `Place` says where in the peer's bytes the connection is
in each of its states: at the end of a request, of a head, somewhere in a body, or, after
a body that was left unread, somewhere in front of the next request. `Stream` says which
buffer holds what was received and not yet taken: `request_buffer_` from its front while
a request is read, `body_buffer_` exactly while a handler has the request. When the read
of a body has failed it says that only zeros wait, so nothing is made of them. `Growth`
is about sizes and capacities: up to the first long head `request_buffer_` goes through
four pairs of size and capacity (`Grown`), and both vectors are back at `BUF_SIZE` when a
request has been parsed. `HeadThere` is the head the request refers to.

The vectors have lemmas of their own (`Resized`, `Filled`, `HeldFirst`, `ReadAfter`,
`RestKept`, `RestMoved`: what `resize`, a fill, a read, and the two ways to keep what
follows a head leave in memory). Where a request ends is a recursive function on numbers
(`MessageEnd`), and that it is defined and grows is an induction on the number of
requests, which `SumsExist` and `EndsHold` do with a least counterexample (`Least`).
`ReadingStep` and its like say which facts a step into a place needs, so
that the lemma of an action shows these and nothing about the rest of the invariant.

## What is only model-checked

- All liveness properties: TLAPS does not reason about fairness. They are
  `StopListenersReturns`, `StopReturns`, `CancelReturns`, `DestructorReturns`,
  `AllAnswered` and `Completes`.
- Everything about `Exchange`: it uses `RequestParser`, which has recursive operators,
  about which nothing can be proved, and what they compute is an induction over heads.

## What is not modelled

- Heads that are not well formed, but for an unknown method: what the parsers do with
  them is translated, and no run follows it.
- The tables between codes and strings in `Protocol`, the operators that compare and
  print, and the setters of `client::Request` that fill one field: no state that a
  property could be about. The url functions belong to commonpp.
- What the code does with a connection that `source()` has destroyed: undefined.
- Transfers that libcurl drives from within `curl_multi_remove_handle`
  (`Manager.cpp:214`), when it asks for a timeout of zero there and `curl_timer_cb` calls
  it back: the model assumes that no other transfer's timer has expired at that moment.
- Errors of `curl_multi_socket_action`, which the manager throws out of the io thread,
  and everything after `~Manager` has returned.
- The content of posts, and options of libcurl that change nothing in this code.
- The conversion of `Content-Length` by `atoi`. A body that ends early is modelled as a
  read that fails (`BodyReadFails`), after which the peer sends nothing more.
- `ThreadPool`, `LoggingInterface` and url functions of commonpp, boost::asio and libcurl
  are external and appear as the library uses them.

## Plan

1. A composition in which `RequestCycle` and the flow of one connection of `HttpServer`
   are one module.
2. Proofs: the capacity of `request_buffer_` once a second long head has come (ragel),
   hence `RoomToRead` without a bound on their number; `FramingIntact`, after splitting
   `Exchange` from the recursive parsers.
