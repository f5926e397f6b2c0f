---------------------------- MODULE RequestCycle ----------------------------
(***************************************************************************)
(* The bytes of one server connection on their way from the socket to the  *)
(* handlers and, for a connection that is kept alive, to the next request: *)
(* request_buffer_ and body_buffer_ of HTTP::Connection, what the parsers  *)
(* take from them, RestDispatcher, ReadWholeRequest and the keep-alive     *)
(* rule.  HttpServer models the same flow with its threads and its locks   *)
(* and without the bytes.                                                  *)
(*                                                                         *)
(* A byte is its position in what the peer sends; Zero is a byte that      *)
(* resize has filled in.  The blank line that ends a head counts as one    *)
(* byte, the last of the head, and no body holds one.                      *)
(***************************************************************************)
EXTENDS Naturals, Sequences, FiniteSets, FiniteSetsExt

CONSTANTS
  BUF_SIZE,     \* Connection::BUF_SIZE
  Backends,     \* the parsers the library is built with: "ragel", "stream"
  Messages,     \* requests a peer may send
  MaxMessages,  \* bound on the requests of one connection
  MaxLong,      \* per backend: bound on the heads longer than BUF_SIZE
  Table,        \* the routes, in the order they were added
  SizeLimit     \* the limit a handler of its own passes to read_whole_request

ASSUME CycleAssumption ==
  /\ BUF_SIZE \in Nat \ {0} /\ MaxMessages \in Nat /\ SizeLimit \in Nat \ {0}
  /\ Backends \subseteq {"ragel", "stream"} /\ \A b \in Backends : MaxLong[b] \in Nat
  /\ \A m \in Messages : m.head \in Nat \ {0} /\ m.length \in Nat
  /\ Len(Table) > 0

VARIABLES
  backend,         \* the parser of this build
  sent,            \* the requests of the peer
  received,        \* how many bytes have been read from the socket
  taken,           \* how many of them the parser and the handlers have used
  request_buffer,  \* request_buffer_
  body_buffer,     \* body_buffer_
  size,            \* size_
  at,              \* where the connection is
  current,         \* the request the handler was given
  want,            \* bytes of its body still to be read
  body,            \* bytes of its body the handler was given
  ignored,         \* a handler has answered and left bytes of a body
  answers          \* the status of each response

buffers == <<request_buffer, body_buffer, size>>
vars == <<backend, sent, received, taken, buffers, at, current, want, body, ignored,
          answers>>

----------------------------------------------------------------------------
(* The peer's requests.                                                    *)

\* The last byte of the first k requests.
MessageEnd(k) ==
  LET e[i \in 0..Len(sent)] ==
        IF i = 0 THEN 0 ELSE e[i - 1] + sent[i].head + sent[i].length
  IN e[k]

HeadEnd(k)   == MessageEnd(k - 1) + sent[k].head
Run(from, to) == [i \in 1..(to - from) |-> from + i]
Head_(k)     == Run(MessageEnd(k - 1), HeadEnd(k))
Body(k)      == Run(HeadEnd(k), MessageEnd(k))

\* Of the first n requests, those whose head is longer than BUF_SIZE.
LongHeads(n) == {k \in 1..n : sent[k].head > BUF_SIZE}

----------------------------------------------------------------------------
(* std::vector<char>: mem is the allocated memory, size the elements of it *)
(* that count; memory past size keeps what was written there.              *)

Zero == 0
Vector == [mem |-> <<>>, size |-> 0]
Capacity(v) == Len(v.mem)
Content(v)  == SubSeq(v.mem, 1, v.size)

\* Memory for n elements at least; only those that count move to a new place.
Reserve(v, n) ==
  IF n <= Capacity(v) THEN v
  ELSE [v EXCEPT !.mem = [i \in 1..n |-> IF i <= v.size THEN v.mem[i] ELSE Zero]]

\* Elements that resize adds are zero.
Resize(v, n) ==
  LET w == Reserve(v, IF n <= Capacity(v) THEN n ELSE Max({n, 2 * v.size}))
  IN [mem  |-> [i \in 1..Capacity(w) |-> IF v.size < i /\ i <= n THEN Zero ELSE w.mem[i]],
      size |-> n]

\* The elements become s; memory behind them is left.
Fill(v, s) ==
  LET w == Reserve(v, Len(s))
  IN [mem  |-> s \o SubSeq(w.mem, Len(s) + 1, Capacity(w)), size |-> Len(s)]

Init ==
  /\ backend \in Backends
  /\ sent \in UNION {[1..n -> Messages] : n \in 1..MaxMessages}
  /\ Cardinality(LongHeads(Len(sent))) <= MaxLong[backend]
  /\ received = 0 /\ taken = 0
  /\ request_buffer = Vector /\ body_buffer = Vector /\ size = 0
  /\ at = "start" /\ current = 0 /\ want = 0 /\ body = <<>> /\ ignored = FALSE
  /\ answers = <<>>

----------------------------------------------------------------------------
(* Connection: reading a request.                                          *)

\* Mutant: bytes of the next request are dropped.
start_empty ==
  /\ at = "start"
  /\ size' = 0
  /\ request_buffer' = Resize(request_buffer, BUF_SIZE)
  /\ body_buffer' = Reserve([body_buffer EXCEPT !.size = 0], BUF_SIZE)
  /\ at' = "read_request" /\ body' = <<>>
  /\ UNCHANGED <<backend, sent, received, taken, current, want, ignored, answers>>

\* start: what is left in body_buffer_ is the beginning of the next request.
start ==
  /\ at = "start"
  /\ LET kept == body_buffer.size > 0
         r == IF kept THEN body_buffer ELSE request_buffer
         b == IF kept THEN request_buffer ELSE body_buffer
     IN /\ size' = IF kept THEN body_buffer.size ELSE 0
        /\ request_buffer' = Resize(r, BUF_SIZE)
        /\ body_buffer' = Reserve([b EXCEPT !.size = 0], BUF_SIZE)
  /\ at' = "read_request" /\ body' = <<>>
  /\ UNCHANGED <<backend, sent, received, taken, current, want, ignored, answers>>

Bytes == SubSeq(request_buffer.mem, 1, size)

\* Parser::isComplete looks for the end of a head anywhere in the bytes.
isComplete == \E i \in 1..size, k \in 1..Len(sent) : Bytes[i] = HeadEnd(k)

\* Both parsers accept the bytes when a head is at their front.
parse(k) == sent[k].head <= size /\ SubSeq(Bytes, 1, sent[k].head) = Head_(k)

\* VectorStreamBuf::shrinkVector moves the bytes behind the first n to the front.
shrinkVector(n) ==
  LET rest == SubSeq(request_buffer.mem, n + 1, size)
  IN Resize([request_buffer EXCEPT
               !.mem = rest \o SubSeq(@, Len(rest) + 1, Capacity(request_buffer))],
            Len(rest))

KeepStream(n) ==
  /\ body_buffer' = shrinkVector(n)
  /\ request_buffer' = body_buffer

\* Mutants: the byte behind the head is dropped; the buffers are exchanged under the
\* references to the head.
KeepRagel_short(n) ==
  /\ body_buffer' = Fill(body_buffer, SubSeq(request_buffer.mem, n + 2, size))
  /\ request_buffer' = Resize(request_buffer, n)

KeepRagel_swapped(n) ==
  /\ body_buffer' = Fill(request_buffer, SubSeq(request_buffer.mem, n + 1, size))
  /\ request_buffer' = body_buffer

KeepRagel(n) ==
  IF n = size THEN UNCHANGED <<request_buffer, body_buffer>>
  ELSE /\ body_buffer' = Fill(body_buffer, SubSeq(request_buffer.mem, n + 1, size))
       /\ request_buffer' = Resize(request_buffer, n)

\* read_request of complete bytes: the rest is kept and the handler notified, or
\* the request is answered with BadRequest.
RequestRead(k) ==
  /\ at = "read_request" /\ isComplete /\ parse(k)
  /\ IF backend = "ragel" THEN KeepRagel(sent[k].head) ELSE KeepStream(sent[k].head)
  /\ taken' = taken + sent[k].head
  /\ current' = k /\ at' = "sink"
  /\ UNCHANGED <<backend, sent, received, size, want, body, ignored, answers>>

RequestInvalid ==
  /\ at = "read_request" /\ isComplete /\ \A k \in 1..Len(sent) : ~parse(k)
  /\ answers' = Append(answers, "BadRequest") /\ at' = "sending"
  /\ UNCHANGED <<backend, sent, received, taken, buffers, current, want, body, ignored>>

\* Mutant: request_buffer_ does not grow.
ReadMore_full ==
  /\ at = "read_request" /\ ~isComplete
  /\ at' = "reading"
  /\ UNCHANGED <<backend, sent, received, taken, buffers, current, want, body, ignored,
                 answers>>

\* read_request of bytes that are not complete.
ReadMore ==
  /\ at = "read_request" /\ ~isComplete
  /\ request_buffer' = IF size = request_buffer.size
                       THEN Resize(request_buffer, size + BUF_SIZE) ELSE request_buffer
  /\ at' = "reading"
  /\ UNCHANGED <<backend, sent, received, taken, body_buffer, size, current, want, body,
                 ignored, answers>>

\* A read of some of the bytes the peer has sent, into room for n.
SomeRead(n) == 1..Min({n, MessageEnd(Len(sent)) - received})

\* Mutant: a read is given room for BUF_SIZE bytes wherever it starts.
ReadDone_over ==
  /\ at = "reading"
  /\ \E n \in SomeRead(BUF_SIZE) :
       /\ request_buffer' = [request_buffer EXCEPT
            !.mem = [i \in DOMAIN @ |-> IF size < i /\ i <= size + n
                                        THEN received + i - size ELSE @[i]]]
       /\ size' = size + n
       /\ received' = received + n
  /\ at' = "read_request"
  /\ UNCHANGED <<backend, sent, taken, body_buffer, current, want, body, ignored,
                 answers>>

\* A read of a body has failed (want bytes of it are missing) and its handler has
\* answered all the same: the peer sends nothing more.
Eof == want > 0 /\ at \notin {"parts", "readingWhole", "readingParts"}

\* The completion of async_read_some: a read into no room ends at once.
ReadDone ==
  /\ at = "reading" /\ ~Eof
  /\ LET room == Capacity(request_buffer) - size
     IN \E n \in IF room = 0 THEN {0} ELSE SomeRead(room) :
          /\ request_buffer' = [request_buffer EXCEPT
               !.mem = [i \in DOMAIN @ |-> IF size < i /\ i <= size + n
                                           THEN received + i - size ELSE @[i]]]
          /\ size' = size + n
          /\ received' = received + n
  /\ at' = "read_request"
  /\ UNCHANGED <<backend, sent, taken, body_buffer, current, want, body, ignored,
                 answers>>

\* Any read fails when the peer has gone: the connection is destroyed, by
\* connection_error or by the handler that was reading the body.
ReadFails ==
  /\ at \in {"reading", "readingWhole", "readingParts"}
  /\ at' = "closed"
  /\ UNCHANGED <<backend, sent, received, taken, buffers, current, want, body, ignored,
                 answers>>

----------------------------------------------------------------------------
(* Handlers.                                                               *)

\* The response is set and sent; bytes of the body may be left unread.
Answer(code) ==
  /\ answers' = Append(answers, code) /\ at' = "sending"
  /\ ignored' = (ignored \/ taken' # MessageEnd(current))

\* Connection::read into a buffer of the caller.
ReadBody(n) ==
  IF n <= body_buffer.size
  THEN /\ body' = SubSeq(body_buffer.mem, 1, n)
       /\ body_buffer' = Fill(body_buffer, SubSeq(body_buffer.mem, n + 1, body_buffer.size))
       /\ taken' = taken + n
       /\ want' = 0 /\ Answer("Ok")
  ELSE /\ body' = Content(body_buffer)
       /\ body_buffer' = [body_buffer EXCEPT !.size = 0]
       /\ want' = n - body_buffer.size
       /\ taken' = taken + body_buffer.size
       /\ at' = "readingWhole" /\ UNCHANGED <<answers, ignored>>

\* ReadWholeRequest::start, with a size_limit or without (0); what to answer to a
\* request that is too large is up to the handler.
ReadWholeRequest(limit) ==
  LET n == sent[current].length
  IN CASE limit # 0 /\ n > limit ->
            /\ UNCHANGED <<body_buffer, want, body, taken>>
            /\ Answer("RequestEntityTooLarge")
       [] ~(limit # 0 /\ n > limit) /\ n = 0 ->
            UNCHANGED <<body_buffer, want, body, taken>> /\ Answer("Ok")
       [] ~(limit # 0 /\ n > limit) /\ n > 0 -> ReadBody(n)

\* RestDispatcher::add: routes of one path keep the order in which they are added.
add(table, path, methods, type) ==
  Append(table, [path |-> path, methods |-> methods, type |-> type])

\* RestDispatcher::sink: the first route of the path that allows the method.
Matching(m) ==
  {i \in 1..Len(Table) : Table[i].path = m.path /\ m.method \in Table[i].methods}

Unroutable ==
  /\ at = "sink" /\ Matching(sent[current]) = {}
  /\ UNCHANGED taken /\ Answer("NotFound")
  /\ UNCHANGED <<backend, sent, received, buffers, current, want, body>>

Route == Table[Min(Matching(sent[current]))]

HandleWithBody ==
  /\ at = "sink" /\ Matching(sent[current]) # {} /\ Route.type = "WithBody"
  /\ ReadWholeRequest(0)
  /\ UNCHANGED <<backend, sent, received, request_buffer, size, current>>

\* A handler without a body answers, or reads the body by itself.
Handler == at = "sink" /\ Matching(sent[current]) # {} /\ Route.type = "WithoutBody"

HandlerAnswers ==
  /\ Handler
  /\ UNCHANGED taken /\ Answer("Ok")
  /\ UNCHANGED <<backend, sent, received, buffers, current, want, body>>

HandlerReadsWhole ==
  /\ Handler
  /\ ReadWholeRequest(SizeLimit)
  /\ UNCHANGED <<backend, sent, received, request_buffer, size, current>>

HandlerReadsParts ==
  /\ Handler
  /\ want' = sent[current].length /\ at' = "parts"
  /\ UNCHANGED <<backend, sent, received, taken, buffers, current, body, ignored, answers>>

\* async_read of the rest of the body ends.
WholeRead ==
  /\ at = "readingWhole" /\ received + want <= MessageEnd(Len(sent))
  /\ body' = body \o Run(received, received + want)
  /\ received' = received + want
  /\ taken' = taken + want
  /\ want' = 0 /\ Answer("Ok")
  /\ UNCHANGED <<backend, sent, buffers, current>>

\* The read of a body fails and its handler, told so, answers: body_buffer_ stays at
\* the size that was made for the next part.
BodyReadFails ==
  /\ at \in {"readingWhole", "readingParts"}
  /\ UNCHANGED taken /\ Answer("Error")
  /\ UNCHANGED <<backend, sent, received, buffers, current, want, body>>

\* Mutant: all of body_buffer_ is handed out.
ReadPart_all ==
  /\ at = "parts"
  /\ LET n == Min({want, body_buffer.size})
     IN /\ body' = body \o Content(body_buffer)
        /\ taken' = taken + n
        /\ want' = want - n
        /\ IF want = n
           THEN /\ body_buffer' = Fill(body_buffer,
                                       SubSeq(body_buffer.mem, n + 1, body_buffer.size))
                /\ Answer("Ok")
           ELSE /\ body_buffer' = Resize([body_buffer EXCEPT !.size = 0],
                                         Min({BUF_SIZE, want - n}))
                /\ at' = "readingParts" /\ UNCHANGED <<answers, ignored>>
  /\ UNCHANGED <<backend, sent, received, request_buffer, size, current>>

\* Connection::read that hands out the body in parts: the part in body_buffer_, then
\* the end of the body or a read of the next part.
ReadPart ==
  /\ at = "parts"
  /\ LET n == Min({want, body_buffer.size})
     IN /\ body' = body \o SubSeq(body_buffer.mem, 1, n)
        /\ taken' = taken + n
        /\ want' = want - n
        /\ IF want = n
           THEN /\ body_buffer' = Fill(body_buffer,
                                       SubSeq(body_buffer.mem, n + 1, body_buffer.size))
                /\ Answer("Ok")
           ELSE /\ body_buffer' = Resize([body_buffer EXCEPT !.size = 0],
                                         Min({BUF_SIZE, want - n}))
                /\ at' = "readingParts" /\ UNCHANGED <<answers, ignored>>
  /\ UNCHANGED <<backend, sent, received, request_buffer, size, current>>

PartRead ==
  /\ at = "readingParts"
  /\ \E n \in SomeRead(body_buffer.size) :
       /\ body_buffer' = Fill(body_buffer, Run(received, received + n))
       /\ received' = received + n
  /\ at' = "parts"
  /\ UNCHANGED <<backend, sent, taken, request_buffer, size, current, want, body, ignored,
                 answers>>

----------------------------------------------------------------------------
(* The end of a request.                                                   *)

setShouldConnectionBeClosed(m) ==
  m.connection = "close" \/ (m.connection # "keep-alive" /\ m.version # "1.1")

\* recycle.
Sent ==
  /\ at = "sending"
  /\ at' = IF \/ answers[Len(answers)] = "BadRequest"
              \/ setShouldConnectionBeClosed(sent[current])
           THEN "closed" ELSE "start"
  /\ UNCHANGED <<backend, sent, received, taken, buffers, current, want, body, ignored,
                 answers>>

WriteFails ==
  /\ at = "sending"
  /\ at' = "closed"
  /\ UNCHANGED <<backend, sent, received, taken, buffers, current, want, body, ignored,
                 answers>>

Step ==
  \/ start \/ RequestInvalid \/ ReadMore \/ ReadDone \/ ReadFails
  \/ \E k \in 1..Len(sent) : RequestRead(k)
  \/ Unroutable \/ HandleWithBody \/ HandlerAnswers \/ HandlerReadsWhole
  \/ HandlerReadsParts \/ WholeRead \/ ReadPart \/ PartRead
  \/ BodyReadFails \/ Sent \/ WriteFails

\* The connection is gone.
Closed == at = "closed" /\ UNCHANGED vars

Next == Step \/ Closed

Spec == Init /\ [][Next]_vars

\* Fairness: the peer's bytes arrive, and handlers go on.
FairSpec == Spec /\ WF_vars(Step)

----------------------------------------------------------------------------
(* Properties.                                                             *)

\* Connection's buffers and fields keep their types.
TypeOK ==
  /\ taken <= received /\ received <= MessageEnd(Len(sent))
  /\ \A v \in {request_buffer, body_buffer} :
       v.size <= Capacity(v) /\ \A i \in 1..Capacity(v) : v.mem[i] <= received
  /\ size <= Capacity(request_buffer)
  /\ at \in {"start", "read_request", "reading", "sink", "readingWhole", "parts",
             "readingParts", "sending", "closed"}
  /\ current \in 0..Len(sent) /\ want \in Nat /\ ignored \in BOOLEAN

\* The bytes that have been received and not used yet.
Pending ==
  CASE at \in {"read_request", "reading"} -> Bytes
    [] at = "readingParts" -> <<>>
    [] OTHER -> Content(body_buffer)

Refused == answers # <<>> /\ answers[Len(answers)] = "BadRequest"

\* No byte is lost, repeated, moved or overwritten between the socket, the parser,
\* the two buffers that start and read_request exchange, and the handlers: what is
\* pending is what was received and not used, as long as no read of a body has failed.
StreamIntact == at # "closed" /\ ~Refused /\ ~Eof => Pending = Run(taken, received)

\* A handler that reads the body is given the body of its request, neither less
\* nor bytes of the request behind it, unless it is told that the read failed.
BodiesIntact ==
  at = "sending" /\ ~Refused /\ ~Eof /\ body # <<>> => body = Body(current)

\* The head a handler looks at, through the references of request_ into
\* request_buffer_, is the one the peer sent (the stream parser copies it).
HeadIntact ==
  backend = "ragel" /\ ~Refused
    /\ at \in {"sink", "readingWhole", "parts", "readingParts", "sending"} =>
    SubSeq(request_buffer.mem, 1, sent[current].head) = Head_(current)

\* What read_request has room for: it lets request_buffer_ grow when size_ equals
\* size(), and reads up to capacity(), which growth makes larger than size().  Bytes of
\* a body that was left unread may be as many as the peer likes, and find a capacity
\* that a long head has left behind.
Moderate == size < 4 * BUF_SIZE /\ (ignored => LongHeads(current) = {})

\* async_read_some is called with room for a byte, so that it waits for one, as long
\* as what waits for the end of a head is moderate.
RoomToRead == Moderate /\ at = "reading" => size < Capacity(request_buffer)

\* Requests reach the handlers in order, none twice and none left out.  None comes
\* out of what body_buffer_ holds when the read of a body has failed and the
\* connection is used again.
RequestsInOrder == at = "sink" => current = Len(answers) + 1 /\ ~Eof

\* A request is refused only after a handler has left bytes of a body: none is
\* refused for the way its bytes were split over reads.
RefusedOnlyIfIgnored == Refused => ignored

\* A pipeline of requests is worked off: each is answered, unless the connection
\* is closed before.  More bytes than Moderate says may leave read_request in a loop
\* of reads into no room.
AllAnswered == []Moderate => <>(at = "closed" \/ Len(answers) = Len(sent))
=============================================================================
