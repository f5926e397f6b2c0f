------------------------------ MODULE Exchange ------------------------------
(***************************************************************************)
(* Requests and their responses, end to end, on a kept connection: a       *)
(* client::Request becomes a head, Parser::parse reads it for the handler, *)
(* the handler fills in the Response of the connection, sendResponse and   *)
(* write_chunk write it, libcurl reads it back and buildResponse makes the *)
(* client::Response of what libcurl has handed over.  RequestParser has    *)
(* the parsers, ClientManager and HttpServer the threads; here one         *)
(* connection is followed with what it carries.                            *)
(*                                                                         *)
(* What the server writes is a sequence of items: a status line, header    *)
(* fields, the blank line, units of data, sizes of chunks, ends of lines.  *)
(***************************************************************************)
EXTENDS RequestParser

CONSTANTS
  ClientRequests,  \* what users ask of the client
  ClientParser,    \* bound: the build with which the client's requests are followed
  PeerRequests,    \* heads as any other peer may spell them
  Fields,          \* headers a handler may add, none of those addHeader refuses
  Texts,           \* bodies given as a text: sequences of data
  Chunkings,       \* bodies given by a callback: sequences of chunks
  MaxRequests,     \* bound: requests on the way from the client
  MaxRedirects,    \* bound: redirections of one request
  MaxHeaders       \* bound: headers added to one response

VARIABLES
  parser,    \* the parser the library is built with
  asked,     \* the request the client is waiting for
  pending,   \* its head has not been read by the server
  parsed,    \* what Parser::parse has returned
  server,    \* where the connection is
  response,  \* Connection::response_
  writing,   \* the buffers of the async_write under way
  down,      \* written by the server, not yet read
  curl,      \* libcurl's side of the transfer
  client,    \* client::Connection: header, buffer, and the Response it made
  meant,     \* ghost: the response the handler has asked for
  spoilt,    \* ghost: a response without a body was given one
  requests   \* requests sent

vars == <<parser, asked, pending, parsed, server, response, writing, down, curl, client,
          meant, spoilt, requests>>

Codes == {"Ok", "Redirect", "NoContent"}
Flat(chunks) == FlattenSeq(chunks)

----------------------------------------------------------------------------
(* Response                                                                *)

\* Response(code) of a fresh object, and its setters.
NewResponse == [code |-> "Ok", headers |-> <<>>, body |-> <<>>, chunked |-> FALSE,
                chunks |-> <<>>, close |-> FALSE]

\* Mutant: the callback of the body set before stays.
SetBody_keeps_callback(r, text) == [r EXCEPT !.body = text]

SetBody(r, text) == [r EXCEPT !.body = text, !.chunked = FALSE, !.chunks = <<>>]

\* Mutant: the headers of the last response stay.
clear_keeps_headers(r) ==
  [SetBody(r, <<>>) EXCEPT !.code = "Ok", !.close = FALSE]

clear(r) ==
  [SetBody(r, <<>>) EXCEPT !.code = "Ok", !.close = FALSE, !.headers = <<>>]

Item(kind, v) == [kind |-> kind, v |-> v]
ItemsOf(kind, s) == [i \in DOMAIN s |-> Item(kind, s[i])]

\* Response::sendResponse: what the first write holds.
Written(r) ==
  <<Item("status", r.code)>> \o ItemsOf("field", r.headers)
  \o <<IF r.chunked THEN Item("field", <<"Transfer-Encoding", "chunked">>)
       ELSE Item("field", <<"Content-Length", Len(r.body)>>),
       Item("blank", 0)>>
  \o (IF r.chunked THEN <<>> ELSE ItemsOf("data", r.body))

\* Mutant: the end of the line behind a chunk is not written.
Chunk_unended(c) == <<Item("size", Len(c))>> \o ItemsOf("data", c)

\* Response::write_chunk: one chunk, and the end of the stream.
Chunk(c) == <<Item("size", Len(c))>> \o ItemsOf("data", c) \o <<Item("crlf", 0)>>

\* Mutant: the blank line behind the last size is missing.
END_without_blank_line == <<Item("size", 0)>>

END_OF_STREAM_MARKER == <<Item("size", 0), Item("crlf", 0)>>

----------------------------------------------------------------------------
(* The server's connection                                                 *)

NoMeaning == [code |-> "Ok", headers |-> <<>>, body |-> <<>>, continued |-> FALSE]

\* The first write of the response r; chunks follow when it has a callback.
Send(r) ==
  /\ writing' = Written(r)
  /\ server' = IF r.chunked THEN "head" ELSE "whole"

\* Connection::read_request once the head is complete.
read_request ==
  /\ server = "reading" /\ pending
  /\ pending' = FALSE
  /\ parsed' = parse(parser, Render(asked.head))
  /\ IF parsed'.ok
     THEN /\ server' = "handling" /\ meant' = NoMeaning
          /\ UNCHANGED <<response, writing>>
     ELSE LET bad == [NewResponse EXCEPT !.code = "BadRequest", !.body = <<"e">>, !.close = TRUE]
          IN /\ response' = bad /\ Send(bad)
             /\ meant' = [NoMeaning EXCEPT !.code = "BadRequest", !.body = <<"e">>]
  /\ UNCHANGED <<parser, asked, down, curl, client, spoilt, requests>>

\* What a handler does to the response, one call at a time.  Bound: to a request of
\* another peer the response is sent as it is.
Handler(r, m) ==
  /\ server = "handling" /\ asked.by = "client"
  /\ response' = r /\ meant' = m
  /\ UNCHANGED <<parser, asked, pending, parsed, server, writing, down, curl, client,
                 spoilt, requests>>

setCode(c) ==
  /\ c = "Redirect" => curl.redirects < MaxRedirects
  /\ Handler([response EXCEPT !.code = c], [meant EXCEPT !.code = c])

addHeader(f) ==
  /\ Len(response.headers) < MaxHeaders
  /\ Handler([response EXCEPT !.headers = Append(@, f)],
             [meant EXCEPT !.headers = Append(@, f)])

setBody(text) == Handler(SetBody(response, text), [meant EXCEPT !.body = text])

setBodyCallback(chunks) ==
  Handler([response EXCEPT !.body = <<>>, !.chunked = TRUE, !.chunks = chunks],
          [meant EXCEPT !.body = Flat(chunks)])

connectionShouldBeClosed ==
  Handler([response EXCEPT !.close = TRUE], meant)

\* Connection::sendContinue; the handler goes on when it is written.  Bound: once a
\* request.
sendContinue ==
  /\ server = "handling" /\ asked.by = "client"
  /\ ~meant.continued
  /\ response' = [SetBody(response, <<>>) EXCEPT !.code = "Continue"]
  /\ meant' = [meant EXCEPT !.code = "Continue", !.body = <<>>, !.continued = TRUE]
  /\ writing' = Written(response') /\ server' = "interim"
  /\ UNCHANGED <<parser, asked, pending, parsed, down, curl, client, spoilt, requests>>

\* The responses which have no body, whatever their head says.
Bodiless(code) ==
  asked.head.method = <<"H", "E", "A", "D">> \/ code \in {"NoContent", "Continue"}

sendResponse ==
  /\ server = "handling"
  /\ Send(response)
  /\ spoilt' = (spoilt \/ (Bodiless(meant.code) /\ (response.chunked \/ meant.body # <<>>)))
  /\ UNCHANGED <<parser, asked, pending, parsed, response, down, curl, client, meant,
                 requests>>

\* Connection::recycle, and Connection::start for the next request.
recycle ==
  /\ writing' = <<>>
  /\ server' = IF response.close THEN "closed"
               ELSE IF response.code # "Continue" THEN "reading" ELSE "left"
  /\ response' = CASE server' = "closed" -> NewResponse
                   [] server' = "reading" -> clear(response)
                   [] OTHER -> response

\* write_chunk: the callback gives the next chunk, an empty one at the end.
write_chunk ==
  IF response.chunks = <<>>
  THEN /\ writing' = END_OF_STREAM_MARKER /\ server' = "end"
       /\ UNCHANGED response
  ELSE /\ writing' = Chunk(Head(response.chunks)) /\ server' = "chunk"
       /\ response' = [response EXCEPT !.chunks = Tail(@)]

\* The completion handlers of the writes.
WriteDone ==
  /\ server \in {"interim", "head", "chunk", "whole", "end"}
  /\ down' = down \o writing
  /\ CASE server = "interim" -> server' = "handling" /\ writing' = <<>> /\ UNCHANGED response
       [] server \in {"head", "chunk"} -> write_chunk
       [] OTHER -> recycle
  /\ UNCHANGED <<parser, asked, pending, parsed, curl, client, meant, spoilt, requests>>

\* A write fails: the peer has some of it, connection_error destroys the connection.
WriteFails ==
  /\ server \in {"interim", "head", "chunk", "whole", "end"}
  /\ \E n \in 0..Len(writing) : down' = down \o SubSeq(writing, 1, n)
  /\ writing' = <<>> /\ server' = "closed" /\ response' = NewResponse
  /\ UNCHANGED <<parser, asked, pending, parsed, curl, client, meant, spoilt, requests>>

----------------------------------------------------------------------------
(* The client and libcurl                                                  *)

\* addUrlVariable, of the variables a user gives: the value is encoded.
addUrlVariable(v) == [name |-> v[1], equals |-> TRUE, value |-> url_encode(v[2])]

\* Connection::configureRequest: the head libcurl sends, and what is kept.
configureRequest(q) ==
  [by |-> "client", vars |-> q.vars, follow |-> q.follow_redirect,
   expect_continue |-> q.multipart,
   head |-> [method |-> q.method, uri |-> <<"/">>, headers |-> <<>>,
             params |-> [i \in DOMAIN q.vars |-> addUrlVariable(q.vars[i])]]]

\* A request of any other peer, with the head it spells.
PeerRequest(h) ==
  [by |-> "peer", vars |-> <<>>, follow |-> FALSE, expect_continue |-> FALSE, head |-> h]

NoHead == [method |-> <<>>, uri |-> <<>>, params |-> <<>>, headers |-> <<>>]

Idle == [phase |-> "idle", code |-> "Ok", left |-> 0, chunked |-> FALSE, location |-> FALSE,
         redirects |-> 0, keep |-> FALSE]
NewClient == [header |-> <<>>, buffer |-> <<>>, outcome |-> "none",
              code |-> "Ok", body |-> <<>>, headers |-> <<>>]

\* Nothing was asked yet, or another peer has sent the only request of its connection.
Init ==
  /\ parser \in Parsers
  /\ \/ /\ parser = ClientParser
        /\ asked = PeerRequest(NoHead) /\ pending = FALSE
        /\ server = "closed" /\ curl = Idle /\ requests = 0
     \/ /\ \E h \in PeerRequests : asked = PeerRequest(h)
        /\ pending = TRUE
        /\ server = "reading" /\ curl = [Idle EXCEPT !.phase = "status"]
        /\ requests = MaxRequests
  /\ parsed = [ok |-> FALSE]
  /\ response = NewResponse /\ writing = <<>> /\ down = <<>>
  /\ client = NewClient /\ meant = NoMeaning /\ spoilt = FALSE

\* libcurl uses the kept connection again when nothing came from it, or opens one.
Connect(kept) ==
  IF kept /\ server # "closed" /\ down = <<>>
  THEN UNCHANGED <<server, response, writing, down, spoilt>>
  ELSE /\ server' = "reading" /\ response' = NewResponse /\ writing' = <<>> /\ down' = <<>>
       /\ spoilt' = FALSE

\* HttpClient::handle_request: a Connection of its own for every request.
handle_request ==
  /\ curl.phase = "idle" /\ requests < MaxRequests
  /\ \E q \in ClientRequests : asked' = configureRequest(q)
  /\ pending' = TRUE /\ requests' = requests + 1
  /\ curl' = [Idle EXCEPT !.phase = "status", !.keep = curl.keep]
  /\ client' = NewClient
  /\ Connect(curl.keep)
  /\ UNCHANGED <<parser, parsed, meant>>

\* libcurl, for the next item i of the stream.
Receive(c, i) ==
  CASE c.phase = "status" /\ i.kind = "status" ->
         [c EXCEPT !.phase = "fields", !.code = i.v, !.left = 0, !.chunked = FALSE,
                   !.location = FALSE]
    [] c.phase = "fields" /\ i.kind = "field" ->
         CASE i.v[1] = "Content-Length"    -> [c EXCEPT !.left = i.v[2]]
           [] i.v[1] = "Transfer-Encoding" -> [c EXCEPT !.chunked = TRUE]
           [] i.v[1] = "Location"          -> [c EXCEPT !.location = TRUE]
           [] OTHER                        -> c
    [] c.phase = "fields" /\ i.kind = "blank" ->
         [c EXCEPT !.phase = IF c.code = "Continue" THEN "status"
                             ELSE IF Bodiless(c.code) THEN "done"
                             ELSE IF c.chunked THEN "size"
                             ELSE IF c.left = 0 THEN "done" ELSE "data"]
    [] c.phase = "data" /\ i.kind = "data" /\ c.left > 0 ->
         [c EXCEPT !.left = @ - 1,
                   !.phase = IF c.left > 1 THEN "data" ELSE IF c.chunked THEN "crlf" ELSE "done"]
    [] c.phase = "size" /\ i.kind = "size" ->
         [c EXCEPT !.left = i.v, !.phase = IF i.v = 0 THEN "last" ELSE "data"]
    [] c.phase = "crlf" /\ i.kind = "crlf" -> [c EXCEPT !.phase = "size"]
    [] c.phase = "last" /\ i.kind = "crlf" -> [c EXCEPT !.phase = "done"]
    [] OTHER -> [c EXCEPT !.phase = "confused"]

\* libcurl follows the response.
Followed(c) == asked.follow /\ c.code = "Redirect" /\ c.location

\* The callbacks writeHd and writefn; the body of a redirection is not handed over.
writeHd(header, i) == IF i.kind \in {"status", "field", "blank"} THEN Append(header, i) ELSE header
writefn(buffer, c, i) ==
  IF i.kind = "data" /\ ~Followed(c) THEN Append(buffer, i.v) ELSE buffer

\* libcurl takes the next item of what has come.
CurlReads ==
  /\ curl.phase \notin {"idle", "done", "confused"} /\ down # <<>>
  /\ curl' = Receive(curl, Head(down)) /\ down' = Tail(down)
  /\ client' = IF curl'.phase = "confused" THEN client
               ELSE [client EXCEPT !.header = writeHd(@, Head(down)),
                                   !.buffer = writefn(@, curl, Head(down))]
  /\ UNCHANGED <<parser, asked, pending, parsed, server, response, writing, meant, spoilt,
                 requests>>

\* CURLOPT_FOLLOWLOCATION: the request once more.
CurlRedirected ==
  /\ curl.phase = "done" /\ Followed(curl)
  /\ pending' = TRUE
  /\ curl' = [Idle EXCEPT !.phase = "status", !.redirects = curl.redirects + 1, !.keep = TRUE]
  /\ Connect(TRUE)
  /\ UNCHANGED <<parser, asked, parsed, client, meant, requests>>

\* buildResponse: n heads, or as many as there are, are taken off the front.
Blanks(header) == {i \in DOMAIN header : header[i].kind = "blank"}
WithoutHeads(header, n) ==
  LET ends == {e \in Blanks(header) : Cardinality(Blanks(header) \cap 1..e) <= n}
  IN SubSeq(header, Max(ends \cup {0}) + 1, Len(header))

Skipped ==
  (IF asked.follow THEN curl.redirects ELSE 0) + (IF asked.expect_continue THEN 1 ELSE 0)

\* parseCurlResponseHeader: the fields up to the first blank line.
parseCurlResponseHeader(header) ==
  IF header = <<>> THEN <<>>
  ELSE [i \in 1..(Min(Blanks(header)) - 2) |-> header[i + 1].v]

buildResponse ==
  /\ curl.phase = "done" /\ ~Followed(curl)
  /\ client' = [client EXCEPT
       !.outcome = "response", !.code = curl.code, !.body = client.buffer,
       !.headers = parseCurlResponseHeader(WithoutHeads(client.header, Skipped))]
  /\ curl' = [curl EXCEPT !.phase = "idle", !.keep = TRUE]
  /\ UNCHANGED <<parser, asked, pending, parsed, server, response, writing, down, meant,
                 spoilt, requests>>

\* buildResponse with an error, RequestTimeout or RequestError; libcurl closes the
\* connection, which is not followed any further.
Failed(outcome) ==
  /\ client' = [NewClient EXCEPT !.outcome = outcome]
  /\ curl' = Idle /\ pending' = FALSE
  /\ server' = "closed" /\ response' = NewResponse /\ writing' = <<>> /\ down' = <<>>
  /\ meant' = NoMeaning /\ spoilt' = FALSE
  /\ UNCHANGED <<parser, asked, parsed, requests>>

\* The end of the stream, or an answer libcurl cannot read.
TransferFails ==
  /\ \/ curl.phase = "confused"
     \/ curl.phase \notin {"idle", "done"} /\ server = "closed" /\ down = <<>>
  /\ Failed("error")

TimesOut ==
  /\ curl.phase \notin {"idle", "done", "confused"}
  /\ Failed("timeout")

----------------------------------------------------------------------------

Next ==
  \/ handle_request \/ read_request
  \/ \E c \in Codes : setCode(c)
  \/ \E f \in Fields : addHeader(f)
  \/ \E t \in Texts : setBody(t)
  \/ \E cs \in Chunkings : setBodyCallback(cs)
  \/ connectionShouldBeClosed \/ sendContinue \/ sendResponse
  \/ WriteDone \/ WriteFails
  \/ CurlReads \/ CurlRedirected \/ buildResponse \/ TransferFails \/ TimesOut

Spec == Init /\ [][Next]_vars
\* The threads of both sides run: writes complete, and libcurl reads what has come.
\* Nothing is assumed of the handler, which may never answer.
Progress == WriteDone \/ CurlReads \/ buildResponse \/ TransferFails

Fairness == WF_vars(Progress)

FairSpec == Spec /\ Fairness

----------------------------------------------------------------------------
(* Properties.                                                             *)

\* Whichever parser is built in, a head that a peer spells in any of its ways reaches
\* the handler as the request it means, to the last character of the head and not
\* beyond: parameters without "=", without a name or a value, with escapes, spaces
\* around the colon, empty header values in front of another header or of the blank
\* line.  One thing is asked of the peer where the stream parser is built in: a name
\* without "=" has no escape, which that parser leaves as it is and ragel decodes; the
\* rest of such a head is read as meant.  The variables a user gave to the client are
\* what the handler reads.  A head with an unknown method is refused.
HeadsRead ==
  /\ response.code = "BadRequest" => asked.head.method \notin Methods
  /\ server = "handling" =>
       LET r == parsed.request
           read == [r EXCEPT !.query_params =
                      [i \in DOMAIN @ |-> <<@[i][1], string(parser, @[i][2])>>]]
           means == Meaning(asked.head)
       IN /\ [read EXCEPT !.query_params = <<>>] = [means EXCEPT !.query_params = <<>>]
          /\ (parser = "stream" => PlainNames(asked.head)) => read = means
          /\ parsed.consumed = Len(Render(asked.head))
          /\ asked.by = "client" => read.query_params = asked.vars

\* A lookup in the sorted parameters or headers finds a value that was sent under the
\* key, whichever way std::sort has put equal keys, and nothing for a key that was not.
LookupFinds ==
  server = "handling" =>
    \A s \in {parsed.request.query_params, parsed.request.headers} :
      \A t \in SortedVectorKP(s), k \in {<<>>, <<"a">>, <<"a", "b">>, <<"b">>} :
        LET sent == {s[i][2] : i \in {j \in DOMAIN s : s[j][1] = k}}
        IN find(t, k) \in (IF sent = {} THEN {<<>>} ELSE sent)

\* A response that the client returns has the code the handler has set for this
\* request and the whole of the body it gave, as a text or in chunks: nothing of an
\* earlier response of the connection, nothing of an interim response, and never a
\* part of a body whose write has failed.
ResponsesRead ==
  client.outcome = "response" =>
    /\ client.code = meant.code
    /\ client.body = IF Bodiless(meant.code) THEN <<>> ELSE meant.body

\* The headers of the client's response are the ones the handler has added, when one
\* head came for every redirection that was followed and one for the interim response
\* that a multipart request expects (buildResponse takes off as many).
HeadersRead ==
  client.outcome = "response" =>
    LET heads == Cardinality(Blanks(client.header))
        Added(f) == f[1] \notin {"Content-Length", "Transfer-Encoding"}
    IN heads = 1 + curl.redirects + (IF asked.expect_continue THEN 1 ELSE 0)
         => SelectSeq(client.headers, Added) = meant.headers

\* The stream stays framed: what comes behind a response is the next one, as long as
\* no response to a HEAD request, and none whose code has no content, was given a body.
FramingIntact == curl.phase = "confused" => spoilt

\* A response that is sent, other than an interim one and a redirection, reaches the
\* client or ends in an error.
Completes ==
  (server \in {"whole", "head"} /\ response.code \notin {"Continue", "Redirect"}
     /\ curl.phase # "idle")
    ~> client.outcome # "none"
=============================================================================
