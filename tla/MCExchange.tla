------------------------------ MODULE MCExchange ------------------------------
(* An instance of Exchange for TLC.                                         *)
EXTENDS Exchange

GET  == <<"G", "E", "T">>
HEAD == <<"H", "E", "A", "D">>
POST == <<"P", "O", "S", "T">>

UserRequest(method, vars_, follow, multipart) ==
  [method |-> method, vars |-> vars_, follow_redirect |-> follow, multipart |-> multipart]

MCClientRequests ==
  {UserRequest(GET, << <<<<"a">>, <<"b", " ">> >>, <<<<"b">>, <<>> >> >>, TRUE, FALSE),
   UserRequest(HEAD, <<>>, FALSE, FALSE),
   UserRequest(POST, <<>>, TRUE, TRUE)}

AtMost(S, n) == UNION {[1..k -> S] : k \in 0..n}

Params ==
  [name : {<<>>, <<"a">>, <<"b", "%20">>}, equals : {TRUE},
   value : {<<>>, <<"a">>, <<"=">>, <<"%20", "b">>}]
  \cup [name : {<<>>, <<"a">>, <<"b", "%20">>}, equals : {FALSE}, value : {<<>>}]

Headers ==
  [name : {<<"a">>, <<"b", "-">>}, before : 0..1, after : {0, 2},
   value : {<<>>, <<"a">>, <<"b", " ", ":">>}]

\* Every method with every parameter; pairs of parameters, pairs of headers, and a
\* parameter with a header.
MCPeerRequests ==
  [method : Methods \cup {<<"G", "A">>}, uri : {<<"/", "a">>}, params : AtMost(Params, 1),
   headers : {<<>>}]
  \cup [method : {GET}, uri : {<<"/">>}, params : AtMost(Params, 2), headers : {<<>>}]
  \cup [method : {GET}, uri : {<<"/">>}, params : {<<>>}, headers : AtMost(Headers, 2)]
  \cup [method : {GET}, uri : {<<"/">>}, params : AtMost(Params, 1), headers : AtMost(Headers, 1)]

MCFields == {<<"Location", "u">>}
MCTexts == {<<"x", "y">>}
MCChunkings == {<<>>, << <<"x">>, <<"y", "z">> >>}
===============================================================================
