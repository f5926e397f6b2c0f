---------------------------- MODULE RequestParser ----------------------------
(***************************************************************************)
(* The two parsers of a request head, Parser::parse, and the lookup of     *)
(* what they have read.  The library is built with one of them:            *)
(*   - the machine ragel generates from parser.rl, a table of transitions  *)
(*     between the states of parser_ragel.cpp.  It marks the beginning of  *)
(*     a token with token_begin and may follow two readings at a time: a   *)
(*     line behind an empty header value may be a header or a value;       *)
(*   - the hand-written parser over an istream, by recursive descent.      *)
(* A head is a sequence of characters; "%20" stands for an escaped space.  *)
(***************************************************************************)
EXTENDS Naturals, Sequences, SequencesExt, FiniteSetsExt, TLC

Spaces  == {" ", "\t", "\r", "\n"}
Digits  == {"0", "1"}
Letters == {"A", "C", "D", "E", "G", "H", "I", "L", "N", "O", "P", "R", "S", "T", "U",
            "a", "b"}
Ident   == Letters \cup Digits \cup {"-"}
Chars   == Ident \cup Spaces \cup {"/", ".", ":", "?", "&", "=", "%20"}

Digit(c) == IF c = "1" THEN 1 ELSE 0

\* UTILS::url_decode and url_encode, of commonpp.
url_decode(s) == [i \in DOMAIN s |-> IF s[i] = "%20" THEN " " ELSE s[i]]
url_encode(s) == [i \in DOMAIN s |-> IF s[i] = " " THEN "%20" ELSE s[i]]

\* The methods in the order in which method_from compares them.
APPLY_ON_METHOD ==
  << <<"H", "E", "A", "D">>, <<"G", "E", "T">>, <<"P", "O", "S", "T">>,
     <<"P", "U", "T">>, <<"D", "E", "L", "E", "T", "E">>,
     <<"O", "P", "T", "I", "O", "N", "S">>, <<"T", "R", "A", "C", "E">>,
     <<"C", "O", "N", "N", "E", "C", "T">> >>

Methods == Range(APPLY_ON_METHOD)

\* method_from: the first method that w has at i.
method_from(w, i) ==
  SelectInSeq(APPLY_ON_METHOD, LAMBDA m : IsPrefix(m, SubSeq(w, i, Len(w))))

\* Request: what the parsers fill in.
NoRequest ==
  [method |-> <<>>, uri |-> <<>>, query_params |-> <<>>, major |-> 0, minor |-> 0,
   headers |-> <<>>]

----------------------------------------------------------------------------
(* The ragel machine: [from, on, do, to] is a transition on the characters *)
(* on, which runs the actions do and enters the state to.                  *)

On(from, chars, actions, to) == [from |-> from, on |-> chars, do |-> actions, to |-> to]
Word(states, letters) ==
  {On(states[i], {letters[i]}, <<>>, states[i + 1]) : i \in DOMAIN letters}

connect_method ==
  {On(1, {"C"}, <<"start_method">>, 2), On(1, {"D"}, <<"start_method">>, 41),
   On(1, {"G"}, <<"start_method">>, 46), On(1, {"H"}, <<"start_method">>, 47),
   On(1, {"O"}, <<"start_method">>, 50), On(1, {"P"}, <<"start_method">>, 56),
   On(1, {"T"}, <<"start_method">>, 58), On(7, {"T"}, <<"end_method">>, 8)}
  \cup Word(<<2, 3, 4, 5, 6, 7>>, <<"O", "N", "N", "E", "C">>)

delete_method ==
  {On(45, {"E"}, <<"end_method">>, 8), On(46, {"E"}, <<>>, 7),
   On(49, {"D"}, <<"end_method">>, 8)}
  \cup Word(<<41, 42, 43, 44, 45>>, <<"E", "L", "E", "T">>)
  \cup Word(<<47, 48, 49>>, <<"E", "A">>)

options_method ==
  {On(55, {"S"}, <<"end_method">>, 8), On(56, {"O"}, <<>>, 57), On(56, {"U"}, <<>>, 7),
   On(57, {"S"}, <<>>, 7)}
  \cup Word(<<50, 51, 52, 53, 54, 55>>, <<"P", "T", "I", "O", "N">>)
  \cup Word(<<58, 59, 60, 45>>, <<"R", "A", "C">>)

path ==
  {On(8, Spaces, <<>>, 9),
   On(9, Chars \ (Spaces \cup {"?"}), <<"start_path">>, 10),
   On(10, Spaces, <<"end_path">>, 11), On(10, {"?"}, <<"end_path">>, 37),
   On(10, Chars \ (Spaces \cup {"?"}), <<>>, 10)}

query_variable ==
  {On(37, Spaces, <<"start_qkey", "end_qkey">>, 11),
   On(37, {"&"}, <<"start_qkey", "end_qkey">>, 37),
   On(37, {"="}, <<"start_qkey", "end_qkey">>, 39),
   On(37, Chars \ (Spaces \cup {"&", "="}), <<"start_qkey">>, 38),
   On(38, Spaces, <<"end_qkey">>, 11), On(38, {"&"}, <<"end_qkey">>, 37),
   On(38, {"="}, <<"end_qkey">>, 39), On(38, Chars \ (Spaces \cup {"&", "="}), <<>>, 38)}

query_value ==
  {On(39, Spaces, <<"start_qvalue", "end_qvalue">>, 11),
   On(39, {"&"}, <<"start_qvalue", "end_qvalue">>, 37),
   On(39, Chars \ (Spaces \cup {"&"}), <<"start_qvalue">>, 40),
   On(40, Spaces, <<"end_qvalue">>, 11), On(40, {"&"}, <<"end_qvalue">>, 37),
   On(40, Chars \ (Spaces \cup {"&"}), <<>>, 40)}

http_version ==
  Word(<<11, 12, 13, 14, 15, 16>>, <<"H", "T", "T", "P", "/">>)
  \cup {On(16, Digits, <<"major">>, 17), On(17, {"."}, <<>>, 18),
        On(18, Digits, <<"minor">>, 19), On(19, {"\r"}, <<>>, 20), On(20, {"\n"}, <<>>, 21)}

\* A header or the blank line; the states 61 to 63 are final.
headers ==
  {On(21, {"\r"}, <<>>, 22), On(21, Ident, <<"start_key">>, 23), On(22, {"\n"}, <<>>, 61)}

key ==
  {On(23, Spaces, <<"end_key">>, 24), On(23, {":"}, <<"end_key">>, 25),
   On(23, Ident, <<>>, 23), On(24, Spaces, <<>>, 24), On(24, {":"}, <<>>, 25)}

value ==
  {On(25, {"\r"}, <<"start_value">>, 29),
   On(25, Spaces \ {"\r"}, <<"start_value">>, 28),
   On(25, Chars \ Spaces, <<"start_value">>, 26),
   On(26, {"\r"}, <<"end_value">>, 27), On(26, Chars \ {"\r"}, <<>>, 26),
   On(27, {"\n"}, <<>>, 21), On(27, {"\r"}, <<"end_value">>, 27),
   On(27, Chars \ {"\r", "\n"}, <<>>, 26)}

\* Each space in front of a value may be its first character: the mark moves on.
spaces_before_value ==
  {On(s, {"\r"}, <<"start_value", "end_value">>, 29) : s \in {28, 29}}
  \cup {On(s, Chars \ Spaces, <<"start_value">>, 26) : s \in {28, 29}}
  \cup {On(28, Spaces \ {"\r"}, <<"start_value">>, 28),
        On(29, Spaces \ {"\r", "\n"}, <<"start_value">>, 28),
        On(29, {"\n"}, <<"start_value">>, 30)}

\* Behind the end of a line that had no value: the value may still come.
AfterEmptyValue(s) ==
  {On(s, {"\r"}, <<"start_value", "end_value">>, 31),
   On(s, Spaces \ {"\r"}, <<"start_value">>, 28),
   On(s, Ident, <<"start_value", "start_key">>, 32),
   On(s, Chars \ (Spaces \cup Ident), <<"start_value">>, 26)}

line_after_empty_value == AfterEmptyValue(30)

blank_line_after_empty_value ==
  {On(31, {"\n"}, <<"start_value">>, 62),
   On(31, {"\r"}, <<"start_value", "end_value">>, 29),
   On(31, Spaces \ {"\r", "\n"}, <<"start_value">>, 28),
   On(31, Chars \ Spaces, <<"start_value">>, 26)}
  \cup AfterEmptyValue(62)

\* Mutant: the key is not recorded when its line could have been a value.
key_or_value_lost ==
  {On(32, {"\r"}, <<"end_key", "end_value">>, 34),
   On(32, Spaces \ {"\r"}, <<"end_key">>, 33), On(32, {":"}, <<>>, 28),
   On(32, Ident, <<>>, 32), On(32, Chars \ (Spaces \cup Ident \cup {":"}), <<>>, 26)}

key_or_value ==
  {On(32, {"\r"}, <<"end_key", "end_value">>, 34),
   On(32, Spaces \ {"\r"}, <<"end_key">>, 33), On(32, {":"}, <<"end_key">>, 28),
   On(32, Ident, <<>>, 32), On(32, Chars \ (Spaces \cup Ident \cup {":"}), <<>>, 26)}

after_key_or_value ==
  {On(s, {"\r"}, <<"end_value">>, 34) : s \in {33, 34}}
  \cup {On(s, {":"}, <<>>, 28) : s \in {33, 34}}
  \cup {On(s, Chars \ (Spaces \cup {":"}), <<>>, 26) : s \in {33, 34}}
  \cup {On(33, Spaces \ {"\r"}, <<>>, 33), On(34, Spaces \ {"\r", "\n"}, <<>>, 33),
        On(34, {"\n"}, <<>>, 35)}

line_after_key_or_value ==
  {On(35, {"\r"}, <<>>, 36), On(35, Spaces \ {"\r"}, <<>>, 24), On(35, {":"}, <<>>, 25),
   On(35, Ident, <<"start_key">>, 23),
   On(36, {"\n"}, <<>>, 63), On(36, Spaces \ {"\n"}, <<>>, 24), On(36, {":"}, <<>>, 25),
   On(63, Spaces, <<>>, 24), On(63, {":"}, <<>>, 25)}

Transitions ==
  UNION {connect_method, delete_method, options_method, path, query_variable,
         query_value, http_version, headers, key, value, spaces_before_value,
         line_after_empty_value, blank_line_after_empty_value, key_or_value,
         after_key_or_value, line_after_key_or_value}

http_first_final == 61
st0 == On(0, Chars, <<>>, 0)

Machine ==
  [s \in 1..63, c \in Chars |->
     LET ts == {t \in Transitions : t.from = s /\ c \in t.on}
     IN IF ts = {} THEN st0 ELSE CHOOSE t \in ts : TRUE]

\* TOKEN_REF; a token that was ended and not begun again is no part of the head.
Token(m, w) == IF m.token_begin = 0 THEN <<"wild">> ELSE SubSeq(w, m.token_begin, m.p - 1)

\* The actions of parser.rl.
Act(m, w, a) ==
  LET r == m.request
      t == Token(m, w)
      Ended(q) == [m EXCEPT !.request = q, !.token_begin = 0]
  IN CASE a \in {"start_method", "start_path", "start_key", "start_value", "start_qkey",
                 "start_qvalue"} -> [m EXCEPT !.token_begin = m.p]
       [] a = "end_method" ->
            Ended([r EXCEPT !.method = APPLY_ON_METHOD[method_from(w, m.token_begin)]])
       [] a = "end_path"   -> Ended([r EXCEPT !.uri = t])
       [] a = "end_qkey"   -> Ended([r EXCEPT !.query_params = Append(@, <<url_decode(t), <<>> >>)])
       [] a = "end_qvalue" -> Ended([r EXCEPT !.query_params[Len(r.query_params)][2] = t])
       [] a = "end_key"    -> Ended([r EXCEPT !.headers = Append(@, <<t, <<>> >>)])
       [] a = "end_value"  -> Ended([r EXCEPT !.headers[Len(r.headers)][2] = t])
       [] a = "major"      -> [m EXCEPT !.request.major = Digit(w[m.p])]
       [] a = "minor"      -> [m EXCEPT !.request.minor = Digit(w[m.p])]

\* One character; p stays at the one that has no transition.
Exec(m, w) ==
  LET t == Machine[m.cs, w[m.p]]
      n == FoldLeft(LAMBDA x, a : Act(x, w, a), m, t.do)
  IN [n EXCEPT !.cs = t.to, !.p = IF t.to = 0 THEN @ ELSE @ + 1]

\* The characters i to j, by halves; the machine stops in state 0 and in a final one.
RECURSIVE ExecAll(_, _, _, _)
ExecAll(m, w, i, j) ==
  IF i = j THEN Exec(m, w)
  ELSE LET n == ExecAll(m, w, i, (i + j) \div 2)
       IN IF n.cs = 0 \/ n.cs >= http_first_final THEN n
          ELSE ExecAll(n, w, (i + j) \div 2 + 1, j)

parse_ragel(w) ==
  LET m == ExecAll([cs |-> 1, p |-> 1, token_begin |-> 0, request |-> NoRequest], w, 1, Len(w))
  IN [ok |-> m.cs >= http_first_final, consumed |-> m.p - 1, request |-> m.request]

----------------------------------------------------------------------------
(* The parser over an istream: it is the position of the next character.   *)

Has(w, it, s) == IsPrefix(s, SubSeq(w, it, Len(w)))
HTTP_DELIMITER == <<"\r", "\n">>

\* The first position from it on with a character of charset, or the end.
consumeUntil(w, it, charset) ==
  Min({j \in it..Len(w) : w[j] \in charset} \cup {Len(w) + 1})

skipws(w, it) == consumeUntil(w, it, Chars \ Spaces)

\* parse_method: each case expects one word.
parse_method(w) ==
  LET ms == {m \in Methods : Has(w, 1, m)}
  IN IF ms = {} THEN <<>> ELSE CHOOSE m \in ms : TRUE

\* The loop of parse_uri, with the parameters it has read.
RECURSIVE parse_query(_, _, _)
parse_query(w, it, params) ==
  LET k == consumeUntil(w, it, {"&", "=", " "})
      equals == Has(w, k, <<"=">>)
      v == IF equals THEN consumeUntil(w, k + 1, {"&", " "}) ELSE k
      name == SubSeq(w, it, k - 1)
      read == Append(params, IF equals
                             THEN <<url_decode(name), url_decode(SubSeq(w, k + 1, v - 1))>>
                             ELSE <<name, <<>> >>)
  IN IF Has(w, v, <<"&">>) THEN parse_query(w, v + 1, read) ELSE [it |-> v, params |-> read]

\* parse_uri, with the position behind the uri and the query.
parse_uri(w, from) ==
  LET it == skipws(w, from)
      q == consumeUntil(w, it, {"?", " "})
      query == IF Has(w, q, <<"?">>) THEN parse_query(w, q + 1, <<>>)
               ELSE [it |-> q, params |-> <<>>]
  IN [uri |-> SubSeq(w, it, q - 1), params |-> query.params, it |-> query.it]

\* std::stoi, which throws when there is no digit.
IsNumber(s) == s # <<>> /\ Range(s) \subseteq Digits
stoi(s) == FoldLeft(LAMBDA n, c : 10 * n + Digit(c), 0, s)

\* parse_http_version and the end of the request line.
parse_http_version(w, from) ==
  LET it == skipws(w, from)
      dot == consumeUntil(w, it + 5, {"."})
      cr == consumeUntil(w, dot + 1, {"\r"})
      major == SubSeq(w, it + 5, dot - 1)
      minor == SubSeq(w, dot + 1, cr - 1)
  IN IF /\ Has(w, it, <<"H", "T", "T", "P", "/">>) /\ Has(w, cr, HTTP_DELIMITER)
        /\ IsNumber(major) /\ IsNumber(minor)
     THEN [ok |-> TRUE, major |-> stoi(major), minor |-> stoi(minor), it |-> cr + 2]
     ELSE [ok |-> FALSE]

\* The loop of parse_headers, with the headers it has read.
RECURSIVE parse_headers(_, _, _)
parse_headers(w, it, hs) ==
  LET k == consumeUntil(w, it, {":", " ", "\r"})
      colon == skipws(w, k)
      v == consumeUntil(w, colon + 1, Chars \ {" "})
      cr == consumeUntil(w, v, {"\r"})
      h == <<SubSeq(w, it, k - 1), SubSeq(w, v, cr - 1)>>
  IN IF k = it THEN [ok |-> k <= Len(w), it |-> it, headers |-> hs]
     ELSE IF ~Has(w, colon, <<":">>) \/ ~Has(w, cr, HTTP_DELIMITER)
     THEN [ok |-> FALSE, it |-> it, headers |-> hs]
     ELSE parse_headers(w, cr + 2, Append(hs, h))

\* Parser::parse; the last increment has taken the "\n" out of the stream.
parse_stream(w) ==
  LET method == parse_method(w)
      uri == parse_uri(w, Len(method) + 1)
      version == parse_http_version(w, uri.it)
      hs == parse_headers(w, version.it, <<>>)
  IN IF method = <<>> \/ uri.it > Len(w) \/ ~version.ok
     THEN [ok |-> FALSE, consumed |-> 0, request |-> NoRequest]
     ELSE [ok |-> hs.ok /\ Has(w, hs.it, HTTP_DELIMITER),
           consumed |-> hs.it + 1,
           request |-> [method |-> method, uri |-> uri.uri, query_params |-> uri.params,
                        major |-> version.major, minor |-> version.minor,
                        headers |-> hs.headers]]

----------------------------------------------------------------------------
(* What a handler reads.                                                   *)

\* Parser::parse of the build, and the values as LazyDecodedValue::string gives them.
Parsers == {"ragel", "stream"}
parse(parser, w) == IF parser = "ragel" THEN parse_ragel(w) ELSE parse_stream(w)
string(parser, v) == IF parser = "ragel" THEN url_decode(v) ELSE v

\* The order of keys: operator< of std::string on the names the instances use.
Less(a, b) ==
  \E i \in 1..Len(b) :
     /\ Len(a) >= i - 1 /\ SubSeq(a, 1, i - 1) = SubSeq(b, 1, i - 1)
     /\ Len(a) >= i => a[i] = "a" /\ b[i] = "b"

\* std::sort, which is not stable, of the copy SortedVectorKP makes.
SortedVectorKP(s) ==
  {t \in {[i \in DOMAIN s |-> s[f[i]]] : f \in Permutations(DOMAIN s)} :
     \A i, j \in DOMAIN t : i < j => ~Less(t[j][1], t[i][1])}

\* Mutant: the element lower_bound has found is taken for the key.
find_unchecked(s, k) ==
  LET I == {i \in DOMAIN s : ~Less(s[i][1], k)}
  IN IF I = {} THEN <<>> ELSE s[Min(I)][2]

find(s, k) ==
  LET I == {i \in DOMAIN s : ~Less(s[i][1], k)}
  IN IF I = {} \/ s[Min(I)][1] # k THEN <<>> ELSE s[Min(I)][2]

----------------------------------------------------------------------------
(* The reference: a request and how a peer spells it.  Each parameter has  *)
(* a name and, behind "=", a value; a header may have spaces on both sides *)
(* of the colon.                                                           *)

Spaced(n) == [i \in 1..n |-> " "]
Spell(p) == p.name \o (IF p.equals THEN <<"=">> \o p.value ELSE <<>>)
Query(ps) ==
  IF ps = <<>> THEN <<>>
  ELSE FoldLeft(LAMBDA s, p : s \o <<"&">> \o Spell(p), <<"?">> \o Spell(Head(ps)), Tail(ps))
Line(h) == h.name \o Spaced(h.before) \o <<":">> \o Spaced(h.after) \o h.value \o HTTP_DELIMITER

Render(r) ==
  r.method \o <<" ">> \o r.uri \o Query(r.params)
  \o <<" ", "H", "T", "T", "P", "/", "1", ".", "1", "\r", "\n">>
  \o FoldLeft(LAMBDA s, h : s \o Line(h), <<>>, r.headers) \o HTTP_DELIMITER

\* What the request means, whichever parser reads it.
Meaning(r) ==
  [method |-> r.method, uri |-> r.uri, major |-> 1, minor |-> 1,
   query_params |-> [i \in DOMAIN r.params |->
     LET p == r.params[i]
     IN <<url_decode(p.name), IF p.equals THEN url_decode(p.value) ELSE <<>> >>],
   headers |-> [i \in DOMAIN r.headers |-> <<r.headers[i].name, r.headers[i].value>>]]

\* No name without "=" has an escape in it.
PlainNames(r) ==
  \A i \in DOMAIN r.params :
    LET p == r.params[i] IN p.equals \/ url_decode(p.name) = p.name
=============================================================================
