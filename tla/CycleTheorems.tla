--------------------------- MODULE CycleTheorems ---------------------------
(***************************************************************************)
(* What CycleProofs gives for RequestCycle: the bytes of a connection, the *)
(* bodies and the heads its handlers see, the order of its requests and    *)
(* the room its reads have.                                                *)
(***************************************************************************)
EXTENDS CycleProofs, FiniteSetTheorems, WellFoundedInduction

----------------------------------------------------------------------------
(* The ends of the requests.                                               *)

\* A set of numbers that is not empty has a least element.
LEMMA Least ==
  ASSUME NEW T, T \subseteq Nat, T # {}
  PROVE  \E x \in T : \A y \in T : ~(y < x)
  <1>1. \E x \in T : \A y \in T : ~(<<y, x>> \in OpToRel(<, Nat))
    BY NatLessThanWellFounded, WFMin, Zenon
  <1>2. PICK x \in T : \A y \in T : ~(<<y, x>> \in OpToRel(<, Nat))
    BY <1>1, Zenon
  <1>3. \A y \in T : y < x => <<y, x>> \in OpToRel(<, Nat)
    BY DEF OpToRel
  <1> QED BY <1>2, <1>3, Zenon

\* f is what End computes for the first n requests.
Sums(s, f, n) ==
  /\ f \in [0..n -> Nat] /\ f[0] = 0
  /\ \A i \in 1..n : f[i] = f[i - 1] + s[i].head + s[i].length

\* There is such a function.
LEMMA SumsExist ==
  ASSUME NEW s, NEW n \in Nat, \A i \in 1..n : s[i].head \in Nat /\ s[i].length \in Nat
  PROVE  \E f : Sums(s, f, n)
  <1> DEFINE T == {m \in 0..n : ~\E f : Sums(s, f, m)}
  <1> SUFFICES ASSUME ~\E f : Sums(s, f, n) PROVE FALSE
    OBVIOUS
  <1>1. T \subseteq Nat /\ T # {}
    <2>1. n \in T
      OBVIOUS
    <2> QED BY <2>1
  <1>2. PICK m \in T : \A y \in T : ~(y < m)
    BY <1>1, Least, Zenon
  <1>3. m \in 0..n /\ ~\E f : Sums(s, f, m)
    BY Zenon
  <1>4. m # 0
    <2> DEFINE z == [i \in 0..0 |-> 0]
    <2>1. Sums(s, z, 0)
      BY DEF Sums
    <2> QED BY <1>3, <2>1, Zenon
  <1>5. m - 1 \in 0..n /\ m - 1 < m /\ m \in 1..n
    BY <1>3, <1>4
  <1>6. PICK f : Sums(s, f, m - 1)
    <2>1. m - 1 \notin T
      BY <1>2, <1>5, Zenon
    <2> QED BY <1>5, <2>1, Zenon
  <1> DEFINE e == f[m - 1] + s[m].head + s[m].length
             g == [i \in 0..m |-> IF i = m THEN e ELSE f[i]]
  <1>7. /\ f \in [0..(m - 1) -> Nat] /\ f[0] = 0
        /\ \A i \in 1..(m - 1) : f[i] = f[i - 1] + s[i].head + s[i].length
    BY <1>6, Zenon DEF Sums
  <1>8. e \in Nat
    <2>1. f[m - 1] \in Nat
      BY <1>3, <1>5, <1>7
    <2> QED BY <1>5, <2>1
  <1> HIDE DEF e
  <1>9. g \in [0..m -> Nat] /\ g[0] = 0
    BY <1>3, <1>4, <1>7, <1>8
  <1>10. ASSUME NEW i \in 1..m PROVE g[i] = g[i - 1] + s[i].head + s[i].length
    <2>1. i \in 0..m /\ i - 1 \in 0..m /\ i - 1 # m
      BY <1>3
    <2>2. g[i - 1] = f[i - 1] /\ g[i] = IF i = m THEN e ELSE f[i]
      BY <2>1, Zenon
    <2> HIDE DEF g
    <2>3. CASE i = m
      BY <2>2, <2>3, Zenon DEF e
    <2>4. CASE i # m
      <3>1. i \in 1..(m - 1)
        BY <1>3, <2>4
      <3> QED BY <1>7, <2>2, <2>4, <3>1, Zenon
    <2> QED BY <2>3, <2>4
  <1>11. Sums(s, g, m)
    BY <1>9, <1>10, Zenon DEF Sums
  <1> QED BY <1>3, <1>11, Zenon

\* The ends of the requests of a peer.
LEMMA EndsHold ==
  ASSUME NEW s \in Sents
  PROVE  Ends(s)
  <1> DEFINE n == Len(s)
             h(i) == s[i].head
             l(i) == s[i].length
  <1>1. n \in Nat /\ \A i \in 1..n : h(i) \in Nat \ {0} /\ l(i) \in Nat
    <2>1. PICK m \in 1..MaxMessages : s \in [1..m -> Messages]
      BY DEF Sents
    <2>2. n = m /\ n \in Nat
      BY <2>1, CycleAssumption
    <2> QED BY <2>1, <2>2, CycleAssumption
  <1>2. PICK f : Sums(s, f, n)
    <2>1. \A i \in 1..n : s[i].head \in Nat /\ s[i].length \in Nat
      BY <1>1
    <2> QED BY <1>1, <2>1, SumsExist, Zenon
  <1> DEFINE e == CHOOSE e : e = [i \in 0..n |->
                    IF i = 0 THEN 0 ELSE e[i - 1] + s[i].head + s[i].length]
  <1>3. \A k : End(s, k) = e[k]
    BY DEF End
  <1>4. f = [i \in 0..n |-> IF i = 0 THEN 0 ELSE f[i - 1] + s[i].head + s[i].length]
    <2>1. /\ f \in [0..n -> Nat] /\ f[0] = 0
          /\ \A i \in 1..n : f[i] = f[i - 1] + s[i].head + s[i].length
      BY <1>2, Zenon DEF Sums
    <2>2. \A i \in 0..n : f[i] = IF i = 0 THEN 0 ELSE f[i - 1] + s[i].head + s[i].length
      <3> SUFFICES ASSUME NEW i \in 0..n
                   PROVE  f[i] = IF i = 0 THEN 0 ELSE f[i - 1] + s[i].head + s[i].length
        OBVIOUS
      <3>1. i # 0 => i \in 1..n
        BY <1>1
      <3> QED BY <2>1, <3>1, Zenon
    <2> QED BY <2>1, <2>2, Zenon
  <1>5. e = [i \in 0..n |-> IF i = 0 THEN 0 ELSE e[i - 1] + s[i].head + s[i].length]
    BY <1>4, Zenon
  <1> HIDE DEF e
  <1>6. /\ e[0] = 0
        /\ \A i \in 1..n : e[i] = e[i - 1] + h(i) + l(i)
    BY <1>1, <1>5
  <1> HIDE DEF h, l
  <1>7. \A k \in 0..n : e[k] \in Nat
    <2> DEFINE T == {k \in 0..n : e[k] \notin Nat}
    <2> SUFFICES ASSUME T # {} PROVE FALSE
      BY Zenon
    <2>1. T \subseteq Nat
      BY <1>1
    <2>2. PICK k \in T : \A y \in T : ~(y < k)
      BY <2>1, Least, Zenon
    <2>3. k \in 0..n /\ e[k] \notin Nat
      BY Zenon
    <2>4. k \in 1..n /\ k - 1 \in 0..n /\ k - 1 < k
      BY <1>1, <1>6, <2>3
    <2>5. e[k - 1] \in Nat
      BY <2>2, <2>4, Zenon
    <2>6. e[k] = e[k - 1] + h(k) + l(k) /\ h(k) \in Nat \ {0} /\ l(k) \in Nat
      BY <1>1, <1>6, <2>4, Zenon
    <2> DEFINE b == e[k - 1]
               c == e[k]
               x == h(k)
               y == l(k)
    <2>7. c = b + x + y /\ x \in Nat \ {0} /\ y \in Nat /\ b \in Nat /\ c \notin Nat
      BY <2>3, <2>5, <2>6, Zenon
    <2> HIDE DEF b, c, x, y
    <2> QED BY <2>7
  <1>8. \A j, k \in 0..n : j < k => e[j] < e[k]
    <2> DEFINE T == {k \in 0..n : \E j \in 0..n : j < k /\ ~(e[j] < e[k])}
    <2> SUFFICES ASSUME T # {} PROVE FALSE
      BY Zenon
    <2>1. T \subseteq Nat
      BY <1>1
    <2>2. PICK k \in T : \A y \in T : ~(y < k)
      BY <2>1, Least, Zenon
    <2>3. PICK j \in 0..n : j < k /\ ~(e[j] < e[k])
      BY Zenon
    <2>4. k \in 1..n /\ k - 1 \in 0..n /\ k - 1 < k /\ (j = k - 1 \/ j < k - 1)
      BY <1>1, <2>3
    <2>5. j < k - 1 => e[j] < e[k - 1]
      BY <2>2, <2>4, Zenon
    <2>6. /\ e[k] = e[k - 1] + h(k) + l(k) /\ h(k) \in Nat \ {0} /\ l(k) \in Nat
          /\ e[k - 1] \in Nat /\ e[j] \in Nat
      BY <1>1, <1>6, <1>7, <2>4, Zenon
    <2>7. j = k - 1 => e[j] = e[k - 1]
      BY Zenon
    <2> DEFINE a == e[j]
               b == e[k - 1]
               c == e[k]
               x == h(k)
               y == l(k)
    <2>8. /\ c = b + x + y /\ x \in Nat \ {0} /\ y \in Nat /\ b \in Nat /\ a \in Nat
          /\ ~(a < c) /\ (a < b \/ a = b)
      BY <2>3, <2>4, <2>5, <2>6, <2>7, Zenon
    <2> HIDE DEF a, b, c, x, y
    <2> QED BY <2>8
  <1>9. \A k \in 1..Len(s) : End(s, k) = HeadOf(s, k) + s[k].length
    BY <1>3, <1>6, Zenon DEF HeadOf, h, l
  <1> QED BY <1>3, <1>6, <1>7, <1>8, <1>9, Zenon DEF Ends

----------------------------------------------------------------------------
(* The long heads.                                                         *)

\* The build with the stream parser is given no head longer than BUF_SIZE.
StreamShort == "stream" \in Backends => MaxLong["stream"] = 0

\* The build with the ragel parser is given one such head at most.
RagelOnce == "ragel" \in Backends => MaxLong["ragel"] <= 1

\* The parser and the requests of a connection, which no step changes.
Fixed ==
  backend \in Backends /\ sent \in Sents /\ Cardinality(LongHeads(Len(sent))) <= MaxLong[backend]

\* LongHeads is a finite set of numbers.
LEMMA LongFinite ==
  ASSUME sent \in Sents
  PROVE  /\ Len(sent) \in Nat /\ IsFiniteSet(LongHeads(Len(sent)))
         /\ Cardinality(LongHeads(Len(sent))) \in Nat
  <1>1. Len(sent) \in Nat
    BY CycleAssumption DEF Sents
  <1>2. IsFiniteSet(1..Len(sent))
    BY <1>1, FS_Interval
  <1>3. LongHeads(Len(sent)) \in SUBSET (1..Len(sent))
    BY DEF LongHeads
  <1>4. IsFiniteSet(LongHeads(Len(sent)))
    BY <1>2, <1>3, FS_Subset, Zenon
  <1> QED BY <1>1, <1>4, FS_CardinalityType, Zenon

\* A request of a peer.
LEMMA HeadNat ==
  ASSUME sent \in Sents, NEW k \in 1..Len(sent)
  PROVE  sent[k].head \in Nat /\ sent[k] \in Messages
  <1>1. Ends(sent)
    BY EndsHold, Zenon
  <1>2. sent[k].head \in Nat \ {0} /\ sent[k] \in Messages
    BY <1>1, OneMessage, Zenon
  <1> QED BY <1>2

\* Without long heads all are short.
LEMMA NoneLong ==
  ASSUME sent \in Sents, Cardinality(LongHeads(Len(sent))) <= 0
  PROVE  Short(sent, Len(sent))
  <1>1. LongHeads(Len(sent)) = {}
    <2>1. Cardinality(LongHeads(Len(sent))) = 0
      BY LongFinite
    <2> QED BY <2>1, LongFinite, FS_EmptySet, Zenon
  <1> SUFFICES ASSUME NEW k \in 1..Len(sent) PROVE sent[k].head <= BUF_SIZE
    BY Zenon DEF Short
  <1>2. ~(sent[k].head > BUF_SIZE)
    BY <1>1, Zenon DEF LongHeads
  <1>3. sent[k].head \in Nat /\ BUF_SIZE \in Nat
    BY HeadNat, CycleAssumption
  <1> QED BY <1>2, <1>3

\* With one long head at most there are no two of them.
LEMMA AtMostOne ==
  ASSUME sent \in Sents, Cardinality(LongHeads(Len(sent))) <= 1
  PROVE  OneLong(sent)
  <1> DEFINE S == LongHeads(Len(sent))
  <1>1. \A j, k \in S : j = k
    <2>1. IsFiniteSet(S) /\ (Cardinality(S) = 0 \/ Cardinality(S) = 1)
      BY LongFinite
    <2>2. S = {} \/ \E x : S = {x}
      BY <2>1, FS_EmptySet, FS_Singleton, Zenon
    <2> QED BY <2>2, Zenon
  <1> SUFFICES ASSUME NEW j \in 1..Len(sent), NEW k \in 1..Len(sent),
                      sent[j].head > BUF_SIZE, sent[k].head > BUF_SIZE
               PROVE  j = k
    BY Zenon DEF OneLong
  <1>2. j \in S /\ k \in S
    BY Zenon DEF LongHeads
  <1> QED BY <1>1, <1>2, Zenon

\* No step changes the parser or the requests.
LEMMA FixedStep ==
  Fixed /\ [Next]_vars => Fixed'
  <1> SUFFICES ASSUME Fixed, [Next]_vars PROVE Fixed'
    OBVIOUS
  <1>1. backend' = backend /\ sent' = sent
    <2>1. CASE UNCHANGED vars
      BY <2>1, Zenon DEF vars
    <2>2. ASSUME NEW k \in 1..Len(sent), RequestRead(k) PROVE backend' = backend /\ sent' = sent
      BY <2>2, Zenon DEF RequestRead
    <2>3. CASE start \/ RequestInvalid \/ ReadMore \/ ReadDone \/ ReadFails \/ Unroutable
               \/ HandleWithBody \/ HandlerAnswers \/ HandlerReadsWhole
      BY <2>3, Zenon DEF start, RequestInvalid, ReadMore, ReadDone, ReadFails, Unroutable,
         HandleWithBody, HandlerAnswers, HandlerReadsWhole
    <2>4. CASE HandlerReadsParts \/ WholeRead \/ ReadPart \/ PartRead \/ BodyReadFails
               \/ Sent \/ WriteFails
      BY <2>4, Zenon DEF HandlerReadsParts, WholeRead, ReadPart, PartRead, BodyReadFails,
         Sent, WriteFails
    <2> QED BY <2>1, <2>2, <2>3, <2>4, Zenon DEF Next, Step, Closed
  <1> QED BY <1>1, Zenon DEF Fixed, LongHeads

----------------------------------------------------------------------------
(* The theorems.                                                           *)

\* The initial states.
LEMMA CycleInit ==
  ASSUME StreamShort, Init
  PROVE  IInv /\ Fixed
  <1>1. /\ backend \in Backends /\ sent \in Sents
        /\ Cardinality(LongHeads(Len(sent))) <= MaxLong[backend]
        /\ received = 0 /\ taken = 0 /\ size = 0 /\ at = "start" /\ current = 0 /\ want = 0
        /\ body = <<>> /\ ignored = FALSE /\ answers = <<>>
        /\ request_buffer = Vector /\ body_buffer = Vector
    BY Zenon DEF Init, Sents
  <1>2. Fixed
    BY <1>1, Zenon DEF Fixed
  <1>3. Ends(sent)
    BY <1>1, EndsHold, Zenon
  <1>4. Len(sent) \in Nat
    BY <1>1, LongFinite, Zenon
  <1>5. End(sent, 0) = 0 /\ End(sent, Len(sent)) \in Nat
    BY <1>3, <1>4 DEF Ends
  <1>6. BufferOf(Vector, 0) /\ Vector.size = 0 /\ Len(Vector.mem) = 0
    BY DEF BufferOf, Vector
  <1>7. ~Refused
    BY <1>1 DEF Refused
  <1>8. Types
    <2>1. at \in {"start", "sending", "closed"} \cup Reading \cup Handling
      BY <1>1
    <2>2. /\ taken \in Nat /\ received \in Nat /\ taken <= received /\ size \in Nat
          /\ received <= End(sent, Len(sent)) /\ size <= Len(request_buffer.mem)
          /\ current \in 0..Len(sent) /\ want \in Nat
      <3>1. Len(request_buffer.mem) = 0
        BY <1>1, <1>6, Zenon
      <3> QED BY <1>1, <1>4, <1>5, <3>1
    <2>3. ignored \in BOOLEAN
      BY <1>1, Zenon
    <2>4. body \in Seq(Nat) /\ answers \in Seq(Codes)
      <3>1. <<>> \in Seq(Nat) /\ <<>> \in Seq(Codes)
        OBVIOUS
      <3> QED BY <1>1, <3>1, Zenon
    <2> QED BY <1>1, <1>6, <2>1, <2>2, <2>3, <2>4, Zenon DEF Types
  <1>9. /\ at \notin Reading /\ at \notin Handling /\ at \notin Bodily /\ ~Served
        /\ at # "sending" /\ at # "sink" /\ at # "reading" /\ at # "readingParts"
        /\ at # "readingWhole" /\ at \notin {"readingWhole", "readingParts"}
        /\ at \notin {"sink", "parts", "readingWhole"}
    BY <1>1 DEF Reading, Handling, Bodily, Served
  <1>10. Order
    <2>1. current = Len(answers)
      BY <1>1
    <2> QED BY <1>7, <1>9, <2>1, Zenon DEF Order
  <1>11. Place
    BY <1>1, <1>5, <1>9, Zenon DEF Place
  <1>12. Stream
    <2>1. Pends(body_buffer, taken, received) /\ ~(want > 0)
      BY <1>1, <1>6, NonePending
    <2> QED BY <1>9, <2>1, Zenon DEF Stream
  <1>13. Growth
    <2>1. backend = "stream" => Short(sent, Len(sent))
      BY <1>1, NoneLong, Zenon DEF StreamShort
    <2>2. Len(request_buffer.mem) \in {0, BUF_SIZE} /\ Len(body_buffer.mem) \in {0, BUF_SIZE}
      BY <1>1, <1>6
    <2> QED BY <1>9, <2>1, <2>2, Zenon DEF Growth
  <1>14. HeadThere
    BY <1>9, Zenon DEF HeadThere
  <1> QED BY <1>2, <1>3, <1>8, <1>10, <1>11, <1>12, <1>13, <1>14, Zenon DEF IInv

\* The inductive invariant: in every state the bytes that were received and not used are
\* in the buffer they belong to, the connection is where it says in the peer's requests,
\* and the vectors have the memory they need, however the peer's bytes are split over
\* reads and whatever the handlers do.
THEOREM CycleInvariance ==
  ASSUME StreamShort
  PROVE  Spec => []IInv
  <1>1. Init => IInv
    BY CycleInit, Zenon
  <1> QED BY <1>1, CycleStep, PTL DEF Spec

\* The parser and the requests stay the same.
LEMMA FixedInvariance ==
  ASSUME StreamShort
  PROVE  Spec => []Fixed
  <1>1. Init => Fixed
    BY CycleInit, Zenon
  <1> QED BY <1>1, FixedStep, PTL DEF Spec

\* Connection's buffers and fields keep their types.
THEOREM CycleTypes ==
  ASSUME StreamShort
  PROVE  Spec => []TypeOK
  <1>1. IInv => TypeOK
    <2> SUFFICES ASSUME IInv PROVE TypeOK
      OBVIOUS
    <2>1. /\ taken <= received /\ received <= MessageEnd(Len(sent))
          /\ current \in 0..Len(sent) /\ want \in Nat /\ ignored \in BOOLEAN
          /\ size <= Capacity(request_buffer)
      BY SameEnds, Zenon DEF IInv, Types, Capacity
    <2>2. at \in {"start", "read_request", "reading", "sink", "readingWhole", "parts",
                  "readingParts", "sending", "closed"}
      BY DEF IInv, Types, Reading, Handling
    <2>3. ASSUME NEW v \in {request_buffer, body_buffer}
          PROVE  v.size <= Capacity(v) /\ \A i \in 1..Capacity(v) : v.mem[i] <= received
      BY <2>3, Zenon DEF IInv, Types, BufferOf, Capacity
    <2> QED BY <2>1, <2>2, <2>3, Zenon DEF TypeOK
  <1> QED BY <1>1, CycleInvariance, PTL

\* No byte is lost, repeated, moved or overwritten between the socket, the parser, the
\* two buffers and the handlers, for every buffer size and every sequence of requests.
THEOREM BytesIntact ==
  ASSUME StreamShort
  PROVE  Spec => []StreamIntact
  <1>1. IInv => StreamIntact
    <2> SUFFICES ASSUME IInv, at # "closed", ~Refused, ~Eof
                 PROVE  Pending = Run(taken, received)
      BY DEF StreamIntact
    <2>1. /\ taken \in Nat /\ received \in Nat /\ size \in Nat /\ want \in Nat
          /\ taken <= received /\ BufferOf(request_buffer, received)
          /\ at \in {"start", "sending", "closed"} \cup Reading \cup Handling
      BY Zenon DEF IInv, Types
    <2>2. CASE at \in Reading
      <3>1. want = 0 /\ at \in {"read_request", "reading"}
        BY <2>1, <2>2 DEF Eof, Reading
      <3>2. size = received - taken /\ Holds(request_buffer.mem, size, taken)
        BY <2>2, <3>1, Zenon DEF IInv, Stream
      <3>3. request_buffer.mem \in Seq(Nat)
        BY <2>1 DEF BufferOf
      <3>4. Bytes = Run(taken, taken + size)
        BY <2>1, <3>2, <3>3, HeldFirst, Zenon DEF Bytes
      <3>5. taken + size = received
        BY <2>1, <3>2
      <3>6. Pending = Bytes
        BY <3>1 DEF Pending
      <3> QED BY <3>4, <3>5, <3>6, Zenon
    <2>3. CASE at = "readingParts"
      <3>1. received = taken
        BY <2>3 DEF IInv, Place
      <3>2. Run(taken, received) = <<>>
        BY <2>1, <3>1 DEF Run
      <3>3. Pending = <<>>
        BY <2>3 DEF Pending
      <3> QED BY <3>2, <3>3, Zenon
    <2>4. CASE at \notin Reading /\ at # "readingParts"
      <3>1. /\ at \in {"start", "sending"} \/ at \in {"sink", "parts", "readingWhole"}
            /\ at \notin {"read_request", "reading"}
        BY <2>1, <2>4 DEF Reading, Handling
      <3>2. at \in {"start", "sending"} => want = 0
        BY <2>1 DEF Eof
      <3>3. Pends(body_buffer, taken, received)
        BY <3>1, <3>2, Zenon DEF IInv, Stream
      <3>4. Pending = Content(body_buffer)
        BY <2>4, <3>1 DEF Pending
      <3> DEFINE s == body_buffer.size
      <3>5. /\ body_buffer.mem \in Seq(Nat) /\ s \in Nat
            /\ s = received - taken /\ Holds(body_buffer.mem, s, taken)
        BY <3>3 DEF Pends, BufferOf
      <3>6. SubSeq(body_buffer.mem, 1, s) = Run(taken, taken + s)
        BY <2>1, <3>5, HeldFirst, Zenon
      <3> HIDE DEF s
      <3>7. taken + s = received
        BY <2>1, <3>5
      <3> QED BY <3>4, <3>6, <3>7, Zenon DEF Content, s
    <2> QED BY <2>2, <2>3, <2>4
  <1> QED BY <1>1, CycleInvariance, PTL

\* A handler that reads the body is given the body of its request, neither less nor
\* bytes of the request behind it, unless it is told that the read failed.
THEOREM BodiesGiven ==
  ASSUME StreamShort
  PROVE  Spec => []BodiesIntact
  <1>1. IInv => BodiesIntact
    <2> SUFFICES ASSUME IInv, at = "sending", ~Refused, ~Eof, body # <<>>
                 PROVE  body = Body(current)
      BY DEF BodiesIntact
    <2>1. want = 0
      BY DEF IInv, Types, Eof
    <2>2. body = Run(HeadOf(sent, current), End(sent, current))
      BY <2>1, Zenon DEF IInv, Place
    <2> QED BY <2>2, SameEnds, Zenon DEF Body
  <1> QED BY <1>1, CycleInvariance, PTL

\* Requests reach the handlers in order, none twice and none left out, and none comes
\* out of what the failed read of a body has left.
THEOREM InOrder ==
  ASSUME StreamShort
  PROVE  Spec => []RequestsInOrder
  <1>1. IInv => RequestsInOrder
    <2> SUFFICES ASSUME IInv, at = "sink" PROVE current = Len(answers) + 1 /\ ~Eof
      BY DEF RequestsInOrder
    <2>1. at \in Handling
      BY DEF Handling
    <2>2. current = Len(answers) + 1
      BY <2>1, Zenon DEF IInv, Order
    <2>3. want = 0
      BY Zenon DEF IInv, Place
    <2> QED BY <2>2, <2>3 DEF Eof
  <1> QED BY <1>1, CycleInvariance, PTL

\* No request is refused for the way its bytes were split over reads.
THEOREM NoneRefused ==
  ASSUME StreamShort
  PROVE  Spec => []RefusedOnlyIfIgnored
  <1>1. IInv => RefusedOnlyIfIgnored
    BY Zenon DEF IInv, Order, RefusedOnlyIfIgnored
  <1> QED BY <1>1, CycleInvariance, PTL

\* Under RagelOnce no connection with the ragel parser has two long heads.
LEMMA RagelOneLong ==
  ASSUME RagelOnce, Fixed, backend = "ragel"
  PROVE  OneLong(sent)
  <1>1. sent \in Sents /\ Cardinality(LongHeads(Len(sent))) <= MaxLong["ragel"]
    BY Zenon DEF Fixed
  <1>2. "ragel" \in Backends /\ MaxLong["ragel"] <= 1
    BY Zenon DEF Fixed, RagelOnce
  <1>3. MaxLong["ragel"] \in Nat
    BY <1>2, CycleAssumption
  <1>4. Cardinality(LongHeads(Len(sent))) \in Nat
    BY <1>1, LongFinite, Zenon
  <1>5. Cardinality(LongHeads(Len(sent))) <= 1
    BY <1>1, <1>2, <1>3, <1>4
  <1> QED BY <1>1, <1>5, AtMostOne, Zenon

\* The head a handler looks at, through the references of request_ into request_buffer_,
\* is the one the peer sent, for one long head of at most three buffers.  A longer one
\* finds request_buffer_ with more capacity than elements, and resize(consumed) writes
\* zeros over its end.
THEOREM HeadsGiven ==
  ASSUME StreamShort, RagelOnce, \A m \in Messages : m.head <= 3 * BUF_SIZE
  PROVE  Spec => []HeadIntact
  <1>1. IInv /\ Fixed => HeadIntact
    <2> SUFFICES ASSUME IInv, Fixed, backend = "ragel", ~Refused,
                        at \in {"sink", "readingWhole", "parts", "readingParts", "sending"}
                 PROVE  SubSeq(request_buffer.mem, 1, sent[current].head) = Head_(current)
      BY DEF HeadIntact
    <2>1. Served
      BY DEF Served, Handling
    <2>2. /\ sent \in Sents /\ Ends(sent) /\ current \in 0..Len(sent)
          /\ BufferOf(request_buffer, received)
      BY Zenon DEF IInv, Types
    <2>3. current \in 1..Len(sent)
      <3>1. CASE at \in Handling
        BY <3>1, InHandler, Zenon
      <3>2. CASE at = "sending"
        <4>1. current >= 1
          BY <3>2, Zenon DEF IInv, Order
        <4>2. Len(sent) \in Nat
          BY <2>2, LongFinite, Zenon
        <4> QED BY <2>2, <4>1, <4>2
      <3> QED BY <2>1, <3>1, <3>2 DEF Served
    <2>4. OneLongOf3(sent)
      <3>1. OneLong(sent)
        BY RagelOneLong, Zenon
      <3>2. \A k \in 1..Len(sent) : sent[k].head <= 3 * BUF_SIZE
        BY <2>2, HeadNat, Zenon
      <3> QED BY <3>1, <3>2, Zenon DEF OneLongOf3
    <2> DEFINE h == sent[current].head
               t == End(sent, current - 1)
    <2>5. Holds(request_buffer.mem, h, t)
      BY <2>1, <2>4, Zenon DEF IInv, HeadThere
    <2>6. request_buffer.mem \in Seq(Nat)
      BY <2>2 DEF BufferOf
    <2>7. h \in Nat \ {0} /\ t \in Nat /\ HeadOf(sent, current) = t + h
      BY <2>2, <2>3, OneMessage, Zenon
    <2>8. SubSeq(request_buffer.mem, 1, h) = Run(t, t + h)
      <3>1. h \in Nat
        BY <2>7
      <3> QED BY <2>5, <2>6, <2>7, <3>1, HeldFirst, Zenon
    <2>9. Head_(current) = Run(t, t + h)
      <3>1. MessageEnd(current - 1) = t /\ HeadEnd(current) = t + h
        BY <2>7, SameEnds, Zenon
      <3> QED BY <3>1, Zenon DEF Head_
    <2> QED BY <2>8, <2>9, Zenon
  <1> QED BY <1>1, CycleInvariance, FixedInvariance, PTL

\* async_read_some is called with room for a byte, as long as what waits for the end of
\* a head is moderate and no second long head comes.
THEOREM ReadsHaveRoom ==
  ASSUME StreamShort, RagelOnce
  PROVE  Spec => []RoomToRead
  <1>1. IInv /\ Fixed => RoomToRead
    <2> SUFFICES ASSUME IInv, Fixed, Moderate, at = "reading"
                 PROVE  size < Capacity(request_buffer)
      BY DEF RoomToRead
    <2> DEFINE c == Len(request_buffer.mem)
    <2> SUFFICES size < c
      BY Zenon DEF Capacity
    <2>1. at \in Reading /\ at \in {"start"} \cup Reading
      BY DEF Reading
    <2>2. /\ sent \in Sents /\ Ends(sent) /\ Len(sent) \in Nat /\ current \in 0..Len(sent)
          /\ taken \in Nat /\ received \in Nat /\ size \in Nat /\ taken <= received
          /\ received <= End(sent, Len(sent)) /\ End(sent, Len(sent)) \in Nat
          /\ BufferOf(request_buffer, received) /\ backend \in Backends
          /\ ~ignored => taken = End(sent, current) /\ want = 0
      BY <2>1, InBetween, Zenon
    <2>3. BUF_SIZE \in Nat \ {0}
      BY CycleAssumption
    <2>4. request_buffer.size \in Nat /\ c \in Nat /\ request_buffer.size <= c
      BY <2>2 DEF BufferOf
    <2>5. request_buffer.size >= BUF_SIZE
      BY <2>1, Zenon DEF IInv, Growth
    <2>6. size < 4 * BUF_SIZE /\ (ignored => LongHeads(current) = {})
      BY Zenon DEF Moderate
    <2>7. CASE Short(sent, current)
      BY <2>6, <2>7, Zenon DEF IInv, Growth
    <2>8. CASE ~Short(sent, current)
      <3>1. PICK j \in 1..Len(sent) : j <= current /\ ~(sent[j].head <= BUF_SIZE)
        BY <2>8, Zenon DEF Short
      <3>2. sent[j].head \in Nat
        BY <2>2, HeadNat, Zenon
      <3>3. sent[j].head > BUF_SIZE /\ j \in 1..current
        BY <2>2, <2>3, <3>1, <3>2
      <3>4. ~ignored
        <4>1. j \in LongHeads(current)
          BY <3>3, Zenon DEF LongHeads
        <4> QED BY <2>6, <4>1
      <3>5. backend = "ragel"
        <4>1. backend # "stream"
          <5>1. j <= Len(sent)
            BY <2>2
          <5> QED BY <3>1, <5>1, Zenon DEF IInv, Growth, Short
        <4> QED BY <2>2, <4>1, CycleAssumption
      <3>6. OneLong(sent)
        BY <3>5, RagelOneLong, Zenon
      <3>7. CASE current < Len(sent)
        <4> DEFINE k == current + 1
        <4>1. k \in 1..Len(sent) /\ k # j
          BY <2>2, <3>3, <3>7
        <4>2. size < sent[k].head
          BY <3>4, <3>7, Zenon DEF IInv, Stream
        <4> HIDE DEF k
        <4>3. sent[k].head \in Nat
          BY <2>2, <4>1, HeadNat, Zenon
        <4>4. ~(sent[k].head > BUF_SIZE)
          BY <3>3, <3>6, <4>1, Zenon DEF OneLong
        <4> QED BY <2>2, <2>3, <2>4, <2>5, <4>2, <4>3, <4>4
      <3>8. CASE current = Len(sent)
        <4>1. size = received - taken /\ taken = End(sent, Len(sent))
          BY <2>1, <2>2, <3>4, <3>8, Zenon DEF IInv, Stream
        <4> QED BY <2>2, <2>3, <2>4, <2>5, <4>1
      <3>9. current < Len(sent) \/ current = Len(sent)
        BY <2>2
      <3> QED BY <3>7, <3>8, <3>9, Zenon
    <2> QED BY <2>7, <2>8
  <1> QED BY <1>1, CycleInvariance, FixedInvariance, PTL
=============================================================================
