----------------------------- MODULE CycleProofs -----------------------------
(***************************************************************************)
(* An inductive invariant of RequestCycle: what the two buffers hold, how  *)
(* far the connection has come in what the peer sends, and how much memory *)
(* the vectors have.                                                       *)
(***************************************************************************)
EXTENDS RequestCycle, TLAPS

\* MessageEnd and HeadEnd with the requests as an argument.
End(s, k) ==
  LET e[i \in 0..Len(s)] ==
        IF i = 0 THEN 0 ELSE e[i - 1] + s[i].head + s[i].length
  IN e[k]
HeadOf(s, k) == End(s, k - 1) + s[k].head

\* What they are: the requests follow each other and none is empty.
Ends(s) ==
  /\ End(s, 0) = 0
  /\ \A k \in 0..Len(s) : End(s, k) \in Nat
  /\ \A k \in 1..Len(s) : End(s, k) = HeadOf(s, k) + s[k].length
  /\ \A j, k \in 0..Len(s) : j < k => End(s, j) < End(s, k)

Sents == UNION {[1..n -> Messages] : n \in 1..MaxMessages}
Handling == {"sink", "parts", "readingWhole", "readingParts"}
Bodily   == {"parts", "readingWhole", "readingParts"}
Reading  == {"read_request", "reading"}

\* A vector whose bytes are among the first r, or zero.
BufferOf(v, r) ==
  /\ v \in [mem : Seq(Nat), size : Nat]
  /\ v.size <= Len(v.mem)
  /\ \A i \in 1..Len(v.mem) : v.mem[i] <= r

BytesOf(s, r) == s \in Seq(Nat) /\ \A i \in 1..Len(s) : s[i] <= r

\* The first n bytes of mem are those that follow byte t.
Holds(mem, n, t) == n <= Len(mem) /\ \A i \in 1..n : mem[i] = t + i
\* v holds the bytes behind t up to r, and nothing else.
Pends(v, t, r) ==
  BufferOf(v, r) /\ t <= r /\ v.size = r - t /\ Holds(v.mem, v.size, t)
Zeros(mem, n) == \A i \in 1..n : mem[i] = Zero

\* The responses of handlers, and that of read_request.
Replies == {"Ok", "Error", "NotFound", "RequestEntityTooLarge"}
Codes == Replies \cup {"BadRequest"}

Types ==
  /\ backend \in Backends /\ sent \in Sents
  /\ taken \in Nat /\ received \in Nat
  /\ taken <= received /\ received <= End(sent, Len(sent))
  /\ BufferOf(request_buffer, received) /\ BufferOf(body_buffer, received)
  /\ size \in Nat /\ size <= Len(request_buffer.mem)
  /\ at \in {"start", "sending", "closed"} \cup Reading \cup Handling
  /\ current \in 0..Len(sent) /\ want \in Nat /\ ignored \in BOOLEAN
  /\ body \in Seq(Nat) /\ answers \in Seq(Codes)

\* The connection between two requests, or waiting for the response to be sent.
Between == at \in {"start", "sending"} \cup Reading /\ ~Refused

\* The connection while a handler has the request, or has answered it.
Served == at \in Handling \/ (at = "sending" /\ ~Refused)

\* One response for each request; a refusal is the last one.
Order ==
  /\ Between => current = Len(answers)
  /\ at = "sending" /\ ~Refused => current >= 1
  /\ at \in Handling => current = Len(answers) + 1 /\ ~ignored
  /\ Refused => ignored /\ at \in {"sending", "closed"}

\* What has been taken are whole requests, a head, a head and some of its body, or,
\* when a body was left unread, anything behind a head and in front of the next.
Place ==
  /\ Between /\ ~ignored => taken = End(sent, current) /\ want = 0
  /\ Between /\ ignored =>
       current >= 1 /\ HeadOf(sent, current) <= taken /\ taken < End(sent, current)
  /\ at \in Reading => body = <<>>
  /\ at = "sink" => taken = HeadOf(sent, current) /\ want = 0 /\ body = <<>>
  /\ at \in Bodily =>
       /\ taken + want = End(sent, current) /\ HeadOf(sent, current) <= taken
       /\ body = Run(HeadOf(sent, current), taken)
  /\ at \in {"readingWhole", "readingParts"} => want > 0 /\ received = taken
  /\ at = "readingWhole" => body_buffer.size = 0
  /\ at = "readingParts" => body_buffer.size > 0 /\ body_buffer.size <= want
  /\ at = "sending" /\ ~Refused /\ want = 0 =>
       body = <<>> \/ body = Run(HeadOf(sent, current), End(sent, current))

\* Where the bytes are that have been received and not taken.
Stream ==
  /\ at \in Reading => body_buffer.size = 0
  /\ at \in Reading /\ want = 0 =>
       size = received - taken /\ Holds(request_buffer.mem, size, taken)
  /\ (\/ (at \in {"start", "sending"} /\ ~Refused /\ want = 0)
      \/ at \in {"sink", "parts", "readingWhole"}) => Pends(body_buffer, taken, received)
  /\ at = "reading" /\ ~ignored /\ current < Len(sent) => size < sent[current + 1].head
  /\ at \in Reading /\ want > 0 => Zeros(request_buffer.mem, size)
  /\ at \in {"start", "sending"} /\ ~Refused /\ want > 0 =>
       Zeros(body_buffer.mem, body_buffer.size)
  /\ at = "readingParts" => Zeros(body_buffer.mem, body_buffer.size)

\* No head among the first n is long.
Short(s, n) == \A k \in 1..Len(s) : k <= n => s[k].head <= BUF_SIZE
OneLong(s) == \A j, k \in 1..Len(s) : s[j].head > BUF_SIZE /\ s[k].head > BUF_SIZE => j = k

\* The head behind request k is no longer than three buffers.
Next3(s, k) == k + 1 \in 1..Len(s) => s[k + 1].head <= 3 * BUF_SIZE

\* size() and capacity() of request_buffer_ as it grows from BUF_SIZE.
Grown(v) ==
  \/ v.size = BUF_SIZE /\ Len(v.mem) = BUF_SIZE
  \/ v.size = 2 * BUF_SIZE /\ Len(v.mem) = 2 * BUF_SIZE
  \/ v.size = 3 * BUF_SIZE /\ Len(v.mem) = 4 * BUF_SIZE
  \/ v.size = 4 * BUF_SIZE /\ Len(v.mem) = 4 * BUF_SIZE

\* How much memory the vectors have, as long as no head was long.
Growth ==
  /\ backend = "stream" => Short(sent, Len(sent))
  /\ at \in Reading => request_buffer.size >= BUF_SIZE
  /\ Short(sent, current) /\ at = "start" =>
       Len(request_buffer.mem) \in {0, BUF_SIZE} /\ Len(body_buffer.mem) \in {0, BUF_SIZE}
  /\ Short(sent, current) /\ Served =>
       Len(request_buffer.mem) = BUF_SIZE /\ Len(body_buffer.mem) = BUF_SIZE
  /\ Short(sent, current) /\ at \in Reading =>
       /\ Len(body_buffer.mem) = BUF_SIZE
       /\ size < 4 * BUF_SIZE \/ (~ignored /\ Next3(sent, current)) => Grown(request_buffer)
  /\ Short(sent, current + 1) /\ at \in Reading /\ ~ignored =>
       request_buffer.size = BUF_SIZE /\ Len(request_buffer.mem) = BUF_SIZE
  /\ Short(sent, current) /\ at = "reading" /\ size < 4 * BUF_SIZE =>
       size < Len(request_buffer.mem)

\* No head is longer than three buffers, and at most one longer than one.
OneLongOf3(s) == OneLong(s) /\ \A k \in 1..Len(s) : s[k].head <= 3 * BUF_SIZE

\* The head the handler looks at.
HeadThere ==
  backend = "ragel" /\ OneLongOf3(sent) /\ Served =>
    Holds(request_buffer.mem, sent[current].head, End(sent, current - 1))

IInv == Ends(sent) /\ Types /\ Order /\ Place /\ Stream /\ Growth /\ HeadThere

----------------------------------------------------------------------------
(* Vectors.                                                                *)

\* A function over 1..n is a sequence of length n.
LEMMA FcnSeq ==
  ASSUME NEW n \in Nat, NEW f \in [1..n -> Nat]
  PROVE  f \in Seq(Nat) /\ Len(f) = n
  OBVIOUS

\* The order of the natural numbers.
LEMMA NoMore ==
  ASSUME NEW a \in Nat, NEW b \in Nat, NEW c \in Nat, a <= b, b <= c
  PROVE  a <= c
  OBVIOUS

\* Two sequences with the same elements are equal.
LEMMA SameSeq ==
  ASSUME NEW f \in Seq(Nat), NEW g \in Seq(Nat), Len(f) = Len(g),
         \A i \in 1..Len(f) : f[i] = g[i]
  PROVE  f = g
  <1>1. f \in [1..Len(f) -> Nat] /\ g \in [1..Len(g) -> Nat]
    OBVIOUS
  <1> QED BY <1>1

\* The elements of a part of a sequence.
LEMMA PartOf ==
  ASSUME NEW s \in Seq(Nat), NEW n \in 0..Len(s), NEW m \in 0..n
  PROVE  /\ SubSeq(s, m + 1, n) \in Seq(Nat) /\ Len(SubSeq(s, m + 1, n)) = n - m
         /\ \A i \in 1..(n - m) : SubSeq(s, m + 1, n)[i] = s[m + i]
  OBVIOUS

\* The elements of the front of a sequence.
LEMMA FrontOf ==
  ASSUME NEW s \in Seq(Nat), NEW n \in 0..Len(s)
  PROVE  /\ SubSeq(s, 1, n) \in Seq(Nat) /\ Len(SubSeq(s, 1, n)) = n
         /\ \A i \in 1..n : SubSeq(s, 1, n)[i] = s[i]
  OBVIOUS

\* The elements of a concatenation.
LEMMA Joined ==
  ASSUME NEW s \in Seq(Nat), NEW t \in Seq(Nat)
  PROVE  /\ s \o t \in Seq(Nat) /\ Len(s \o t) = Len(s) + Len(t)
         /\ \A i \in 1..Len(s) : (s \o t)[i] = s[i]
         /\ \A i \in 1..Len(t) : (s \o t)[Len(s) + i] = t[i]
  OBVIOUS

\* An element more.
LEMMA OneMore ==
  ASSUME NEW S, NEW s \in Seq(S), NEW e \in S
  PROVE  /\ Append(s, e) \in Seq(S) /\ Len(Append(s, e)) = Len(s) + 1
         /\ Append(s, e)[Len(s) + 1] = e /\ Append(s, e) # <<>>
  OBVIOUS

\* The larger and the smaller of two numbers.
LEMMA Extremes ==
  ASSUME NEW a \in Nat, NEW b \in Nat
  PROVE  /\ Max({a, b}) = IF a >= b THEN a ELSE b
         /\ Min({a, b}) = IF a <= b THEN a ELSE b
  BY DEF Max, Min

\* Reserve keeps the elements that count and makes the memory large enough.
LEMMA Reserved ==
  ASSUME NEW v, NEW r \in Nat, BufferOf(v, r), NEW n \in Nat
  PROVE  /\ BufferOf(Reserve(v, n), r) /\ Reserve(v, n).size = v.size
         /\ Len(Reserve(v, n).mem) = IF n <= Len(v.mem) THEN Len(v.mem) ELSE n
         /\ \A i \in 1..v.size : Reserve(v, n).mem[i] = v.mem[i]
         /\ n <= Len(v.mem) => Reserve(v, n) = v
  <1>1. CASE n <= Len(v.mem)
    BY <1>1 DEF Reserve, Capacity, BufferOf
  <1>2. CASE ~(n <= Len(v.mem))
    <2> DEFINE m == [i \in 1..n |-> IF i <= v.size THEN v.mem[i] ELSE Zero]
    <2>1. m \in [1..n -> Nat] /\ \A i \in 1..n : m[i] <= r
      BY <1>2 DEF BufferOf, Zero
    <2>2. m \in Seq(Nat) /\ Len(m) = n
      BY <2>1, FcnSeq
    <2>3. Reserve(v, n) = [v EXCEPT !.mem = m]
      BY <1>2 DEF Reserve, Capacity, BufferOf
    <2>4. \A i \in 1..v.size : m[i] = v.mem[i]
      BY <1>2 DEF BufferOf
    <2> HIDE DEF m
    <2> QED BY <1>2, <2>1, <2>2, <2>3, <2>4 DEF BufferOf
  <1> QED BY <1>1, <1>2

\* resize keeps the elements that count, and all of the memory when it makes the
\* vector smaller.
IsResized(w, v, n, r) ==
  /\ BufferOf(w, r) /\ w.size = n
  /\ Len(w.mem) = IF n <= Len(v.mem) THEN Len(v.mem)
                  ELSE IF n >= 2 * v.size THEN n ELSE 2 * v.size
  /\ \A i \in 1..v.size : w.mem[i] = v.mem[i]
  /\ n <= v.size => w.mem = v.mem
  /\ v.size = 0 => Zeros(w.mem, n)

\* Resize does this.
LEMMA Resized ==
  ASSUME NEW v, NEW r \in Nat, BufferOf(v, r), NEW n \in Nat
  PROVE  IsResized(Resize(v, n), v, n, r)
  <1> DEFINE c == IF n <= Len(v.mem) THEN n ELSE Max({n, 2 * v.size})
             w == Reserve(v, c)
             m == [i \in 1..Capacity(w) |->
                     IF v.size < i /\ i <= n THEN Zero ELSE w.mem[i]]
  <1>1. v.mem \in Seq(Nat) /\ v.size \in Nat /\ v.size <= Len(v.mem) /\ Len(v.mem) \in Nat
    BY DEF BufferOf
  <1>2. c = IF n <= Len(v.mem) THEN n ELSE IF n >= 2 * v.size THEN n ELSE 2 * v.size
    <2>1. 2 * v.size \in Nat
      BY <1>1
    <2>2. Max({n, 2 * v.size}) = IF n >= 2 * v.size THEN n ELSE 2 * v.size
      BY <2>1, Extremes, Zenon
    <2> QED BY <2>2, Zenon
  <1>3. c \in Nat
    BY <1>1, <1>2
  <1>4. Resize(v, n) = [mem |-> m, size |-> n]
    BY DEF Resize, Capacity
  <1> HIDE DEF c
  <1>5. /\ BufferOf(w, r) /\ w.size = v.size
        /\ Len(w.mem) = IF c <= Len(v.mem) THEN Len(v.mem) ELSE c
        /\ \A i \in 1..v.size : w.mem[i] = v.mem[i]
        /\ c <= Len(v.mem) => w = v
    BY <1>3, Reserved
  <1> HIDE DEF w
  <1>6. /\ Len(w.mem) = IF n <= Len(v.mem) THEN Len(v.mem) ELSE c
        /\ n <= Len(v.mem) => w.mem = v.mem
        /\ n <= Len(w.mem) /\ v.size <= Len(w.mem) /\ Len(w.mem) \in Nat
        /\ w.mem \in Seq(Nat) /\ \A i \in 1..Len(w.mem) : w.mem[i] <= r
    <2>1. /\ w.mem \in Seq(Nat) /\ Len(w.mem) \in Nat /\ v.size <= Len(w.mem)
          /\ \A i \in 1..Len(w.mem) : w.mem[i] <= r
      BY <1>5 DEF BufferOf
    <2>2. CASE n <= Len(v.mem)
      BY <1>1, <1>2, <1>5, <2>1, <2>2
    <2>3. CASE ~(n <= Len(v.mem))
      <3> DEFINE a == Len(v.mem)
                 z == v.size
      <3>1. c \in Nat /\ n <= c /\ ~(c <= Len(v.mem))
        <4>1. /\ a \in Nat /\ z \in Nat /\ ~(n <= a)
              /\ c = IF n >= 2 * z THEN n ELSE 2 * z
          BY <1>1, <1>2, <2>3, Zenon
        <4> HIDE DEF a, z
        <4>2. c \in Nat /\ n <= c /\ ~(c <= a)
          BY <4>1
        <4> QED BY <4>2 DEF a
      <3>2. Len(w.mem) = c
        BY <1>5, <3>1, Zenon
      <3> QED BY <2>1, <2>3, <3>1, <3>2, Zenon
    <2> QED BY <2>2, <2>3, Zenon
  <1>7. /\ m \in Seq(Nat) /\ Len(m) = Len(w.mem)
        /\ \A i \in 1..Len(w.mem) : m[i] <= r
        /\ \A i \in 1..v.size : m[i] = w.mem[i]
        /\ n <= v.size => m = w.mem
        /\ v.size = 0 => Zeros(m, n)
    <2>1. v.size \in 0..Len(w.mem) /\ n \in 0..Len(w.mem)
      BY <1>1, <1>6
    <2>2. /\ m \in [1..Len(w.mem) -> Nat]
          /\ \A i \in 1..Len(w.mem) : m[i] = IF v.size < i /\ i <= n THEN Zero ELSE w.mem[i]
      <3>1. Capacity(w) = Len(w.mem)
        BY Zenon DEF Capacity
      <3>2. \A i \in 1..Len(w.mem) : w.mem[i] \in Nat
        BY <1>6
      <3>3. Zero \in Nat
        BY DEF Zero
      <3> QED BY <3>1, <3>2, <3>3, Zenon
    <2> DEFINE q == w.mem
               a == v.size
    <2> HIDE DEF m
    <2>3. m \in Seq(Nat) /\ Len(m) = Len(w.mem)
      BY <1>6, <2>2, FcnSeq, Zenon
    <2>4. /\ q \in Seq(Nat) /\ \A i \in 1..Len(q) : q[i] <= r
          /\ a \in 0..Len(q) /\ n \in 0..Len(q)
          /\ m \in Seq(Nat) /\ Len(m) = Len(q)
          /\ \A i \in 1..Len(q) : m[i] = IF a < i /\ i <= n THEN Zero ELSE q[i]
      BY <1>6, <2>1, <2>2, <2>3, Zenon
    <2> HIDE DEF q, a
    <2>5. /\ \A i \in 1..Len(q) : m[i] <= r
          /\ \A i \in 1..a : m[i] = q[i]
          /\ n <= a => m = q
          /\ a = 0 => Zeros(m, n)
      <3>1. \A i \in 1..Len(q) : m[i] <= r
        BY <2>4 DEF Zero
      <3>2. n <= a => \A i \in 1..Len(q) : m[i] = q[i]
        BY <2>4
      <3>3. n <= a => m = q
        BY <2>4, <3>2, SameSeq, Zenon
      <3>4. \A i \in 1..a : m[i] = q[i]
        BY <2>4
      <3>5. ASSUME a = 0, NEW i \in 1..n PROVE m[i] = Zero
        <4>1. i \in 1..Len(q) /\ a < i /\ i <= n
          BY <2>4, <3>5
        <4> QED BY <2>4, <4>1, Zenon
      <3>6. a = 0 => Zeros(m, n)
        BY <3>5, Zenon DEF Zeros
      <3> QED BY <3>1, <3>3, <3>4, <3>6, Zenon
    <2> QED BY <2>3, <2>5, Zenon DEF q, a
  <1> HIDE DEF m
  <1>8. n <= v.size => m = v.mem
    BY <1>1, <1>6, <1>7
  <1>9. \A i \in 1..v.size : m[i] = v.mem[i]
    BY <1>5, <1>7
  <1>10. BufferOf([mem |-> m, size |-> n], r)
    BY <1>6, <1>7 DEF BufferOf
  <1>11. Len(m) = IF n <= Len(v.mem) THEN Len(v.mem)
                  ELSE IF n >= 2 * v.size THEN n ELSE 2 * v.size
    BY <1>2, <1>6, <1>7, Zenon
  <1> DEFINE f == [mem |-> m, size |-> n]
  <1>12. f.mem = m /\ f.size = n
    BY Zenon
  <1> HIDE DEF f
  <1>13. IsResized(f, v, n, r)
    BY <1>7, <1>8, <1>9, <1>10, <1>11, <1>12, Zenon DEF IsResized, f
  <1> QED BY <1>4, <1>13, Zenon DEF f

\* The elements become s.
IsFilled(w, v, s, r) ==
  /\ BufferOf(w, r) /\ w.size = Len(s)
  /\ Len(w.mem) = IF Len(s) <= Len(v.mem) THEN Len(v.mem) ELSE Len(s)
  /\ \A i \in 1..Len(s) : w.mem[i] = s[i]

\* Fill does this.
LEMMA Filled ==
  ASSUME NEW v, NEW r \in Nat, BufferOf(v, r), NEW s, BytesOf(s, r)
  PROVE  IsFilled(Fill(v, s), v, s, r)
  <1> DEFINE w == Reserve(v, Len(s))
             t == SubSeq(w.mem, Len(s) + 1, Capacity(w))
             m == s \o t
  <1>0. s \in Seq(Nat) /\ \A i \in 1..Len(s) : s[i] <= r
    BY Zenon DEF BytesOf
  <1>1. Len(s) \in Nat
    BY <1>0
  <1>2. /\ BufferOf(w, r)
        /\ Len(w.mem) = IF Len(s) <= Len(v.mem) THEN Len(v.mem) ELSE Len(s)
    BY <1>1, Reserved
  <1>3. Fill(v, s) = [mem |-> m, size |-> Len(s)]
    BY DEF Fill
  <1> HIDE DEF w
  <1>4. /\ w.mem \in Seq(Nat) /\ Len(w.mem) \in Nat /\ Len(s) <= Len(w.mem)
        /\ \A i \in 1..Len(w.mem) : w.mem[i] <= r
    BY <1>1, <1>2 DEF BufferOf
  <1>5. /\ t \in Seq(Nat) /\ Len(t) = Len(w.mem) - Len(s)
        /\ \A i \in 1..Len(t) : t[i] = w.mem[Len(s) + i]
    <2> DEFINE q == w.mem
               n == Len(s)
    <2>1. q \in Seq(Nat) /\ Len(q) \in 0..Len(q) /\ n \in 0..Len(q) /\ n \in Nat
      BY <1>1, <1>4
    <2>2. /\ SubSeq(q, n + 1, Len(q)) \in Seq(Nat)
          /\ Len(SubSeq(q, n + 1, Len(q))) = Len(q) - n
          /\ \A i \in 1..(Len(q) - n) : SubSeq(q, n + 1, Len(q))[i] = q[n + i]
      BY <2>1, PartOf
    <2>3. t = SubSeq(q, n + 1, Len(q))
      BY Zenon DEF Capacity
    <2> QED BY <2>2, <2>3, Zenon
  <1> HIDE DEF t
  <1>6. \A i \in 1..Len(t) : t[i] <= r
    <2> SUFFICES ASSUME NEW i \in 1..Len(t) PROVE t[i] <= r
      OBVIOUS
    <2>1. Len(s) + i \in 1..Len(w.mem) /\ t[i] = w.mem[Len(s) + i]
      BY <1>1, <1>4, <1>5
    <2> QED BY <1>4, <2>1, Zenon
  <1>7. /\ m \in Seq(Nat) /\ Len(m) = Len(w.mem)
        /\ \A i \in 1..Len(s) : m[i] = s[i]
        /\ \A i \in 1..Len(t) : m[Len(s) + i] = t[i]
    <2>1. /\ m \in Seq(Nat) /\ Len(m) = Len(s) + Len(t)
          /\ \A i \in 1..Len(s) : m[i] = s[i]
          /\ \A i \in 1..Len(t) : m[Len(s) + i] = t[i]
      BY <1>0, <1>5, Joined, Zenon
    <2>2. Len(s) + Len(t) = Len(w.mem)
      BY <1>1, <1>4, <1>5
    <2> QED BY <2>1, <2>2, Zenon
  <1>8. \A i \in 1..Len(m) : m[i] <= r
    <2> SUFFICES ASSUME NEW i \in 1..Len(m) PROVE m[i] <= r
      OBVIOUS
    <2>1. CASE i <= Len(s)
      BY <1>0, <1>1, <1>4, <1>7, <2>1
    <2>2. CASE i > Len(s)
      <3>1. i - Len(s) \in 1..Len(t) /\ Len(s) + (i - Len(s)) = i
        BY <1>1, <1>4, <1>5, <1>7, <2>2
      <3> QED BY <1>6, <1>7, <3>1, Zenon
    <2> QED BY <1>1, <2>1, <2>2
  <1> HIDE DEF m, w
  <1>9. Fill(v, s) \in [mem : Seq(Nat), size : Nat]
    BY <1>1, <1>3, <1>7
  <1>10. Fill(v, s).mem = m /\ Fill(v, s).size = Len(s)
    BY <1>3
  <1>11. BufferOf(Fill(v, s), r)
    BY <1>4, <1>7, <1>8, <1>9, <1>10, Zenon DEF BufferOf
  <1> QED BY <1>2, <1>7, <1>10, <1>11, Zenon DEF IsFilled

\* The bytes from one position to another.
LEMMA Runs ==
  ASSUME NEW a \in Nat, NEW b \in Nat, a <= b
  PROVE  /\ Run(a, b) \in Seq(Nat) /\ Len(Run(a, b)) = b - a
         /\ \A i \in 1..(b - a) : Run(a, b)[i] = a + i
  <1>1. Run(a, b) \in [1..(b - a) -> Nat] /\ \A i \in 1..(b - a) : Run(a, b)[i] = a + i
    BY DEF Run
  <1>2. b - a \in Nat
    OBVIOUS
  <1> QED BY <1>1, <1>2, FcnSeq, Zenon

\* The first n elements of a vector that holds the bytes behind t.
LEMMA HeldFirst ==
  ASSUME NEW q \in Seq(Nat), NEW n \in Nat, NEW t \in Nat, Holds(q, n, t)
  PROVE  SubSeq(q, 1, n) = Run(t, t + n)
  <1> DEFINE s == SubSeq(q, 1, n)
             u == Run(t, t + n)
  <1>1. n \in 0..Len(q) /\ \A i \in 1..n : q[i] = t + i
    BY DEF Holds
  <1>2. s \in Seq(Nat) /\ Len(s) = n /\ \A i \in 1..n : s[i] = q[i]
    BY <1>1, FrontOf, Zenon
  <1>3. u \in Seq(Nat) /\ Len(u) = n /\ \A i \in 1..n : u[i] = t + i
    <2>1. t + n \in Nat /\ t <= t + n /\ (t + n) - t = n
      OBVIOUS
    <2>2. /\ u \in Seq(Nat) /\ Len(u) = (t + n) - t
          /\ \A i \in 1..((t + n) - t) : u[i] = t + i
      BY <2>1, Runs, Zenon
    <2> QED BY <2>1, <2>2, Zenon
  <1> HIDE DEF s, u
  <1>4. \A i \in 1..Len(s) : s[i] = u[i]
    BY <1>1, <1>2, <1>3, Zenon
  <1>5. s = u
    BY <1>2, <1>3, <1>4, SameSeq
  <1> QED BY <1>5 DEF s, u

\* Bytes and the bytes that follow them.
LEMMA RunsJoin ==
  ASSUME NEW a \in Nat, NEW b \in Nat, NEW c \in Nat, a <= b, b <= c
  PROVE  Run(a, b) \o Run(b, c) = Run(a, c)
  <1> DEFINE x == Run(a, b)
             y == Run(b, c)
             z == Run(a, c)
  <1>1. x \in Seq(Nat) /\ Len(x) = b - a /\ \A i \in 1..(b - a) : x[i] = a + i
    BY Runs
  <1>2. y \in Seq(Nat) /\ Len(y) = c - b /\ \A i \in 1..(c - b) : y[i] = b + i
    BY Runs
  <1>3. z \in Seq(Nat) /\ Len(z) = c - a /\ \A i \in 1..(c - a) : z[i] = a + i
    <2>1. a <= c
      OBVIOUS
    <2> QED BY <2>1, Runs
  <1> DEFINE w == x \o y
  <1> HIDE DEF x, y, z
  <1>4. /\ w \in Seq(Nat) /\ Len(w) = Len(x) + Len(y)
        /\ \A i \in 1..Len(x) : w[i] = x[i]
        /\ \A i \in 1..Len(y) : w[Len(x) + i] = y[i]
    BY <1>1, <1>2, Joined, Zenon
  <1> HIDE DEF w
  <1>5. \A i \in 1..(c - a) : w[i] = z[i]
    <2> SUFFICES ASSUME NEW i \in 1..(c - a) PROVE w[i] = z[i]
      BY Zenon
    <2>1. z[i] = a + i
      BY <1>3, Zenon
    <2>2. CASE i <= b - a
      <3>1. i \in 1..(b - a) /\ i \in 1..Len(x)
        BY <1>1, <2>2
      <3>2. w[i] = x[i] /\ x[i] = a + i
        BY <1>1, <1>4, <3>1, Zenon
      <3> QED BY <2>1, <3>2, Zenon
    <2>3. CASE i > b - a
      <3> DEFINE j == i - (b - a)
      <3>1. j \in 1..Len(y) /\ j \in 1..(c - b) /\ Len(x) + j = i /\ b + j = a + i
        BY <1>1, <1>2, <2>3
      <3> HIDE DEF j
      <3>2. w[Len(x) + j] = y[j] /\ y[j] = b + j
        BY <1>2, <1>4, <3>1, Zenon
      <3>3. w[i] = b + j
        BY <3>1, <3>2, Zenon
      <3> QED BY <2>1, <3>1, <3>3, Zenon
    <2> QED BY <1>3, <2>2, <2>3
  <1>6. w = z
    <2>1. Len(w) = c - a
      BY <1>1, <1>2, <1>4
    <2> QED BY <1>3, <1>4, <1>5, <2>1, SameSeq, Zenon
  <1> QED BY <1>6 DEF x, y, z, w

----------------------------------------------------------------------------
(* What the parsers find at the front of the bytes.                        *)

\* The requests of the model and of End are the same.
LEMMA SameEnds ==
  ASSUME NEW k
  PROVE  MessageEnd(k) = End(sent, k) /\ HeadEnd(k) = HeadOf(sent, k)
  <1>1. MessageEnd(k) = End(sent, k) /\ MessageEnd(k - 1) = End(sent, k - 1)
    BY DEF MessageEnd, End
  <1> QED BY <1>1 DEF HeadEnd, HeadOf

\* A request of the peer.
LEMMA OneMessage ==
  ASSUME sent \in Sents, Ends(sent), NEW k \in 1..Len(sent)
  PROVE  /\ Len(sent) \in Nat /\ Len(sent) <= MaxMessages
         /\ sent[k] \in Messages
         /\ sent[k].head \in Nat \ {0} /\ sent[k].length \in Nat
         /\ End(sent, k - 1) \in Nat /\ End(sent, k) \in Nat
         /\ HeadOf(sent, k) = End(sent, k - 1) + sent[k].head
         /\ End(sent, k) = HeadOf(sent, k) + sent[k].length
  <1>1. PICK n \in 1..MaxMessages : sent \in [1..n -> Messages]
    BY DEF Sents
  <1>2. Len(sent) = n /\ n \in Nat
    BY <1>1, CycleAssumption
  <1>3. sent[k] \in Messages
    BY <1>1, <1>2
  <1>4. sent[k].head \in Nat \ {0} /\ sent[k].length \in Nat
    BY <1>3, CycleAssumption
  <1>5. k - 1 \in 0..Len(sent) /\ k \in 0..Len(sent)
    BY <1>2
  <1>6. End(sent, k - 1) \in Nat /\ End(sent, k) \in Nat
    BY <1>5 DEF Ends
  <1>7. End(sent, k) = HeadOf(sent, k) + sent[k].length
    BY DEF Ends
  <1> QED BY <1>1, <1>2, <1>3, <1>4, <1>6, <1>7 DEF HeadOf

\* The ends of requests and heads come in their order.
LEMMA EndsOrder ==
  ASSUME sent \in Sents, Ends(sent), NEW j \in 0..Len(sent), NEW k \in 1..Len(sent)
  PROVE  /\ End(sent, j) \in Nat /\ HeadOf(sent, k) \in Nat \ {0}
         /\ j < k => End(sent, j) < HeadOf(sent, k)
         /\ k <= j => HeadOf(sent, k) <= End(sent, j)
         /\ End(sent, j) = End(sent, k - 1) => k = j + 1
  <1>1. /\ Len(sent) \in Nat
        /\ sent[k].head \in Nat \ {0} /\ sent[k].length \in Nat
        /\ End(sent, k - 1) \in Nat /\ End(sent, k) \in Nat
        /\ HeadOf(sent, k) = End(sent, k - 1) + sent[k].head
        /\ End(sent, k) = HeadOf(sent, k) + sent[k].length
    BY OneMessage, Zenon
  <1>2. k - 1 \in 0..Len(sent) /\ k \in 0..Len(sent) /\ j \in Nat
    BY <1>1
  <1>3. End(sent, j) \in Nat
    BY <1>2, Zenon DEF Ends
  <1>4. /\ j < k - 1 => End(sent, j) < End(sent, k - 1)
        /\ k - 1 < j => End(sent, k - 1) < End(sent, j)
        /\ k < j => End(sent, k) < End(sent, j)
    BY <1>2, Zenon DEF Ends
  <1> DEFINE h == HeadOf(sent, k)
             l == sent[k].length
             x == sent[k].head
             d == End(sent, k - 1)
             e == End(sent, k)
             f == End(sent, j)
  <1>a. /\ d \in Nat /\ e \in Nat /\ f \in Nat /\ l \in Nat
        /\ e = h + l /\ h = d + x /\ x \in Nat \ {0}
    BY <1>1, <1>3, Zenon
  <1>5. CASE j < k - 1
    <2>1. f < d
      BY <1>4, <1>5, Zenon
    <2>2. j < k /\ ~(k <= j) /\ ~(j = k - 1) /\ ~(k < j) /\ ~(k = j + 1)
      BY <1>2, <1>5
    <2> HIDE DEF h, l, x, d, e, f
    <2>3. h \in Nat \ {0} /\ f < h /\ ~(h <= f) /\ f # d /\ f <= d
      BY <1>a, <2>1
    <2> QED BY <1>a, <2>2, <2>3, Zenon DEF h, d, e, f
  <1>6. CASE j = k - 1
    <2>1. f = d
      BY <1>6, Zenon
    <2>2. k = j + 1 /\ ~(k <= j) /\ j < k
      BY <1>2, <1>6
    <2> HIDE DEF h, l, x, d, e, f
    <2>3. d < h /\ h \in Nat \ {0} /\ f < h /\ ~(h <= f) /\ f <= d
      BY <1>a, <2>1
    <2> QED BY <1>a, <2>1, <2>2, <2>3, Zenon DEF h, d, e, f
  <1>7. CASE j = k
    <2>1. f = e
      BY <1>7, Zenon
    <2>2. ~(j < k) /\ k <= j
      BY <1>2, <1>7
    <2> HIDE DEF h, l, x, d, e, f
    <2>3. d < h /\ h <= e /\ h \in Nat \ {0} /\ e # d /\ f # d /\ h <= f
      BY <1>a, <2>1
    <2> QED BY <1>a, <2>1, <2>2, <2>3, Zenon DEF h, d, e, f
  <1>8. CASE k < j
    <2>1. k - 1 < j /\ ~(j < k) /\ k < j
      BY <1>2, <1>8
    <2>2. End(sent, k - 1) < End(sent, j) /\ End(sent, k) < End(sent, j)
      BY <1>4, <2>1, Zenon
    <2>3. /\ HeadOf(sent, k) <= End(sent, j) /\ End(sent, j) # End(sent, k - 1)
          /\ HeadOf(sent, k) \in Nat \ {0}
      <3>1. d < f /\ e < f
        BY <2>2, Zenon
      <3> HIDE DEF h, l, x, d, e, f
      <3>2. h \in Nat \ {0} /\ h <= f /\ f # d
        BY <1>a, <3>1
      <3> QED BY <3>2, Zenon DEF h, d, f
    <2> QED BY <1>3, <2>1, <2>3, Zenon
  <1> QED BY <1>2, <1>5, <1>6, <1>7, <1>8

\* The bytes that wait in request_buffer_.
LEMMA Waiting ==
  ASSUME IInv, at \in Reading
  PROVE  /\ size \in Nat /\ taken \in Nat /\ received \in Nat /\ want \in Nat
         /\ Len(sent) \in Nat /\ current \in 0..Len(sent)
         /\ \A i \in 1..size : Bytes[i] = request_buffer.mem[i]
         /\ want = 0 => size = received - taken /\ \A i \in 1..size : Bytes[i] = taken + i
         /\ want > 0 => ignored /\ \A i \in 1..size : Bytes[i] = 0
         /\ ~ignored => taken = End(sent, current)
         /\ ignored => /\ current \in 1..Len(sent)
                       /\ HeadOf(sent, current) <= taken /\ taken < End(sent, current)
  <1>1. /\ size \in Nat /\ taken \in Nat /\ received \in Nat /\ want \in Nat
        /\ size \in 0..Len(request_buffer.mem) /\ request_buffer.mem \in Seq(Nat)
    BY DEF IInv, Types, BufferOf
  <1>2. \A i \in 1..size : Bytes[i] = request_buffer.mem[i]
    BY <1>1, FrontOf, Zenon DEF Bytes
  <1>3. current \in 0..Len(sent) /\ Len(sent) \in Nat /\ ignored \in BOOLEAN
    BY CycleAssumption DEF IInv, Types, Sents
  <1>4. Between
    BY DEF IInv, Order, Between, Reading
  <1>5. /\ ~ignored => taken = End(sent, current) /\ want = 0
        /\ ignored => /\ current >= 1 /\ HeadOf(sent, current) <= taken
                      /\ taken < End(sent, current)
    BY <1>4 DEF IInv, Place
  <1>6. want = 0 => size = received - taken /\ \A i \in 1..size : Bytes[i] = taken + i
    BY <1>1, <1>2, Zenon DEF IInv, Stream, Holds
  <1>7. want > 0 => \A i \in 1..size : Bytes[i] = 0
    BY <1>1, <1>2 DEF IInv, Stream, Zeros, Zero
  <1>8. want > 0 => ignored
    BY <1>1, <1>3, <1>5
  <1>9. ignored => current \in 1..Len(sent)
    BY <1>3, <1>5
  <1> QED BY <1>1, <1>2, <1>3, <1>5, <1>6, <1>7, <1>8, <1>9, Zenon

\* Bytes with the end of a head in them: when no body was left unread they begin with
\* the next head, and it is complete.
LEMMA Complete ==
  ASSUME IInv, at = "read_request", isComplete
  PROVE  /\ want = 0
         /\ ~ignored => /\ current + 1 \in 1..Len(sent) /\ sent[current + 1].head <= size
                        /\ parse(current + 1)
  <1>1. /\ size \in Nat /\ taken \in Nat /\ received \in Nat /\ want \in Nat
        /\ Len(sent) \in Nat /\ current \in 0..Len(sent)
        /\ want = 0 => size = received - taken /\ \A i \in 1..size : Bytes[i] = taken + i
        /\ want > 0 => \A i \in 1..size : Bytes[i] = 0
        /\ ~ignored => taken = End(sent, current)
    BY Waiting, Zenon DEF Reading
  <1>2. PICK i \in 1..size, k \in 1..Len(sent) : Bytes[i] = HeadOf(sent, k)
    BY SameEnds DEF isComplete
  <1>3. sent \in Sents /\ Ends(sent)
    BY DEF IInv, Types
  <1>4. HeadOf(sent, k) \in Nat \ {0}
    BY <1>1, <1>3, EndsOrder, Zenon
  <1>5. want = 0
    BY <1>1, <1>2, <1>4
  <1>6. ASSUME ~ignored
        PROVE  /\ current + 1 \in 1..Len(sent) /\ sent[current + 1].head <= size
               /\ parse(current + 1)
    <2>1. taken = End(sent, current) /\ taken + i = HeadOf(sent, k)
      BY <1>1, <1>2, <1>5, <1>6
    <2>2. /\ current < k => End(sent, current) < HeadOf(sent, k)
          /\ k <= current => HeadOf(sent, k) <= End(sent, current)
      BY <1>1, <1>3, EndsOrder, Zenon
    <2>3. current < k
      BY <1>1, <2>1, <2>2
    <2> DEFINE n == current + 1
    <2>4. n \in 1..Len(sent) /\ n <= k /\ n - 1 = current
      BY <1>1, <2>3
    <2> HIDE DEF n
    <2>5. HeadOf(sent, n) <= HeadOf(sent, k)
      <3>1. CASE n = k
        BY <1>4, <3>1
      <3>2. CASE n < k
        <4>1. n \in 0..Len(sent)
          BY <1>1, <2>4
        <4>2. HeadOf(sent, n) <= End(sent, n) /\ End(sent, n) \in Nat
          <5>1. n <= n
            BY <2>4
          <5> QED BY <1>3, <2>4, <4>1, <5>1, EndsOrder, Zenon
        <4>3. End(sent, n) < HeadOf(sent, k)
          BY <1>3, <3>2, <4>1, EndsOrder, Zenon
        <4>4. HeadOf(sent, n) \in Nat
          BY <1>3, <2>4, <4>1, EndsOrder
        <4> QED BY <1>4, <4>2, <4>3, <4>4
      <3> QED BY <1>1, <2>4, <3>1, <3>2
    <2>6. /\ sent[n].head \in Nat \ {0}
          /\ HeadOf(sent, n) = End(sent, n - 1) + sent[n].head
      BY <1>3, <2>4, OneMessage, Zenon
    <2>7. HeadOf(sent, n) = taken + sent[n].head
      BY <2>1, <2>4, <2>6
    <2>8. sent[n].head <= size
      <3> DEFINE h == sent[n].head
                 e == HeadOf(sent, n)
                 f == HeadOf(sent, k)
      <3>1. /\ taken \in Nat /\ size \in Nat /\ i \in 1..size /\ h \in Nat \ {0}
            /\ taken + i = f /\ e <= f /\ e = taken + h
        BY <1>1, <1>2, <2>1, <2>5, <2>6, <2>7, Zenon
      <3> HIDE DEF h, e, f
      <3>2. h <= size
        BY <3>1
      <3> QED BY <3>2 DEF h
    <2>9. SubSeq(Bytes, 1, sent[n].head) = Head_(n)
      <3>1. Head_(n) = Run(taken, taken + sent[n].head)
        BY <2>1, <2>4, <2>7, SameEnds DEF Head_
      <3>2. Bytes \in Seq(Nat) /\ Len(Bytes) = size
        <4>1. request_buffer.mem \in Seq(Nat) /\ size \in 0..Len(request_buffer.mem)
          BY DEF IInv, Types, BufferOf
        <4> QED BY <4>1, FrontOf, Zenon DEF Bytes
      <3> DEFINE b == Bytes
                 h == sent[n].head
      <3>3. /\ b \in Seq(Nat) /\ h \in Nat /\ h <= Len(b)
            /\ \A x \in 1..size : b[x] = taken + x
        BY <1>1, <1>5, <2>6, <2>8, <3>2
      <3> HIDE DEF b, h
      <3>4. Holds(b, h, taken)
        <4>1. Len(b) = size
          BY <3>2, Zenon DEF b
        <4>2. \A x \in 1..h : x \in 1..size
          BY <3>3, <4>1
        <4> QED BY <3>3, <4>2, Zenon DEF Holds
      <3>5. SubSeq(b, 1, h) = Run(taken, taken + h)
        BY <1>1, <3>3, <3>4, HeldFirst, Zenon
      <3> QED BY <3>1, <3>5 DEF b, h
    <2>10. parse(n)
      BY <2>8, <2>9 DEF parse
    <2> QED BY <2>4, <2>8, <2>10 DEF n
  <1> QED BY <1>5, <1>6

\* The parsers accept the next request and no other one, and none when a body was left
\* unread.
LEMMA Parsed ==
  ASSUME IInv, at = "read_request", NEW k \in 1..Len(sent), parse(k)
  PROVE  ~ignored /\ want = 0 /\ k = current + 1
  <1>1. /\ size \in Nat /\ taken \in Nat /\ want \in Nat
        /\ Len(sent) \in Nat /\ current \in 0..Len(sent)
        /\ want = 0 => \A i \in 1..size : Bytes[i] = taken + i
        /\ want > 0 => \A i \in 1..size : Bytes[i] = 0
        /\ ~ignored => taken = End(sent, current)
        /\ ignored => /\ current \in 1..Len(sent)
                      /\ HeadOf(sent, current) <= taken /\ taken < End(sent, current)
    BY Waiting, Zenon DEF Reading
  <1>2. sent \in Sents /\ Ends(sent)
    BY DEF IInv, Types
  <1>3. /\ sent[k].head \in Nat \ {0} /\ End(sent, k - 1) \in Nat
        /\ HeadOf(sent, k) = End(sent, k - 1) + sent[k].head
    BY <1>2, OneMessage, Zenon
  <1>4. sent[k].head <= size /\ SubSeq(Bytes, 1, sent[k].head) = Head_(k)
    BY DEF parse
  <1>5. 1 \in 1..sent[k].head /\ 1 \in 1..size
    BY <1>1, <1>3, <1>4
  <1>6. Bytes[1] = End(sent, k - 1) + 1
    <2>1. Head_(k) = Run(End(sent, k - 1), HeadOf(sent, k))
      BY SameEnds DEF Head_
    <2>2. Head_(k)[1] = End(sent, k - 1) + 1
      BY <1>3, <1>5, <2>1 DEF Run
    <2>3. Bytes \in Seq(Nat) /\ sent[k].head \in 0..Len(Bytes)
      <3>1. request_buffer.mem \in Seq(Nat) /\ size \in 0..Len(request_buffer.mem)
        BY DEF IInv, Types, BufferOf
      <3>2. Bytes \in Seq(Nat) /\ Len(Bytes) = size
        BY <3>1, FrontOf, Zenon DEF Bytes
      <3> QED BY <1>3, <1>4, <3>2
    <2>4. SubSeq(Bytes, 1, sent[k].head)[1] = Bytes[1]
      BY <1>5, <2>3, FrontOf, Zenon
    <2> QED BY <1>4, <2>2, <2>4, Zenon
  <1>7. want = 0 /\ taken = End(sent, k - 1)
    BY <1>1, <1>3, <1>5, <1>6
  <1>8. ~ignored
    <2> SUFFICES ASSUME ignored PROVE FALSE
      OBVIOUS
    <2>1. k - 1 \in 0..Len(sent)
      BY <1>1
    <2>2. /\ HeadOf(sent, current) <= taken /\ taken < End(sent, current)
          /\ current \in 1..Len(sent) /\ current \in 0..Len(sent)
      BY <1>1
    <2>3. k - 1 < current => End(sent, k - 1) < HeadOf(sent, current)
      BY <1>2, <2>1, <2>2, EndsOrder, Zenon
    <2>4. current < k - 1 => End(sent, current) < End(sent, k - 1)
      BY <1>2, <2>1, <2>2 DEF Ends
    <2>5. HeadOf(sent, current) \in Nat /\ End(sent, current) \in Nat
      BY <1>2, <2>2, EndsOrder
    <2>6. current = k - 1
      BY <1>1, <1>3, <1>7, <2>2, <2>3, <2>4, <2>5
    <2> QED BY <1>1, <1>7, <2>2, <2>6
  <1>9. k = current + 1
    BY <1>1, <1>2, <1>7, <1>8, EndsOrder
  <1> QED BY <1>7, <1>8, <1>9

\* Bytes without the end of a head in them: they are a part of the next head, unless a
\* body was left unread.
LEMMA Incomplete ==
  ASSUME IInv, at = "read_request", ~isComplete, ~ignored
  PROVE  /\ current < Len(sent) => size < sent[current + 1].head
         /\ current = Len(sent) => size = 0
  <1>1. /\ size \in Nat /\ taken \in Nat /\ received \in Nat /\ want = 0
        /\ Len(sent) \in Nat /\ current \in 0..Len(sent)
        /\ size = received - taken /\ \A i \in 1..size : Bytes[i] = taken + i
        /\ taken = End(sent, current)
    BY Waiting DEF Reading
  <1>2. sent \in Sents /\ Ends(sent) /\ taken <= received /\ received <= End(sent, Len(sent))
    BY DEF IInv, Types
  <1>3. ASSUME current < Len(sent) PROVE size < sent[current + 1].head
    <2> DEFINE n == current + 1
    <2>1. n \in 1..Len(sent) /\ n - 1 = current
      BY <1>1, <1>3
    <2> HIDE DEF n
    <2>2. /\ sent[n].head \in Nat \ {0}
          /\ HeadOf(sent, n) = End(sent, n - 1) + sent[n].head
      BY <1>2, <2>1, OneMessage, Zenon
    <2> DEFINE h == sent[n].head
    <2>3. HeadOf(sent, n) = taken + h
      BY <1>1, <2>1, <2>2
    <2> SUFFICES ASSUME ~(size < h) PROVE FALSE
      BY Zenon DEF n
    <2>4. h \in 1..size
      <3>1. size \in Nat /\ h \in Nat \ {0}
        BY <1>1, <2>2, Zenon
      <3> HIDE DEF h
      <3> QED BY <3>1
    <2>5. Bytes[h] = HeadOf(sent, n)
      BY <1>1, <2>3, <2>4, Zenon
    <2> QED BY <2>1, <2>4, <2>5, SameEnds DEF isComplete
  <1>4. current = Len(sent) => size = 0
    BY <1>1, <1>2
  <1> QED BY <1>3, <1>4

----------------------------------------------------------------------------
(* Handlers.                                                               *)

\* Bytes among the first a are among the first b.
LEMMA BufferLater ==
  ASSUME NEW v, NEW a \in Nat, NEW b \in Nat, BufferOf(v, a), a <= b
  PROVE  BufferOf(v, b)
  <1>1. /\ v \in [mem : Seq(Nat), size : Nat] /\ v.size <= Len(v.mem)
        /\ \A i \in 1..Len(v.mem) : v.mem[i] <= a
    BY Zenon DEF BufferOf
  <1>2. \A i \in 1..Len(v.mem) : v.mem[i] \in Nat
    BY <1>1
  <1>3. \A i \in 1..Len(v.mem) : v.mem[i] <= b
    <2> SUFFICES ASSUME NEW i \in 1..Len(v.mem) PROVE v.mem[i] <= b
      BY Zenon
    <2>1. v.mem[i] \in Nat /\ v.mem[i] <= a
      BY <1>1, <1>2, Zenon
    <2> QED BY <2>1
  <1> QED BY <1>1, <1>3, Zenon DEF BufferOf

\* Facts about a connection that is with a handler.
LEMMA InHandler ==
  ASSUME IInv, at \in Handling
  PROVE  /\ sent \in Sents /\ Ends(sent) /\ Len(sent) \in Nat
         /\ current \in 1..Len(sent) /\ current = Len(answers) + 1 /\ ~ignored /\ ~Refused
         /\ ignored \in BOOLEAN /\ answers \in Seq(Codes)
         /\ taken \in Nat /\ received \in Nat /\ want \in Nat /\ size \in Nat
         /\ taken <= received /\ received <= End(sent, Len(sent))
         /\ BufferOf(request_buffer, received) /\ BufferOf(body_buffer, received)
         /\ HeadOf(sent, current) \in Nat /\ End(sent, current) \in Nat
         /\ End(sent, current) = HeadOf(sent, current) + sent[current].length
         /\ sent[current].length \in Nat /\ End(sent, Len(sent)) \in Nat
         /\ HeadOf(sent, current) <= taken /\ taken <= End(sent, current)
         /\ Short(sent, current) => Len(body_buffer.mem) = BUF_SIZE
  <1>1. /\ sent \in Sents /\ Ends(sent) /\ current \in 0..Len(sent)
        /\ ignored \in BOOLEAN /\ answers \in Seq(Codes)
        /\ taken \in Nat /\ received \in Nat /\ want \in Nat /\ size \in Nat
        /\ taken <= received /\ received <= End(sent, Len(sent))
        /\ BufferOf(request_buffer, received) /\ BufferOf(body_buffer, received)
    BY Zenon DEF IInv, Types
  <1>2. current = Len(answers) + 1 /\ ~ignored
    BY Zenon DEF IInv, Order
  <1>3. ~Refused
    BY <1>2 DEF IInv, Order
  <1>4. Len(sent) \in Nat
    BY <1>1, CycleAssumption DEF Sents
  <1>5. current \in 1..Len(sent)
    BY <1>1, <1>2, <1>4
  <1>6. /\ sent[current].length \in Nat /\ sent[current].head \in Nat
        /\ End(sent, current - 1) \in Nat /\ End(sent, current) \in Nat
        /\ HeadOf(sent, current) = End(sent, current - 1) + sent[current].head
        /\ End(sent, current) = HeadOf(sent, current) + sent[current].length
    BY <1>1, <1>5, OneMessage
  <1>7. HeadOf(sent, current) \in Nat
    BY <1>6
  <1>8. End(sent, Len(sent)) \in Nat
    <2>1. Len(sent) \in 0..Len(sent)
      BY <1>4
    <2> QED BY <1>1, <2>1, Zenon DEF Ends
  <1>9. HeadOf(sent, current) <= taken /\ taken <= End(sent, current)
    <2>1. at = "sink" \/ at \in Bodily
      BY DEF Handling, Bodily
    <2>2. CASE at = "sink"
      BY <1>6, <1>7, <2>2 DEF IInv, Place
    <2>3. CASE at \in Bodily
      BY <1>1, <1>6, <2>3 DEF IInv, Place
    <2> QED BY <2>1, <2>2, <2>3
  <1>10. Short(sent, current) => Len(body_buffer.mem) = BUF_SIZE
    BY DEF IInv, Growth, Served
  <1> QED BY <1>1, <1>2, <1>3, <1>4, <1>5, <1>6, <1>7, <1>8, <1>9, <1>10, Zenon

\* A handler answers: what it has left of the body stays in body_buffer_, or the read
\* of it has failed and there is nothing but zeros.
LEMMA AnswerStep ==
  ASSUME IInv, at \in Handling,
         NEW code \in Replies,
         UNCHANGED <<backend, sent, request_buffer, size, current>>,
         answers' = Append(answers, code), at' = "sending",
         ignored' = (ignored \/ taken' # MessageEnd(current)),
         BufferOf(body_buffer', received'),
         Short(sent, current) => Len(body_buffer'.mem) = BUF_SIZE,
         received' \in Nat, received <= received', received' <= End(sent, Len(sent)),
         taken' \in Nat, taken' <= received',
         HeadOf(sent, current) <= taken', taken' <= End(sent, current),
         want' \in Nat, body' \in Seq(Nat),
         want' = 0 =>
           /\ Pends(body_buffer', taken', received')
           /\ body' = <<>> \/ body' = Run(HeadOf(sent, current), End(sent, current)),
         want' > 0 =>
           taken' < End(sent, current) /\ Zeros(body_buffer'.mem, body_buffer'.size)
  PROVE  IInv'
  <1>1. /\ sent \in Sents /\ Ends(sent) /\ Len(sent) \in Nat
        /\ current \in 1..Len(sent) /\ current = Len(answers) + 1 /\ ~ignored /\ ~Refused
        /\ answers \in Seq(Codes) /\ received \in Nat /\ size \in Nat
        /\ BufferOf(request_buffer, received)
        /\ HeadOf(sent, current) \in Nat /\ End(sent, current) \in Nat
    BY InHandler, Zenon
  <1>2. /\ answers' \in Seq(Codes) /\ Len(answers') = current
        /\ answers' # <<>> /\ answers'[Len(answers')] = code
    <2>1. code \in Codes
      BY DEF Codes
    <2>2. /\ answers' \in Seq(Codes) /\ Len(answers') = Len(answers) + 1
          /\ answers'[Len(answers) + 1] = code /\ answers' # <<>>
      BY <1>1, <2>1, OneMore, Zenon
    <2> QED BY <1>1, <2>2, Zenon
  <1>3. ~Refused'
    <2>1. code # "BadRequest"
      BY DEF Replies
    <2> QED BY <1>2, <2>1 DEF Refused
  <1>4. ignored' = (taken' # End(sent, current))
    <2>1. MessageEnd(current) = End(sent, current)
      BY SameEnds, Zenon
    <2> QED BY <1>1, <2>1
  <1>5. want' > 0 => ignored'
    <2> SUFFICES ASSUME want' > 0 PROVE ignored'
      OBVIOUS
    <2>1. taken' < End(sent, current)
      OBVIOUS
    <2>2. taken' # End(sent, current)
      BY <1>1, <2>1
    <2> QED BY <1>4, <2>2, Zenon
  <1>6. Ends(sent)' /\ Types'
    <2>1. BufferOf(request_buffer', received')
      BY <1>1, BufferLater
    <2>2. size' <= Len(request_buffer'.mem) /\ backend' \in Backends
      BY DEF IInv, Types
    <2>3. current' \in 0..Len(sent') /\ ignored' \in BOOLEAN
      BY <1>1, <1>4
    <2> QED BY <1>1, <1>2, <2>1, <2>2, <2>3 DEF Types
  <1>7. Order'
    BY <1>1, <1>2, <1>3 DEF Order, Between, Handling
  <1>8. Place'
    <2>1. /\ at' \notin Bodily /\ at' \notin {"sink", "readingWhole", "readingParts"}
          /\ at' \notin Reading
      BY DEF Bodily, Reading
    <2>2. ~ignored' => taken' = End(sent, current)
      BY <1>4, Zenon
    <2>3. want' = 0 \/ want' > 0
      OBVIOUS
    <2>4. ~ignored' => want' = 0
      BY <1>5, <2>3, Zenon
    <2>5. ignored' => taken' < End(sent, current)
      <3>1. ignored' => taken' # End(sent, current)
        BY <1>4, Zenon
      <3> QED BY <1>1, <3>1
    <2>6. current >= 1
      BY <1>1
    <2> QED BY <2>1, <2>2, <2>4, <2>5, <2>6 DEF Place
  <1>9. Stream'
    BY <1>3 DEF Stream, Reading
  <1>10. Growth'
    BY <1>3 DEF IInv, Growth, Served, Reading, Handling
  <1>11. HeadThere'
    BY <1>3 DEF IInv, HeadThere, Served
  <1> QED BY <1>6, <1>7, <1>8, <1>9, <1>10, <1>11 DEF IInv

\* A handler goes on reading the body.
LEMMA BodyStep ==
  ASSUME IInv, at \in Handling, at' \in Bodily,
         UNCHANGED <<backend, sent, request_buffer, size, current, answers, ignored>>,
         BufferOf(body_buffer', received'),
         Short(sent, current) => Len(body_buffer'.mem) = BUF_SIZE,
         received' \in Nat, received <= received', received' <= End(sent, Len(sent)),
         taken' \in Nat, taken' <= received', HeadOf(sent, current) <= taken',
         want' \in Nat, taken' + want' = End(sent, current),
         body' = Run(HeadOf(sent, current), taken'),
         at' # "parts" => want' > 0 /\ received' = taken',
         at' # "readingParts" => Pends(body_buffer', taken', received'),
         at' = "readingParts" =>
           /\ body_buffer'.size > 0 /\ body_buffer'.size <= want'
           /\ Zeros(body_buffer'.mem, body_buffer'.size)
  PROVE  IInv'
  <1>1. /\ sent \in Sents /\ Ends(sent) /\ Len(sent) \in Nat
        /\ current \in 1..Len(sent) /\ current = Len(answers) + 1 /\ ~ignored /\ ~Refused
        /\ answers \in Seq(Codes) /\ received \in Nat /\ size \in Nat
        /\ BufferOf(request_buffer, received)
        /\ HeadOf(sent, current) \in Nat /\ End(sent, current) \in Nat
    BY InHandler, Zenon
  <1>2. at' \in Handling /\ at' \notin Reading /\ at' \notin {"start", "sending", "closed", "sink"}
    BY DEF Bodily, Handling, Reading
  <1>3. ~Refused' /\ ignored' = ignored /\ ~Between'
    BY <1>1, <1>2 DEF Refused, Between
  <1>4. Ends(sent)' /\ Types'
    <2>1. BufferOf(request_buffer', received')
      BY <1>1, BufferLater
    <2>2. size' <= Len(request_buffer'.mem) /\ backend' \in Backends
      BY DEF IInv, Types
    <2>3. current' \in 0..Len(sent')
      BY <1>1
    <2>4. body' \in Seq(Nat)
      BY <1>1, Runs, Zenon
    <2>5. at' \in {"start", "sending", "closed"} \cup Reading \cup Handling
      BY <1>2
    <2>6. ignored' \in BOOLEAN
      BY DEF IInv, Types
    <2> QED BY <1>1, <2>1, <2>2, <2>3, <2>4, <2>5, <2>6, Zenon DEF Types
  <1>5. Order'
    BY <1>1, <1>2, <1>3 DEF Order
  <1>6. Place'
    <2>1. at' = "readingWhole" => body_buffer'.size = 0
      <3>1. at' = "readingWhole" => received' = taken' /\ body_buffer'.size = received' - taken'
        BY DEF Pends
      <3> QED BY <3>1
    <2>2. at' \in {"readingWhole", "readingParts"} => want' > 0 /\ received' = taken'
      OBVIOUS
    <2>3. at' = "readingParts" => body_buffer'.size > 0 /\ body_buffer'.size <= want'
      OBVIOUS
    <2>4. at' # "sink" /\ at' # "sending"
      BY <1>2
    <2> QED BY <1>2, <1>3, <2>1, <2>2, <2>3, <2>4, Zenon DEF Place
  <1>7. Stream'
    <2>1. at' # "start" /\ at' # "sending" /\ at' # "sink" /\ at' # "reading"
      BY <1>2 DEF Reading
    <2>2. at' \in {"sink", "parts", "readingWhole"} => at' # "readingParts"
      OBVIOUS
    <2> QED BY <1>2, <2>1, <2>2, Zenon DEF Stream
  <1>8. Growth'
    <2>1. /\ backend = "stream" => Short(sent, Len(sent))
          /\ Short(sent, current) => Len(request_buffer.mem) = BUF_SIZE
      BY Zenon DEF IInv, Growth, Served
    <2>2. at' # "start" /\ at' # "reading"
      BY <1>2 DEF Reading
    <2> QED BY <1>2, <2>1, <2>2, Zenon DEF Growth
  <1>9. HeadThere'
    BY <1>2, <1>3 DEF IInv, HeadThere, Served
  <1> QED BY <1>4, <1>5, <1>6, <1>7, <1>8, <1>9 DEF IInv

\* clear() of a vector.
LEMMA Cleared ==
  ASSUME NEW v, NEW r, BufferOf(v, r), NEW w, w = [v EXCEPT !.size = 0]
  PROVE  BufferOf(w, r) /\ w.size = 0 /\ w.mem = v.mem
  <1>1. v \in [mem : Seq(Nat), size : Nat]
    BY DEF BufferOf
  <1>2. w \in [mem : Seq(Nat), size : Nat] /\ w.size = 0 /\ w.mem = v.mem
    BY <1>1
  <1>3. 0 <= Len(v.mem)
    BY <1>1
  <1> QED BY <1>2, <1>3, Zenon DEF BufferOf

\* The first n elements of a vector are taken from it.
TakenOff(v, n) == Fill(v, SubSeq(v.mem, n + 1, v.size))

\* What they are, and what stays, when v holds the bytes behind t up to r.
TakesFront(v, n, t, r) ==
  /\ SubSeq(v.mem, 1, n) = Run(t, t + n)
  /\ Pends(TakenOff(v, n), t + n, r)
  /\ Len(TakenOff(v, n).mem) = Len(v.mem)

\* A handler gets the first bytes of the body, and those behind them stay.
LEMMA FrontTaken ==
  ASSUME NEW r \in Nat, NEW t \in Nat, NEW v, Pends(v, t, r), NEW n \in Nat, n <= v.size
  PROVE  TakesFront(v, n, t, r)
  <1> DEFINE q == v.mem
             s == v.size
             u == SubSeq(q, n + 1, s)
             w == TakenOff(v, n)
  <1>1. BufferOf(v, r) /\ t <= r /\ s = r - t /\ Holds(q, s, t)
    BY Zenon DEF Pends
  <1>2. q \in Seq(Nat) /\ s \in Nat /\ s <= Len(q)
    BY <1>1 DEF BufferOf
  <1>3. Len(q) \in Nat
    BY <1>2
  <1>4. w = Fill(v, u)
    BY DEF TakenOff
  <1>5. n <= s
    OBVIOUS
  <1> HIDE DEF q, s, w
  <1>6. Holds(q, n, t) /\ n \in 0..s /\ s \in 0..Len(q)
    BY <1>1, <1>2, <1>3, <1>5 DEF Holds
  <1>7. SubSeq(q, 1, n) = Run(t, t + n)
    BY <1>2, <1>6, HeldFirst
  <1>8. /\ u \in Seq(Nat) /\ Len(u) = s - n
        /\ \A i \in 1..(s - n) : u[i] = t + n + i
    <2>1. u \in Seq(Nat) /\ Len(u) = s - n /\ \A i \in 1..(s - n) : u[i] = q[n + i]
      BY <1>2, <1>6, PartOf
    <2> HIDE DEF u
    <2>2. ASSUME NEW i \in 1..(s - n) PROVE u[i] = t + n + i
      <3>1. n + i \in 1..s /\ t + (n + i) = t + n + i
        BY <1>2, <1>5
      <3>2. q[n + i] = t + (n + i)
        BY <1>1, <3>1, Zenon DEF Holds
      <3> QED BY <2>1, <3>1, <3>2, Zenon
    <2> QED BY <2>1, <2>2, Zenon
  <1> HIDE DEF u
  <1>9. Len(u) \in Nat /\ Len(u) <= Len(q) /\ Len(u) = r - (t + n) /\ t + n \in Nat
    BY <1>1, <1>2, <1>3, <1>5, <1>8
  <1>10. ASSUME NEW i \in 1..Len(u) PROVE u[i] = (t + n) + i /\ u[i] <= r
    <2>1. i \in 1..(s - n)
      BY <1>8
    <2>2. u[i] = t + n + i
      BY <1>8, <2>1, Zenon
    <2> QED BY <1>9, <2>2
  <1>11. BytesOf(u, r)
    BY <1>8, <1>10, Zenon DEF BytesOf
  <1>12. /\ BufferOf(w, r) /\ w.size = Len(u)
         /\ Len(w.mem) = IF Len(u) <= Len(q) THEN Len(q) ELSE Len(u)
         /\ \A i \in 1..Len(u) : w.mem[i] = u[i]
    <2>1. IsFilled(Fill(v, u), v, u, r)
      BY <1>1, <1>11, Filled, Zenon
    <2> QED BY <1>4, <2>1, Zenon DEF IsFilled, q
  <1>13. Len(w.mem) = Len(q) /\ w.size = r - (t + n) /\ t + n <= r
    BY <1>1, <1>5, <1>9, <1>12
  <1>14. w.size <= Len(w.mem)
    BY <1>12, Zenon DEF BufferOf
  <1>15. Holds(w.mem, w.size, t + n)
    BY <1>10, <1>12, <1>14, Zenon DEF Holds
  <1>16. Pends(w, t + n, r)
    BY <1>12, <1>13, <1>15, Zenon DEF Pends
  <1> QED BY <1>7, <1>13, <1>16, Zenon DEF TakesFront, q, w

\* Connection::read into a buffer of the caller, for the whole body behind a head.
LEMMA ReadBodyStep ==
  ASSUME IInv, at = "sink", sent[current].length > 0, ReadBody(sent[current].length),
         UNCHANGED <<backend, sent, received, request_buffer, size, current>>
  PROVE  IInv'
  <1> DEFINE n == sent[current].length
             s == body_buffer.size
             h == HeadOf(sent, current)
             e == End(sent, current)
  <1>1. at \in Handling
    BY DEF Handling
  <1>2. /\ sent \in Sents /\ Ends(sent) /\ Len(sent) \in Nat /\ current \in 1..Len(sent)
        /\ taken \in Nat /\ received \in Nat /\ taken <= received
        /\ received <= End(sent, Len(sent)) /\ End(sent, Len(sent)) \in Nat
        /\ BufferOf(body_buffer, received)
        /\ h \in Nat /\ e \in Nat /\ e = h + n /\ n \in Nat
        /\ Short(sent, current) => Len(body_buffer.mem) = BUF_SIZE
    BY <1>1, InHandler, Zenon
  <1>3. taken = h /\ want = 0 /\ body = <<>>
    BY DEF IInv, Place
  <1>4. Pends(body_buffer, taken, received)
    BY DEF IInv, Stream
  <1>5. s = received - taken /\ Holds(body_buffer.mem, s, taken)
    BY <1>4, Zenon DEF Pends
  <1>6. body_buffer.mem \in Seq(Nat) /\ s \in Nat /\ s <= Len(body_buffer.mem)
    BY <1>2 DEF BufferOf
  <1>7. /\ n <= s =>
             /\ body' = SubSeq(body_buffer.mem, 1, n) /\ taken' = taken + n /\ want' = 0
             /\ body_buffer' = TakenOff(body_buffer, n)
             /\ answers' = Append(answers, "Ok") /\ at' = "sending"
             /\ ignored' = (ignored \/ taken' # MessageEnd(current))
        /\ ~(n <= s) =>
             /\ body' = Content(body_buffer) /\ body_buffer' = [body_buffer EXCEPT !.size = 0]
             /\ want' = n - s /\ taken' = taken + s
             /\ at' = "readingWhole" /\ UNCHANGED <<answers, ignored>>
    BY Zenon DEF ReadBody, Answer, TakenOff
  <1> HIDE DEF n, s, h, e
  <1>8. CASE n <= s
    <2>1. taken' = e /\ taken' \in Nat /\ taken' <= received /\ h <= taken' /\ taken' <= e
      <3>1. taken' = h + n /\ taken' = e
        BY <1>2, <1>3, <1>7, <1>8, Zenon
      <3>2. s = received - h /\ h \in Nat /\ e \in Nat /\ n \in Nat /\ received \in Nat
        BY <1>2, <1>3, <1>5, Zenon
      <3> QED BY <1>8, <3>1, <3>2
    <2>2. /\ body' = Run(taken, taken + n) /\ Pends(body_buffer', taken + n, received)
          /\ Len(body_buffer'.mem) = Len(body_buffer.mem)
      <3>1. n <= body_buffer.size
        BY <1>8 DEF s
      <3>2. /\ SubSeq(body_buffer.mem, 1, n) = Run(taken, taken + n)
            /\ Pends(TakenOff(body_buffer, n), taken + n, received)
            /\ Len(TakenOff(body_buffer, n).mem) = Len(body_buffer.mem)
        <4>1. TakesFront(body_buffer, n, taken, received)
          BY <1>2, <1>4, <3>1, FrontTaken
        <4> QED BY <4>1, Zenon DEF TakesFront
      <3> QED BY <1>7, <1>8, <3>2, Zenon
    <2>3. body' = Run(h, e) /\ Pends(body_buffer', taken', received)
      BY <1>3, <1>7, <1>8, <2>1, <2>2, Zenon
    <2>4. body' \in Seq(Nat)
      <3>1. h <= e
        BY <1>2
      <3> QED BY <1>2, <2>3, <3>1, Runs, Zenon
    <2>5. BufferOf(body_buffer', received)
      BY <2>3, Zenon DEF Pends
    <2>6. received <= received /\ ~(want' > 0) /\ want' \in Nat /\ "Ok" \in Replies
      BY <1>2, <1>7, <1>8 DEF Replies
    <2> QED BY <1>1, <1>2, <1>7, <1>8, <2>1, <2>2, <2>3, <2>4, <2>5, <2>6, AnswerStep, Zenon DEF h, e
  <1>9. CASE ~(n <= s)
    <2>1. /\ BufferOf(body_buffer', received) /\ body_buffer'.size = 0
          /\ body_buffer'.mem = body_buffer.mem
      BY <1>2, <1>7, <1>9, Cleared, Zenon
    <2>2. /\ taken' = received /\ taken' = taken + s /\ want' \in Nat /\ want' > 0
          /\ taken' + want' = e /\ h <= taken' /\ taken' \in Nat /\ taken' <= received
      <3>1. /\ taken \in Nat /\ received \in Nat /\ n \in Nat /\ s \in Nat /\ h \in Nat
            /\ e = h + n /\ taken = h /\ s = received - taken
            /\ want' = n - s /\ taken' = taken + s /\ ~(n <= s)
        BY <1>2, <1>3, <1>5, <1>6, <1>7, <1>9, Zenon
      <3> QED BY <3>1
    <2>3. body' = Run(h, taken')
      <3>1. SubSeq(body_buffer.mem, 1, s) = Run(taken, taken + s)
        BY <1>2, <1>5, <1>6, HeldFirst, Zenon
      <3> QED BY <1>3, <1>7, <1>9, <2>2, <3>1, Zenon DEF Content, s
    <2>4. Pends(body_buffer', taken', received)
      <3>1. Holds(body_buffer'.mem, 0, taken')
        BY <1>6, <2>1 DEF Holds
      <3>2. 0 = received - taken'
        BY <1>2, <2>2
      <3> QED BY <2>1, <2>2, <3>1, <3>2, Zenon DEF Pends
    <2>5. at' \in Bodily /\ at' # "parts" /\ at' # "readingParts" /\ received <= received
      BY <1>2, <1>7, <1>9 DEF Bodily
    <2> QED BY <1>1, <1>2, <1>7, <1>9, <2>1, <2>2, <2>3, <2>4, <2>5, BodyStep, Zenon DEF h, e
  <1> QED BY <1>8, <1>9

\* A handler answers without reading.
LEMMA SinkAnswer ==
  ASSUME IInv, at = "sink", NEW code \in Replies, Answer(code),
         UNCHANGED <<backend, sent, received, taken, buffers, current, want, body>>
  PROVE  IInv'
  <1>1. at \in Handling
    BY DEF Handling
  <1>2. /\ sent \in Sents /\ Len(sent) \in Nat /\ taken \in Nat /\ received \in Nat
        /\ taken <= received /\ received <= End(sent, Len(sent))
        /\ BufferOf(body_buffer, received) /\ HeadOf(sent, current) <= taken
        /\ taken <= End(sent, current)
        /\ Short(sent, current) => Len(body_buffer.mem) = BUF_SIZE
    BY <1>1, InHandler, Zenon
  <1>3. /\ UNCHANGED <<backend, sent, request_buffer, size, current>>
        /\ received' = received /\ taken' = taken /\ body_buffer' = body_buffer
        /\ want' = want /\ body' = body
        /\ answers' = Append(answers, code) /\ at' = "sending"
        /\ ignored' = (ignored \/ taken' # MessageEnd(current))
    BY Zenon DEF Answer, buffers
  <1>4. want = 0 /\ body = <<>>
    BY DEF IInv, Place
  <1>5. Pends(body_buffer, taken, received)
    BY DEF IInv, Stream
  <1>6. received <= received' /\ want' = 0 /\ want' \in Nat /\ ~(want' > 0)
        /\ body' \in Seq(Nat)
    BY <1>2, <1>3, <1>4
  <1> QED BY <1>1, <1>2, <1>3, <1>4, <1>5, <1>6, AnswerStep, Zenon

\* A handler is given the whole body, or the answer is that it is too large.
LEMMA WholeStep ==
  ASSUME IInv, at = "sink", NEW limit, ReadWholeRequest(limit),
         UNCHANGED <<backend, sent, received, request_buffer, size, current>>
  PROVE  IInv'
  <1> DEFINE n == sent[current].length
             large == limit # 0 /\ n > limit
  <1>1. n \in Nat
    <2>1. at \in Handling
      BY DEF Handling
    <2> QED BY <2>1, InHandler, Zenon
  <1>2. /\ large => UNCHANGED <<body_buffer, want, body, taken>> /\ Answer("RequestEntityTooLarge")
        /\ ~large /\ n = 0 => UNCHANGED <<body_buffer, want, body, taken>> /\ Answer("Ok")
        /\ ~large /\ n > 0 => ReadBody(n)
    <2> HIDE DEF large
    <2>1. CASE large
      BY <2>1, Zenon DEF ReadWholeRequest, large
    <2>2. CASE ~large /\ n = 0
      <3>1. ~(n > 0)
        BY <2>2
      <3> QED BY <2>2, <3>1, Zenon DEF ReadWholeRequest, large
    <2>3. CASE ~large /\ n > 0
      <3>1. n # 0
        BY <2>3
      <3> QED BY <2>3, <3>1, Zenon DEF ReadWholeRequest, large
    <2> QED BY <2>1, <2>2, <2>3, Zenon
  <1> HIDE DEF large
  <1>3. CASE large
    BY <1>2, <1>3, SinkAnswer DEF buffers, Replies
  <1>4. CASE ~large /\ n = 0
    BY <1>2, <1>4, SinkAnswer DEF buffers, Replies
  <1>5. CASE ~large /\ n > 0
    BY <1>2, <1>5, ReadBodyStep
  <1>6. n = 0 \/ n > 0
    BY <1>1
  <1> QED BY <1>3, <1>4, <1>5, <1>6

\* A handler begins to read the body in parts.
LEMMA PartsStep ==
  ASSUME IInv, HandlerReadsParts
  PROVE  IInv'
  <1>1. at = "sink" /\ at \in Handling
    BY DEF HandlerReadsParts, Handler, Handling
  <1>2. /\ Len(sent) \in Nat /\ taken \in Nat /\ received \in Nat
        /\ taken <= received /\ received <= End(sent, Len(sent))
        /\ BufferOf(body_buffer, received)
        /\ HeadOf(sent, current) \in Nat /\ sent[current].length \in Nat
        /\ End(sent, current) = HeadOf(sent, current) + sent[current].length
        /\ HeadOf(sent, current) <= taken
        /\ Short(sent, current) => Len(body_buffer.mem) = BUF_SIZE
    BY <1>1, InHandler, Zenon
  <1>3. /\ UNCHANGED <<backend, sent, request_buffer, size, current, answers, ignored>>
        /\ received' = received /\ taken' = taken /\ body_buffer' = body_buffer
        /\ body' = body /\ want' = sent[current].length /\ at' = "parts"
    BY Zenon DEF HandlerReadsParts, buffers
  <1>4. taken = HeadOf(sent, current) /\ body = <<>>
    BY <1>1 DEF IInv, Place
  <1>5. Pends(body_buffer, taken, received)
    BY <1>1 DEF IInv, Stream
  <1>6. body' = Run(HeadOf(sent, current), taken')
    BY <1>2, <1>3, <1>4 DEF Run
  <1>7. /\ at' \in Bodily /\ at' # "readingParts" /\ received <= received'
        /\ taken' + want' = End(sent, current)
    BY <1>2, <1>3, <1>4 DEF Bodily
  <1> QED BY <1>1, <1>2, <1>3, <1>5, <1>6, <1>7, BodyStep, Zenon

\* A vector without elements holds nothing.
LEMMA NonePending ==
  ASSUME NEW v, NEW r \in Nat, BufferOf(v, r), v.size = 0
  PROVE  Pends(v, r, r) /\ Zeros(v.mem, v.size)
  <1>1. 0 <= Len(v.mem) /\ 0 = r - r /\ r <= r
    BY DEF BufferOf
  <1>2. Holds(v.mem, 0, r) /\ Zeros(v.mem, 0)
    BY <1>1 DEF Holds, Zeros
  <1> QED BY <1>1, <1>2, Zenon DEF Pends

\* The rest of the body arrives.
LEMMA WholeReadStep ==
  ASSUME IInv, WholeRead
  PROVE  IInv'
  <1> DEFINE h == HeadOf(sent, current)
             e == End(sent, current)
  <1>1. at = "readingWhole" /\ at \in Handling /\ at \in Bodily
    BY DEF WholeRead, Handling, Bodily
  <1>2. /\ Len(sent) \in Nat /\ taken \in Nat /\ received \in Nat /\ want \in Nat
        /\ BufferOf(body_buffer, received) /\ h \in Nat /\ e \in Nat
        /\ End(sent, Len(sent)) \in Nat
        /\ Short(sent, current) => Len(body_buffer.mem) = BUF_SIZE
    BY <1>1, InHandler, Zenon
  <1>3. /\ UNCHANGED <<backend, sent, request_buffer, size, current>>
        /\ body' = body \o Run(received, received + want) /\ received' = received + want
        /\ taken' = taken + want /\ want' = 0 /\ body_buffer' = body_buffer
        /\ answers' = Append(answers, "Ok") /\ at' = "sending"
        /\ ignored' = (ignored \/ taken' # MessageEnd(current))
        /\ received + want <= MessageEnd(Len(sent))
    BY Zenon DEF WholeRead, Answer, buffers
  <1>4. /\ taken + want = e /\ h <= taken /\ body = Run(h, taken)
        /\ received = taken /\ body_buffer.size = 0
    BY <1>1, Zenon DEF IInv, Place
  <1>5. MessageEnd(Len(sent)) = End(sent, Len(sent))
    BY SameEnds, Zenon
  <1> HIDE DEF h, e
  <1>6. /\ taken' = e /\ received' = e /\ e <= End(sent, Len(sent)) /\ received <= e
        /\ h <= e /\ taken <= e /\ e <= e /\ ~(want' > 0) /\ want' \in Nat
    BY <1>2, <1>3, <1>4, <1>5
  <1>7. body' = Run(h, e) /\ body' \in Seq(Nat)
    <2>1. body' = Run(h, taken) \o Run(taken, e)
      <3>1. received + want = e
        BY <1>4, Zenon
      <3>2. body' = Run(h, taken) \o Run(received, received + want)
        BY <1>3, <1>4, Zenon
      <3> QED BY <1>4, <3>1, <3>2, Zenon
    <2>2. Run(h, taken) \o Run(taken, e) = Run(h, e)
      BY <1>2, <1>4, <1>6, RunsJoin, Zenon
    <2>3. Run(h, e) \in Seq(Nat)
      BY <1>2, <1>6, Runs, Zenon
    <2> QED BY <2>1, <2>2, <2>3, Zenon
  <1>8. BufferOf(body_buffer', e) /\ Pends(body_buffer', e, e)
    BY <1>2, <1>3, <1>4, <1>6, BufferLater, NonePending, Zenon
  <1>9. "Ok" \in Replies
    BY DEF Replies
  <1> QED BY <1>1, <1>2, <1>3, <1>6, <1>7, <1>8, <1>9, AnswerStep, Zenon DEF h, e

\* The read of a body fails.
LEMMA BodyReadFailsStep ==
  ASSUME IInv, BodyReadFails
  PROVE  IInv'
  <1>1. at \in {"readingWhole", "readingParts"} /\ at \in Handling /\ at \in Bodily
    BY DEF BodyReadFails, Handling, Bodily
  <1>2. /\ Len(sent) \in Nat /\ taken \in Nat /\ received \in Nat /\ want \in Nat
        /\ taken <= received /\ received <= End(sent, Len(sent))
        /\ BufferOf(body_buffer, received)
        /\ HeadOf(sent, current) <= taken /\ taken <= End(sent, current)
        /\ Short(sent, current) => Len(body_buffer.mem) = BUF_SIZE
    BY <1>1, InHandler, Zenon
  <1>3. /\ UNCHANGED <<backend, sent, request_buffer, size, current>>
        /\ body' = body /\ received' = received
        /\ taken' = taken /\ want' = want /\ body_buffer' = body_buffer
        /\ answers' = Append(answers, "Error") /\ at' = "sending"
        /\ ignored' = (ignored \/ taken' # MessageEnd(current))
    BY Zenon DEF BodyReadFails, Answer, buffers
  <1>4. want > 0 /\ taken + want = End(sent, current)
    BY <1>1, Zenon DEF IInv, Place
  <1>5. Zeros(body_buffer.mem, body_buffer.size)
    <2>1. CASE at = "readingWhole"
      <3>1. body_buffer.size = 0
        BY <2>1 DEF IInv, Place
      <3> QED BY <1>2, <3>1, NonePending, Zenon
    <2>2. CASE at = "readingParts"
      BY <2>2 DEF IInv, Stream
    <2> QED BY <1>1, <2>1, <2>2
  <1>6. /\ taken < End(sent, current) /\ want # 0 /\ received <= received
        /\ "Error" \in Replies
    BY <1>2, <1>4 DEF Replies
  <1>7. body \in Seq(Nat)
    BY DEF IInv, Types
  <1> QED BY <1>1, <1>2, <1>3, <1>5, <1>6, <1>7, AnswerStep, Zenon

\* A part of the body is handed out.
LEMMA ReadPartStep ==
  ASSUME IInv, ReadPart
  PROVE  IInv'
  <1> DEFINE h == HeadOf(sent, current)
             e == End(sent, current)
             s == body_buffer.size
             n == Min({want, s})
             c == [body_buffer EXCEPT !.size = 0]
             m == Min({BUF_SIZE, want - n})
  <1>1. at = "parts" /\ at \in Handling /\ at \in Bodily
    BY DEF ReadPart, Handling, Bodily
  <1>2. /\ Len(sent) \in Nat /\ taken \in Nat /\ received \in Nat /\ want \in Nat
        /\ taken <= received /\ received <= End(sent, Len(sent))
        /\ BufferOf(body_buffer, received) /\ h \in Nat /\ e \in Nat
        /\ Short(sent, current) => Len(body_buffer.mem) = BUF_SIZE
    BY <1>1, InHandler, Zenon
  <1>3. /\ UNCHANGED <<backend, sent, request_buffer, size, current>> /\ received' = received
        /\ body' = body \o SubSeq(body_buffer.mem, 1, n)
        /\ taken' = taken + n /\ want' = want - n
        /\ want = n =>
             /\ body_buffer' = TakenOff(body_buffer, n)
             /\ answers' = Append(answers, "Ok") /\ at' = "sending"
             /\ ignored' = (ignored \/ taken' # MessageEnd(current))
        /\ want # n =>
             /\ body_buffer' = Resize(c, m)
             /\ at' = "readingParts" /\ UNCHANGED <<answers, ignored>>
    BY Zenon DEF ReadPart, Answer, TakenOff
  <1>4. taken + want = e /\ h <= taken /\ body = Run(h, taken)
    BY <1>1, Zenon DEF IInv, Place
  <1>5. Pends(body_buffer, taken, received)
    BY <1>1 DEF IInv, Stream
  <1>6. s \in Nat /\ s = received - taken
    BY <1>5 DEF Pends, BufferOf
  <1> HIDE DEF n, m, s
  <1>7. n = (IF want <= s THEN want ELSE s) /\ n \in Nat /\ n <= s
    <2>1. n = IF want <= s THEN want ELSE s
      BY <1>2, <1>6, Extremes, Zenon DEF n
    <2> QED BY <1>2, <1>6, <2>1
  <1>8. m = IF BUF_SIZE <= want - n THEN BUF_SIZE ELSE want - n
    <2>1. want - n \in Nat /\ BUF_SIZE \in Nat
      BY <1>2, <1>6, <1>7, CycleAssumption
    <2> QED BY <2>1, Extremes, Zenon DEF m
  <1>9. /\ SubSeq(body_buffer.mem, 1, n) = Run(taken, taken + n)
        /\ Pends(TakenOff(body_buffer, n), taken + n, received)
        /\ Len(TakenOff(body_buffer, n).mem) = Len(body_buffer.mem)
    <2>1. n <= body_buffer.size
      BY <1>7 DEF s
    <2>2. TakesFront(body_buffer, n, taken, received)
      BY <1>2, <1>5, <1>7, <2>1, FrontTaken
    <2> QED BY <2>2, Zenon DEF TakesFront
  <1> HIDE DEF h, e, c
  <1>10. /\ taken' \in Nat /\ h <= taken' /\ taken <= taken' /\ taken' <= e
         /\ taken' <= received /\ received <= received
    BY <1>2, <1>3, <1>4, <1>6, <1>7
  <1>11. body' = Run(h, taken') /\ body' \in Seq(Nat)
    <2>1. body' = Run(h, taken) \o Run(taken, taken')
      BY <1>3, <1>4, <1>9, Zenon
    <2>2. Run(h, taken) \o Run(taken, taken') = Run(h, taken')
      BY <1>2, <1>4, <1>10, RunsJoin, Zenon
    <2>3. Run(h, taken') \in Seq(Nat)
      BY <1>2, <1>10, Runs, Zenon
    <2> QED BY <2>1, <2>2, <2>3, Zenon
  <1>12. CASE want = n
    <2>1. taken' = e /\ want' = 0 /\ want' \in Nat /\ ~(want' > 0) /\ "Ok" \in Replies
      BY <1>2, <1>3, <1>4, <1>12 DEF Replies
    <2>2. /\ Pends(body_buffer', taken', received')
          /\ Len(body_buffer'.mem) = Len(body_buffer.mem)
      BY <1>3, <1>9, <1>12, Zenon
    <2>3. BufferOf(body_buffer', received')
      BY <2>2, Zenon DEF Pends
    <2> QED BY <1>1, <1>2, <1>3, <1>10, <1>11, <1>12, <2>1, <2>2, <2>3, AnswerStep, Zenon
            DEF h, e
  <1>13. CASE want # n
    <2>1. /\ n = s /\ taken' = received /\ want' \in Nat /\ want' > 0 /\ taken' + want' = e
          /\ m \in Nat /\ m > 0 /\ m <= want' /\ m <= BUF_SIZE
      BY <1>2, <1>3, <1>4, <1>6, <1>7, <1>8, <1>13, CycleAssumption
    <2>2. BufferOf(c, received) /\ c.size = 0 /\ c.mem = body_buffer.mem
      BY <1>2, Cleared, Zenon DEF c
    <2>3. /\ BufferOf(Resize(c, m), received) /\ Resize(c, m).size = m
          /\ Len(Resize(c, m).mem) = IF m <= Len(c.mem) THEN Len(c.mem)
                                     ELSE IF m >= 2 * c.size THEN m ELSE 2 * c.size
          /\ Zeros(Resize(c, m).mem, m)
      <3>1. IsResized(Resize(c, m), c, m, received)
        BY <1>2, <2>1, <2>2, Resized, Zenon
      <3> QED BY <2>2, <3>1, Zenon DEF IsResized
    <2>4. /\ BufferOf(body_buffer', received) /\ body_buffer'.size = m
          /\ Zeros(body_buffer'.mem, body_buffer'.size) /\ at' = "readingParts"
      BY <1>3, <1>13, <2>3, Zenon
    <2>5. Short(sent, current) => Len(body_buffer'.mem) = BUF_SIZE
      <3>1. body_buffer' = Resize(c, m)
        BY <1>3, <1>13, Zenon
      <3> QED BY <1>2, <2>1, <2>2, <2>3, <3>1
    <2>6. at' \in Bodily /\ body_buffer'.size > 0 /\ body_buffer'.size <= want'
      BY <2>1, <2>4 DEF Bodily
    <2> QED BY <1>1, <1>2, <1>3, <1>10, <1>11, <1>13, <2>1, <2>4, <2>5, <2>6, BodyStep, Zenon
            DEF h, e
  <1> QED BY <1>12, <1>13

\* A read has room for what it reads, and the peer has sent it.
LEMMA ReadSome ==
  ASSUME received \in Nat, End(sent, Len(sent)) \in Nat, received <= End(sent, Len(sent)),
         NEW c \in Nat, NEW n \in SomeRead(c)
  PROVE  n \in Nat /\ n > 0 /\ n <= c /\ received + n <= End(sent, Len(sent))
  <1> DEFINE d == End(sent, Len(sent)) - received
             m == Min({c, d})
  <1>1. d \in Nat
    OBVIOUS
  <1>2. m = IF c <= d THEN c ELSE d
    BY <1>1, Extremes, Zenon
  <1>3. n \in 1..m
    <2>1. MessageEnd(Len(sent)) = End(sent, Len(sent))
      BY SameEnds, Zenon
    <2> QED BY <2>1, Zenon DEF SomeRead
  <1> HIDE DEF m
  <1> QED BY <1>1, <1>2, <1>3

\* Bytes that are read into a vector at its front.
LEMMA ReadInto ==
  ASSUME NEW v, NEW r \in Nat, BufferOf(v, r), NEW n \in Nat
  PROVE  Pends(Fill(v, Run(r, r + n)), r, r + n)
         /\ (n <= Len(v.mem) => Len(Fill(v, Run(r, r + n)).mem) = Len(v.mem))
  <1> DEFINE u == Run(r, r + n)
             w == Fill(v, u)
             q == w.mem
             e == r + n
  <1>1. e \in Nat /\ r <= e /\ e - r = n
    OBVIOUS
  <1>2. u \in Seq(Nat) /\ Len(u) = n /\ \A i \in 1..n : u[i] = r + i
    BY <1>1, Runs, Zenon
  <1> HIDE DEF u, e
  <1>3. BytesOf(u, e)
    <2>1. \A i \in 1..Len(u) : u[i] <= e
      BY <1>2 DEF e
    <2> QED BY <1>2, <2>1, Zenon DEF BytesOf
  <1>4. BufferOf(v, e)
    BY <1>1, BufferLater, Zenon
  <1>5. /\ BufferOf(w, e) /\ w.size = Len(u)
        /\ Len(w.mem) = IF Len(u) <= Len(v.mem) THEN Len(v.mem) ELSE Len(u)
        /\ \A i \in 1..Len(u) : w.mem[i] = u[i]
    <2>1. IsFilled(w, v, u, e)
      BY <1>1, <1>3, <1>4, Filled
    <2> HIDE DEF w
    <2> QED BY <2>1, Zenon DEF IsFilled
  <1> HIDE DEF w
  <1>6. n <= Len(v.mem) => Len(w.mem) = Len(v.mem)
    BY <1>2, <1>5, Zenon
  <1>7. w.size = n /\ q \in Seq(Nat) /\ n <= Len(q)
    BY <1>2, <1>5 DEF BufferOf
  <1>8. \A i \in 1..n : q[i] = r + i
    BY <1>2, <1>5, Zenon
  <1>9. Holds(q, n, r)
    BY <1>7, <1>8, Zenon DEF Holds
  <1>10. Pends(w, r, e)
    BY <1>1, <1>5, <1>7, <1>9, Zenon DEF Pends
  <1> QED BY <1>6, <1>10, Zenon DEF w, u, e

\* A part of the body arrives.
LEMMA PartReadStep ==
  ASSUME IInv, PartRead
  PROVE  IInv'
  <1>1. at = "readingParts" /\ at \in Handling /\ at \in Bodily
    BY DEF PartRead, Handling, Bodily
  <1>2. /\ Len(sent) \in Nat /\ taken \in Nat /\ received \in Nat /\ want \in Nat
        /\ received <= End(sent, Len(sent)) /\ End(sent, Len(sent)) \in Nat
        /\ BufferOf(body_buffer, received)
        /\ Short(sent, current) => Len(body_buffer.mem) = BUF_SIZE
    BY <1>1, InHandler, Zenon
  <1>3. PICK n \in SomeRead(body_buffer.size) :
          /\ body_buffer' = Fill(body_buffer, Run(received, received + n))
          /\ received' = received + n
    BY Zenon DEF PartRead
  <1>4. /\ UNCHANGED <<backend, sent, request_buffer, size, current, answers, ignored>>
        /\ taken' = taken /\ want' = want /\ body' = body /\ at' = "parts"
    BY Zenon DEF PartRead
  <1>5. /\ taken + want = End(sent, current) /\ HeadOf(sent, current) <= taken
        /\ body = Run(HeadOf(sent, current), taken) /\ received = taken
    BY <1>1, Zenon DEF IInv, Place
  <1>6. /\ body_buffer.size \in Nat /\ body_buffer.size <= Len(body_buffer.mem)
        /\ Len(body_buffer.mem) \in Nat
    BY <1>2 DEF BufferOf
  <1>7. n \in Nat /\ n > 0 /\ n <= body_buffer.size /\ received + n <= End(sent, Len(sent))
    BY <1>2, <1>6, ReadSome, Zenon
  <1>8. /\ received' \in Nat /\ received <= received' /\ received' <= End(sent, Len(sent))
        /\ taken' <= received' /\ n <= Len(body_buffer.mem)
    BY <1>2, <1>3, <1>4, <1>5, <1>6, <1>7
  <1>9. /\ Pends(Fill(body_buffer, Run(received, received + n)), received, received + n)
        /\ Len(Fill(body_buffer, Run(received, received + n)).mem) = Len(body_buffer.mem)
    BY <1>2, <1>7, <1>8, ReadInto, Zenon
  <1>10. /\ Pends(body_buffer', taken', received')
         /\ Len(body_buffer'.mem) = Len(body_buffer.mem)
    BY <1>3, <1>4, <1>5, <1>9, Zenon
  <1>11. BufferOf(body_buffer', received')
    BY <1>10, Zenon DEF Pends
  <1>12. at' \in Bodily /\ at' # "readingParts"
    BY <1>4 DEF Bodily
  <1> QED BY <1>1, <1>2, <1>4, <1>5, <1>8, <1>10, <1>11, <1>12, BodyStep, Zenon

----------------------------------------------------------------------------
(* Reading a request.                                                      *)

\* Facts about a connection between two requests.
LEMMA InBetween ==
  ASSUME IInv, at \in {"start"} \cup Reading
  PROVE  /\ sent \in Sents /\ Ends(sent) /\ Len(sent) \in Nat /\ End(sent, Len(sent)) \in Nat
         /\ backend \in Backends /\ ignored \in BOOLEAN /\ answers \in Seq(Codes)
         /\ at \in Reading => body = <<>>
         /\ taken \in Nat /\ received \in Nat /\ want \in Nat /\ size \in Nat
         /\ taken <= received /\ received <= End(sent, Len(sent))
         /\ BufferOf(request_buffer, received) /\ BufferOf(body_buffer, received)
         /\ size <= Len(request_buffer.mem)
         /\ current \in 0..Len(sent) /\ current = Len(answers) /\ ~Refused
         /\ ~ignored => taken = End(sent, current) /\ want = 0
         /\ ignored => current >= 1 /\ HeadOf(sent, current) <= taken
                       /\ taken < End(sent, current)
  <1>1. /\ sent \in Sents /\ Ends(sent) /\ current \in 0..Len(sent)
        /\ backend \in Backends /\ ignored \in BOOLEAN /\ answers \in Seq(Codes)
        /\ taken \in Nat /\ received \in Nat /\ want \in Nat /\ size \in Nat
        /\ taken <= received /\ received <= End(sent, Len(sent))
        /\ BufferOf(request_buffer, received) /\ BufferOf(body_buffer, received)
        /\ size <= Len(request_buffer.mem)
    BY Zenon DEF IInv, Types
  <1>2. Len(sent) \in Nat
    BY <1>1, CycleAssumption DEF Sents
  <1>3. End(sent, Len(sent)) \in Nat
    BY <1>1, <1>2 DEF Ends
  <1>4. ~Refused
    <2>1. at \notin {"sending", "closed"}
      BY DEF Reading
    <2> QED BY <2>1, Zenon DEF IInv, Order
  <1>5. Between
    BY <1>4 DEF Between
  <1>6. current = Len(answers)
    BY <1>5, Zenon DEF IInv, Order
  <1>7. /\ at \in Reading => body = <<>>
        /\ ~ignored => taken = End(sent, current) /\ want = 0
        /\ ignored => current >= 1 /\ HeadOf(sent, current) <= taken
                      /\ taken < End(sent, current)
    BY <1>5, Zenon DEF IInv, Place
  <1> QED BY <1>1, <1>2, <1>3, <1>4, <1>6, <1>7, Zenon

\* The connection reads, or goes on to read.
LEMMA ReadingStep ==
  ASSUME IInv, at \in {"start"} \cup Reading, at' \in Reading,
         UNCHANGED <<backend, sent, taken, current, want, ignored, answers>>,
         received' \in Nat, received <= received', received' <= End(sent, Len(sent)),
         BufferOf(request_buffer', received'), BufferOf(body_buffer', received'),
         body_buffer'.size = 0, body' = <<>>,
         size' \in Nat, size' <= Len(request_buffer'.mem),
         want = 0 => size' = received' - taken /\ Holds(request_buffer'.mem, size', taken),
         want > 0 => Zeros(request_buffer'.mem, size'),
         at' = "reading" /\ ~ignored /\ current < Len(sent) => size' < sent[current + 1].head,
         request_buffer'.size >= BUF_SIZE,
         Short(sent, current) =>
           /\ Len(body_buffer'.mem) = BUF_SIZE
           /\ size' < 4 * BUF_SIZE \/ (~ignored /\ Next3(sent, current)) =>
                Grown(request_buffer')
           /\ at' = "reading" /\ size' < 4 * BUF_SIZE => size' < Len(request_buffer'.mem),
         Short(sent, current + 1) /\ ~ignored =>
           request_buffer'.size = BUF_SIZE /\ Len(request_buffer'.mem) = BUF_SIZE
  PROVE  IInv'
  <1>1. /\ sent \in Sents /\ Ends(sent) /\ Len(sent) \in Nat
        /\ backend \in Backends /\ ignored \in BOOLEAN /\ answers \in Seq(Codes)
        /\ taken \in Nat /\ received \in Nat /\ want \in Nat
        /\ taken <= received /\ current \in 0..Len(sent)
        /\ current = Len(answers) /\ ~Refused
        /\ ~ignored => taken = End(sent, current) /\ want = 0
        /\ ignored => current >= 1 /\ HeadOf(sent, current) <= taken
                      /\ taken < End(sent, current)
    BY InBetween, Zenon
  <1>2. /\ at' \notin Handling /\ at' \notin Bodily
        /\ at' \notin {"start", "sending", "closed", "sink"}
        /\ at' \notin {"parts", "readingWhole", "readingParts"}
    BY DEF Bodily, Handling, Reading
  <1>3. ~Refused'
    BY <1>1, Zenon DEF Refused
  <1>4. taken' <= received'
    BY <1>1, NoMore, Zenon
  <1>5. Ends(sent)' /\ Types'
    <2>1. at' \in {"start", "sending", "closed"} \cup Reading \cup Handling
      BY Zenon
    <2>2. body' \in Seq(Nat)
      OBVIOUS
    <2> QED BY <1>1, <1>4, <2>1, <2>2, Zenon DEF Types
  <1>6. Order'
    <2>1. at' # "sending"
      BY <1>2, Zenon
    <2> QED BY <1>1, <1>2, <1>3, <2>1, Zenon DEF Order
  <1>7. Place'
    <2>1. /\ at' # "sink" /\ at' # "readingWhole" /\ at' # "readingParts" /\ at' # "sending"
          /\ at' \notin {"readingWhole", "readingParts"}
      BY <1>2, Zenon
    <2> QED BY <1>1, <1>2, <2>1, Zenon DEF Place
  <1>8. Stream'
    <2>1. /\ at' # "readingParts" /\ at' \notin {"start", "sending"}
          /\ at' \notin {"sink", "parts", "readingWhole"}
      BY <1>2, Zenon
    <2> QED BY <2>1, Zenon DEF Stream
  <1>9. Growth'
    <2>1. backend = "stream" => Short(sent, Len(sent))
      BY Zenon DEF IInv, Growth
    <2>2. at' # "start" /\ ~Served'
      BY <1>2, Zenon DEF Served
    <2> QED BY <2>1, <2>2, Zenon DEF Growth
  <1>10. HeadThere'
    BY <1>2, Zenon DEF HeadThere, Served
  <1> QED BY <1>5, <1>6, <1>7, <1>8, <1>9, <1>10, Zenon DEF IInv

\* The connection is destroyed.
LEMMA ClosedStep ==
  ASSUME IInv, at' = "closed",
         UNCHANGED <<backend, sent, received, taken, buffers, current, want, body, ignored,
                     answers>>
  PROVE  IInv'
  <1>1. at' \notin Reading /\ at' \notin Handling /\ at' \notin Bodily
        /\ at' \notin {"start", "sending"} /\ ~Served' /\ ~Between'
    BY DEF Reading, Handling, Bodily, Served, Between
  <1>2. Ends(sent)' /\ Types'
    BY DEF IInv, Types, buffers
  <1>3. Refused' => ignored'
    BY Zenon DEF IInv, Order, Refused
  <1>4. Order'
    BY <1>1, <1>3 DEF Order
  <1>5. Place' /\ Stream'
    BY <1>1 DEF Place, Stream
  <1>6. Growth' /\ HeadThere'
    BY <1>1 DEF IInv, Growth, HeadThere
  <1> QED BY <1>2, <1>4, <1>5, <1>6, Zenon DEF IInv

\* The response has been sent.
LEMMA SentStep ==
  ASSUME IInv, Sent
  PROVE  IInv'
  <1>1. /\ at = "sending" /\ at' \in {"closed", "start"}
        /\ UNCHANGED <<backend, sent, received, taken, buffers, current, want, body, ignored,
                       answers>>
        /\ at' = "start" => answers[Len(answers)] # "BadRequest"
    BY DEF Sent
  <1>2. CASE at' = "closed"
    BY <1>1, <1>2, ClosedStep, Zenon
  <1>3. CASE at' = "start"
    <2>1. ~Refused /\ ~Refused' /\ Between /\ Between' /\ Served
      BY <1>1, <1>3 DEF Refused, Between, Served
    <2>2. at' \notin Reading /\ at' \notin Handling /\ at' \notin Bodily /\ ~Served'
          /\ at' \notin {"readingWhole", "readingParts"}
          /\ at' \notin {"sink", "parts", "readingWhole"}
      BY <1>3 DEF Reading, Handling, Bodily, Served
    <2>3. Ends(sent)' /\ Types'
      BY <1>1, <1>3 DEF IInv, Types, buffers
    <2>4. Order'
      BY <1>1, <1>3, <2>1, <2>2 DEF IInv, Order
    <2>5. Place'
      <3>1. /\ ~ignored => taken = End(sent, current) /\ want = 0
            /\ ignored => current >= 1 /\ HeadOf(sent, current) <= taken
                          /\ taken < End(sent, current)
        BY <2>1, Zenon DEF IInv, Place
      <3>2. at' # "sink" /\ at' # "readingWhole" /\ at' # "readingParts" /\ at' # "sending"
        BY <1>3
      <3> QED BY <1>1, <2>2, <3>1, <3>2, Zenon DEF Place
    <2>6. Stream'
      <3>1. /\ want = 0 => Pends(body_buffer, taken, received)
            /\ want > 0 => Zeros(body_buffer.mem, body_buffer.size)
        BY <1>1, <2>1 DEF IInv, Stream
      <3>2. at' # "reading" /\ at' # "readingParts"
        BY <1>3
      <3> QED BY <1>1, <2>2, <3>1, <3>2, Zenon DEF Stream, buffers
    <2>7. Growth'
      <3>1. /\ backend = "stream" => Short(sent, Len(sent))
            /\ Short(sent, current) =>
                 Len(request_buffer.mem) = BUF_SIZE /\ Len(body_buffer.mem) = BUF_SIZE
        BY <2>1, Zenon DEF IInv, Growth
      <3>2. at' # "reading"
        BY <1>3
      <3>3. BUF_SIZE \in {0, BUF_SIZE}
        OBVIOUS
      <3> QED BY <1>1, <2>2, <3>1, <3>2, <3>3, Zenon DEF Growth, buffers
    <2>8. HeadThere'
      BY <2>2 DEF HeadThere
    <2> QED BY <2>3, <2>4, <2>5, <2>6, <2>7, <2>8, Zenon DEF IInv
  <1> QED BY <1>1, <1>2, <1>3

\* resize to BUF_SIZE when a request begins.
LEMMA FreshBuffer ==
  ASSUME NEW v, NEW r \in Nat, BufferOf(v, r)
  PROVE  /\ BufferOf(Resize(v, BUF_SIZE), r) /\ Resize(v, BUF_SIZE).size = BUF_SIZE
         /\ v.size <= Len(Resize(v, BUF_SIZE).mem)
         /\ \A i \in 1..v.size : Resize(v, BUF_SIZE).mem[i] = v.mem[i]
         /\ Len(v.mem) \in {0, BUF_SIZE} => Len(Resize(v, BUF_SIZE).mem) = BUF_SIZE
  <1>1. BUF_SIZE \in Nat
    BY CycleAssumption
  <1> DEFINE w == Resize(v, BUF_SIZE)
  <1>2. /\ BufferOf(w, r) /\ w.size = BUF_SIZE
        /\ Len(w.mem) = IF BUF_SIZE <= Len(v.mem) THEN Len(v.mem)
                        ELSE IF BUF_SIZE >= 2 * v.size THEN BUF_SIZE ELSE 2 * v.size
        /\ \A i \in 1..v.size : w.mem[i] = v.mem[i]
    <2>1. IsResized(w, v, BUF_SIZE, r)
      BY <1>1, Resized
    <2> HIDE DEF w
    <2> QED BY <2>1, Zenon DEF IsResized
  <1> HIDE DEF w
  <1>3. v.size \in Nat /\ Len(v.mem) \in Nat /\ v.size <= Len(v.mem)
    BY DEF BufferOf
  <1>4. v.size <= Len(w.mem)
    BY <1>1, <1>2, <1>3
  <1>5. Len(v.mem) \in {0, BUF_SIZE} => Len(w.mem) = BUF_SIZE
    BY <1>1, <1>2, <1>3
  <1> QED BY <1>2, <1>4, <1>5, Zenon DEF w

\* clear() and reserve() of the other one.
LEMMA EmptyBuffer ==
  ASSUME NEW v, NEW r \in Nat, BufferOf(v, r), NEW w,
         w = Reserve([v EXCEPT !.size = 0], BUF_SIZE)
  PROVE  /\ BufferOf(w, r) /\ w.size = 0
         /\ Len(v.mem) \in {0, BUF_SIZE} => Len(w.mem) = BUF_SIZE
  <1> DEFINE c == [v EXCEPT !.size = 0]
  <1>1. BUF_SIZE \in Nat
    BY CycleAssumption
  <1>2. BufferOf(c, r) /\ c.size = 0 /\ c.mem = v.mem
    BY Cleared, Zenon
  <1> HIDE DEF c
  <1>3. /\ BufferOf(Reserve(c, BUF_SIZE), r) /\ Reserve(c, BUF_SIZE).size = c.size
        /\ Len(Reserve(c, BUF_SIZE).mem) = IF BUF_SIZE <= Len(c.mem) THEN Len(c.mem) ELSE BUF_SIZE
    BY <1>1, <1>2, Reserved
  <1>4. w = Reserve(c, BUF_SIZE)
    BY DEF c
  <1>5. Len(v.mem) \in {0, BUF_SIZE} => Len(w.mem) = BUF_SIZE
    BY <1>1, <1>2, <1>3, <1>4
  <1> QED BY <1>2, <1>3, <1>4, <1>5, Zenon

\* A request begins.
LEMMA StartStep ==
  ASSUME IInv, start
  PROVE  IInv'
  <1> DEFINE kept == body_buffer.size > 0
             r == IF kept THEN body_buffer ELSE request_buffer
             b == IF kept THEN request_buffer ELSE body_buffer
  <1>1. at = "start" /\ at \in {"start"} \cup Reading
    BY DEF start
  <1>2. /\ sent \in Sents /\ taken \in Nat /\ received \in Nat /\ want \in Nat
        /\ received <= End(sent, Len(sent)) /\ current \in 0..Len(sent) /\ Len(sent) \in Nat
        /\ BufferOf(request_buffer, received) /\ BufferOf(body_buffer, received) /\ ~Refused
    BY <1>1, InBetween, Zenon
  <1>3. /\ UNCHANGED <<backend, sent, taken, current, want, ignored, answers>>
        /\ received' = received
        /\ at' = "read_request" /\ body' = <<>>
        /\ size' = (IF kept THEN body_buffer.size ELSE 0)
        /\ request_buffer' = Resize(r, BUF_SIZE)
        /\ body_buffer' = Reserve([b EXCEPT !.size = 0], BUF_SIZE)
    BY Zenon DEF start
  <1>4. body_buffer.size \in Nat
    BY <1>2 DEF BufferOf
  <1>5. size' = body_buffer.size /\ (kept => r = body_buffer) /\ (~kept => size' = 0)
    BY <1>3, <1>4
  <1>6. BufferOf(r, received) /\ BufferOf(b, received)
    BY <1>2, Zenon
  <1>7. /\ Short(sent, current) =>
             Len(r.mem) \in {0, BUF_SIZE} /\ Len(b.mem) \in {0, BUF_SIZE}
    <2>1. Short(sent, current) => /\ Len(request_buffer.mem) \in {0, BUF_SIZE}
                                  /\ Len(body_buffer.mem) \in {0, BUF_SIZE}
      BY <1>1, Zenon DEF IInv, Growth
    <2> QED BY <2>1, Zenon
  <1> HIDE DEF r, b
  <1>8. /\ BufferOf(request_buffer', received) /\ request_buffer'.size = BUF_SIZE
        /\ r.size <= Len(request_buffer'.mem)
        /\ \A i \in 1..r.size : request_buffer'.mem[i] = r.mem[i]
        /\ Len(r.mem) \in {0, BUF_SIZE} => Len(request_buffer'.mem) = BUF_SIZE
    BY <1>2, <1>3, <1>6, FreshBuffer
  <1>9. /\ BufferOf(body_buffer', received) /\ body_buffer'.size = 0
        /\ Len(b.mem) \in {0, BUF_SIZE} => Len(body_buffer'.mem) = BUF_SIZE
    BY <1>2, <1>3, <1>6, EmptyBuffer, Zenon
  <1> DEFINE q == request_buffer'.mem
  <1>10. q \in Seq(Nat) /\ Len(q) \in Nat
    BY <1>8 DEF BufferOf
  <1>11. size' \in Nat /\ size' <= Len(q) /\ \A i \in 1..size' : q[i] = body_buffer.mem[i]
    <2>1. CASE kept
      <3>1. r = body_buffer /\ size' = r.size
        BY <1>5, <2>1, Zenon
      <3> QED BY <1>4, <1>8, <3>1, Zenon
    <2>2. CASE ~kept
      BY <1>5, <1>10, <2>2
    <2> QED BY <2>1, <2>2
  <1> HIDE DEF q
  <1>12. want = 0 => size' = received - taken /\ Holds(q, size', taken)
    <2> SUFFICES ASSUME want = 0 PROVE size' = received - taken /\ Holds(q, size', taken)
      OBVIOUS
    <2>1. Pends(body_buffer, taken, received)
      BY <1>1, <1>2, Zenon DEF IInv, Stream
    <2>2. size' = received - taken /\ \A i \in 1..size' : body_buffer.mem[i] = taken + i
      BY <1>5, <2>1, Zenon DEF Pends, Holds
    <2> QED BY <1>11, <2>2, Zenon DEF Holds
  <1>13. want > 0 => Zeros(q, size')
    <2>1. want > 0 => Zeros(body_buffer.mem, size')
      BY <1>1, <1>2, <1>5, Zenon DEF IInv, Stream
    <2> QED BY <1>11, <2>1, Zenon DEF Zeros
  <1>14. /\ at' \in Reading /\ at' # "reading" /\ received <= received
         /\ request_buffer'.size >= BUF_SIZE
    BY <1>2, <1>3, <1>8, CycleAssumption DEF Reading
  <1>15. Short(sent, current) =>
           Len(body_buffer'.mem) = BUF_SIZE /\ Len(q) = BUF_SIZE /\ Grown(request_buffer')
    BY <1>7, <1>8, <1>9, Zenon DEF Grown, q
  <1>16. Short(sent, current + 1) => Short(sent, current)
    <2> SUFFICES ASSUME Short(sent, current + 1), NEW k \in 1..Len(sent), k <= current
                 PROVE  sent[k].head <= BUF_SIZE
      BY DEF Short
    <2>1. k <= current + 1
      BY <1>2
    <2> QED BY <2>1, Zenon DEF Short
  <1> QED BY <1>1, <1>2, <1>3, <1>8, <1>9, <1>11, <1>12, <1>13, <1>14, <1>15, <1>16, ReadingStep,
             Zenon DEF q

\* request_buffer_ grows by BUF_SIZE when its elements are used up.
LEMMA Grows ==
  ASSUME NEW v, NEW r \in Nat, BufferOf(v, r), NEW n \in Nat, n <= Len(v.mem), NEW w,
         w = IF n = v.size THEN Resize(v, n + BUF_SIZE) ELSE v
  PROVE  /\ BufferOf(w, r) /\ n <= Len(w.mem) /\ w.size >= v.size
         /\ \A i \in 1..n : w.mem[i] = v.mem[i]
         /\ Grown(v) /\ n < 4 * BUF_SIZE => Grown(w) /\ n < Len(w.mem)
  <1>1. BUF_SIZE \in Nat \ {0}
    BY CycleAssumption
  <1>2. v.size \in Nat /\ Len(v.mem) \in Nat /\ v.size <= Len(v.mem)
    BY DEF BufferOf
  <1>3. CASE n = v.size
    <2> DEFINE m == n + BUF_SIZE
    <2>1. m \in Nat
      BY <1>1
    <2> HIDE DEF m
    <2>2. w = Resize(v, m)
      BY <1>3 DEF m
    <2>3. /\ BufferOf(w, r) /\ w.size = m
          /\ Len(w.mem) = IF m <= Len(v.mem) THEN Len(v.mem)
                          ELSE IF m >= 2 * v.size THEN m ELSE 2 * v.size
          /\ \A i \in 1..v.size : w.mem[i] = v.mem[i]
      <3>1. IsResized(Resize(v, m), v, m, r)
        BY <2>1, Resized
      <3> QED BY <2>2, <3>1, Zenon DEF IsResized
    <2>4. \A i \in 1..n : w.mem[i] = v.mem[i]
      BY <1>3, <2>3, Zenon
    <2>5. n <= Len(w.mem) /\ w.size >= v.size
      BY <1>1, <1>2, <1>3, <2>3 DEF m
    <2>6. Grown(v) /\ n < 4 * BUF_SIZE => Grown(w) /\ n < Len(w.mem)
      <3> DEFINE c == Len(v.mem)
                 d == Len(w.mem)
                 B == BUF_SIZE
      <3> SUFFICES ASSUME Grown(v), n < 4 * B PROVE Grown(w) /\ n < d
        OBVIOUS
      <3>1. \/ n = B /\ c = B
            \/ n = 2 * B /\ c = 2 * B
            \/ n = 3 * B /\ c = 4 * B
            \/ n = 4 * B /\ c = 4 * B
        BY <1>3, Zenon DEF Grown
      <3>2. m = n + B /\ d = IF m <= c THEN c ELSE IF m >= 2 * n THEN m ELSE 2 * n
        BY <1>3, <2>3, Zenon DEF m
      <3>3. c \in Nat /\ B \in Nat \ {0} /\ n < 4 * B
        BY <1>1, <1>2
      <3> HIDE DEF c, d, B
      <3>4. /\ n < d
            /\ \/ m = 2 * B /\ d = 2 * B
               \/ m = 3 * B /\ d = 4 * B
               \/ m = 4 * B /\ d = 4 * B
        BY <3>1, <3>2, <3>3
      <3> QED BY <2>3, <3>4, Zenon DEF Grown, d, B
    <2> QED BY <2>3, <2>4, <2>5, <2>6, Zenon
  <1>4. CASE n # v.size
    <2>1. w = v
      BY <1>4, Zenon
    <2>2. Grown(v) /\ n < 4 * BUF_SIZE => n < Len(v.mem)
      BY <1>1, <1>2, <1>4 DEF Grown
    <2>3. v.size >= v.size
      BY <1>2
    <2> QED BY <2>1, <2>2, <2>3, Zenon
  <1> QED BY <1>3, <1>4

\* The bytes are not complete: read_request asks for more.
LEMMA ReadMoreStep ==
  ASSUME IInv, ReadMore
  PROVE  IInv'
  <1>1. at = "read_request" /\ at \in Reading /\ at \in {"start"} \cup Reading /\ ~isComplete
    BY DEF ReadMore, Reading
  <1>2. /\ sent \in Sents /\ taken \in Nat /\ received \in Nat /\ want \in Nat /\ size \in Nat
        /\ received <= End(sent, Len(sent)) /\ current \in 0..Len(sent) /\ Len(sent) \in Nat
        /\ BufferOf(request_buffer, received) /\ BufferOf(body_buffer, received)
        /\ size <= Len(request_buffer.mem) /\ body = <<>> /\ Ends(sent)
    BY <1>1, InBetween, Zenon
  <1>3. /\ UNCHANGED <<backend, sent, taken, current, want, ignored, answers>>
        /\ received' = received /\ size' = size /\ body_buffer' = body_buffer
        /\ at' = "reading" /\ body' = body
        /\ request_buffer' = IF size = request_buffer.size
                             THEN Resize(request_buffer, size + BUF_SIZE) ELSE request_buffer
    BY Zenon DEF ReadMore
  <1>4. /\ BufferOf(request_buffer', received) /\ size <= Len(request_buffer'.mem)
        /\ request_buffer'.size >= request_buffer.size
        /\ \A i \in 1..size : request_buffer'.mem[i] = request_buffer.mem[i]
        /\ Grown(request_buffer) /\ size < 4 * BUF_SIZE =>
             Grown(request_buffer') /\ size < Len(request_buffer'.mem)
    BY <1>2, <1>3, Grows
  <1>5. /\ body_buffer.size = 0
        /\ want = 0 => size = received - taken /\ Holds(request_buffer.mem, size, taken)
        /\ want > 0 => Zeros(request_buffer.mem, size)
    BY <1>1, Zenon DEF IInv, Stream
  <1>6. /\ want = 0 => size = received - taken /\ Holds(request_buffer'.mem, size, taken)
        /\ want > 0 => Zeros(request_buffer'.mem, size)
    BY <1>4, <1>5, Zenon DEF Holds, Zeros
  <1>7. ~ignored => /\ current < Len(sent) => size < sent[current + 1].head
                    /\ current = Len(sent) => size = 0
    BY <1>1, Incomplete, Zenon
  <1>8. /\ request_buffer.size >= BUF_SIZE
        /\ Short(sent, current) =>
             /\ Len(body_buffer.mem) = BUF_SIZE
             /\ size < 4 * BUF_SIZE \/ (~ignored /\ Next3(sent, current)) =>
                  Grown(request_buffer)
        /\ Short(sent, current + 1) /\ ~ignored =>
             request_buffer.size = BUF_SIZE /\ Len(request_buffer.mem) = BUF_SIZE
    BY <1>1, Zenon DEF IInv, Growth
  <1>9. BUF_SIZE \in Nat \ {0}
    BY CycleAssumption
  <1>10. current < Len(sent) => current + 1 \in 1..Len(sent) /\ sent[current + 1].head \in Nat
    <2> SUFFICES ASSUME current < Len(sent)
                 PROVE  current + 1 \in 1..Len(sent) /\ sent[current + 1].head \in Nat
      OBVIOUS
    <2>1. current + 1 \in 1..Len(sent)
      BY <1>2
    <2> QED BY <1>2, <2>1, OneMessage, Zenon
  <1>11. current < Len(sent) \/ current = Len(sent)
    BY <1>2
  <1>12. ~ignored /\ Next3(sent, current) => size < 4 * BUF_SIZE
    BY <1>2, <1>7, <1>9, <1>10, <1>11 DEF Next3
  <1>13. request_buffer'.size >= BUF_SIZE
    <2>1. request_buffer.size \in Nat /\ request_buffer'.size \in Nat
      BY <1>2, <1>4 DEF BufferOf
    <2> QED BY <1>4, <1>8, <1>9, <2>1
  <1>14. Short(sent, current + 1) /\ ~ignored =>
           request_buffer'.size = BUF_SIZE /\ Len(request_buffer'.mem) = BUF_SIZE
    <2> SUFFICES ASSUME Short(sent, current + 1), ~ignored
                 PROVE  /\ request_buffer'.size = BUF_SIZE
                        /\ Len(request_buffer'.mem) = BUF_SIZE
      OBVIOUS
    <2>1. size < BUF_SIZE
      <3>1. CASE current < Len(sent)
        <4>1. sent[current + 1].head <= BUF_SIZE
          BY <1>2, <1>10, <3>1 DEF Short
        <4> QED BY <1>2, <1>7, <1>9, <1>10, <3>1, <4>1
      <3>2. CASE current = Len(sent)
        BY <1>7, <1>9, <3>2
      <3> QED BY <1>11, <3>1, <3>2
    <2>2. size # request_buffer.size
      BY <1>2, <1>8, <1>9, <2>1
    <2> QED BY <1>3, <1>8, <2>2, Zenon
  <1>15. at' \in Reading /\ received <= received
    BY <1>2, <1>3 DEF Reading
  <1> QED BY <1>1, <1>2, <1>3, <1>4, <1>5, <1>6, <1>7, <1>8, <1>12, <1>13, <1>14, <1>15,
             ReadingStep, Zenon

\* n bytes are read into a vector behind the s bytes that wait there.
Behind(v, s, n, r) ==
  [v EXCEPT !.mem = [i \in DOMAIN @ |-> IF s < i /\ i <= s + n THEN r + i - s ELSE @[i]]]

\* The vector has room for them behind the bytes that wait, those from t + 1 to r.
Follows(v, s, n, r, t) ==
  /\ r \in Nat /\ t \in Nat /\ s \in Nat /\ n \in Nat
  /\ BufferOf(v, r) /\ t <= r /\ s = r - t /\ Holds(v.mem, s, t)
  /\ s + n <= Len(v.mem)

\* They follow those that wait.
LEMMA ReadAfter ==
  ASSUME NEW v, NEW s, NEW n, NEW r, NEW t, Follows(v, s, n, r, t)
  PROVE  /\ BufferOf(Behind(v, s, n, r), r + n)
         /\ Behind(v, s, n, r).size = v.size
         /\ Len(Behind(v, s, n, r).mem) = Len(v.mem)
         /\ Holds(Behind(v, s, n, r).mem, s + n, t)
  <1> DEFINE w == Behind(v, s, n, r)
             q == v.mem
             m == [i \in 1..Len(q) |-> IF s < i /\ i <= s + n THEN r + i - s ELSE q[i]]
  <1>0. /\ r \in Nat /\ t \in Nat /\ s \in Nat /\ n \in Nat
        /\ BufferOf(v, r) /\ t <= r /\ s = r - t /\ Holds(q, s, t)
        /\ s + n <= Len(q)
    BY Zenon DEF Follows
  <1>1. /\ v \in [mem : Seq(Nat), size : Nat] /\ v.size <= Len(q)
        /\ q \in Seq(Nat) /\ \A i \in 1..Len(q) : q[i] <= r
    BY <1>0 DEF BufferOf
  <1>2. Len(q) \in Nat /\ DOMAIN q = 1..Len(q)
    BY <1>1
  <1>3. w = [v EXCEPT !.mem = m]
    BY <1>2, Zenon DEF Behind
  <1>4. \A i \in 1..s : q[i] = t + i
    BY <1>0 DEF Holds
  <1> HIDE DEF q
  <1>6. m \in [1..Len(q) -> Nat]
    <2> SUFFICES ASSUME NEW i \in 1..Len(q)
                 PROVE  (IF s < i /\ i <= s + n THEN r + i - s ELSE q[i]) \in Nat
      BY Zenon
    <2>1. q[i] \in Nat
      BY <1>1
    <2> QED BY <1>0, <1>2, <2>1
  <1>7. \A i \in 1..Len(q) : m[i] = IF s < i /\ i <= s + n THEN r + i - s ELSE q[i]
    BY Zenon
  <1> HIDE DEF m
  <1>8. m \in Seq(Nat) /\ Len(m) = Len(q)
    BY <1>2, <1>6, FcnSeq, Zenon
  <1>9. \A i \in 1..Len(q) : m[i] <= r + n
    <2> SUFFICES ASSUME NEW i \in 1..Len(q) PROVE m[i] <= r + n
      OBVIOUS
    <2>1. q[i] \in Nat /\ q[i] <= r /\ i \in Nat
      BY <1>1, <1>2
    <2>2. m[i] = IF s < i /\ i <= s + n THEN r + i - s ELSE q[i]
      BY <1>7, Zenon
    <2> QED BY <1>0, <2>1, <2>2
  <1>10. \A i \in 1..(s + n) : m[i] = t + i
    <2> SUFFICES ASSUME NEW i \in 1..(s + n) PROVE m[i] = t + i
      OBVIOUS
    <2>1. i \in 1..Len(q) /\ i \in Nat
      BY <1>0, <1>2
    <2>2. m[i] = IF s < i /\ i <= s + n THEN r + i - s ELSE q[i]
      BY <1>7, <2>1, Zenon
    <2>3. i <= s => q[i] = t + i
      BY <1>4
    <2> QED BY <1>0, <2>1, <2>2, <2>3
  <1>11. /\ w \in [mem : Seq(Nat), size : Nat] /\ w.size = v.size /\ w.mem = m
    BY <1>1, <1>3, <1>8, Zenon
  <1> QED BY <1>0, <1>1, <1>8, <1>9, <1>10, <1>11, Zenon DEF BufferOf, Holds, q

\* Bytes have been read.
LEMMA ReadDoneStep ==
  ASSUME IInv, ReadDone
  PROVE  IInv'
  <1> DEFINE room == Capacity(request_buffer) - size
  <1>1. at = "reading" /\ at \in Reading /\ at \in {"start"} \cup Reading /\ ~Eof
    BY DEF ReadDone, Reading
  <1>2. /\ sent \in Sents /\ taken \in Nat /\ received \in Nat /\ want \in Nat /\ size \in Nat
        /\ received <= End(sent, Len(sent)) /\ End(sent, Len(sent)) \in Nat
        /\ taken <= received /\ current \in 0..Len(sent) /\ Len(sent) \in Nat
        /\ BufferOf(request_buffer, received) /\ BufferOf(body_buffer, received)
        /\ size <= Len(request_buffer.mem) /\ body = <<>>
    BY <1>1, InBetween, Zenon
  <1>3. want = 0
    BY <1>1, <1>2 DEF Eof
  <1>4. PICK n \in IF room = 0 THEN {0} ELSE SomeRead(room) :
          /\ request_buffer' = [request_buffer EXCEPT
               !.mem = [i \in DOMAIN @ |-> IF size < i /\ i <= size + n
                                           THEN received + i - size ELSE @[i]]]
          /\ size' = size + n
          /\ received' = received + n
    BY Zenon DEF ReadDone
  <1>41. /\ request_buffer' = Behind(request_buffer, size, n, received)
         /\ size' = size + n /\ received' = received + n
    BY <1>4, Zenon DEF Behind
  <1>5. /\ UNCHANGED <<backend, sent, taken, current, want, ignored, answers>>
        /\ body_buffer' = body_buffer /\ at' = "read_request" /\ body' = body
    BY Zenon DEF ReadDone
  <1>6. Len(request_buffer.mem) \in Nat /\ room = Len(request_buffer.mem) - size
    BY <1>2 DEF BufferOf, Capacity
  <1>7. room \in Nat
    BY <1>2, <1>6
  <1> HIDE DEF room
  <1>8. n \in Nat /\ n <= room /\ received + n <= End(sent, Len(sent))
    <2>1. CASE room = 0
      BY <1>2, <1>4, <2>1
    <2>2. CASE room # 0
      BY <1>2, <1>7, <2>2, ReadSome, Zenon
    <2> QED BY <2>1, <2>2
  <1>9. /\ body_buffer.size = 0 /\ size = received - taken
        /\ Holds(request_buffer.mem, size, taken)
    BY <1>1, <1>3, Zenon DEF IInv, Stream
  <1>10. size + n <= Len(request_buffer.mem)
    BY <1>2, <1>6, <1>7, <1>8
  <1>11. /\ BufferOf(request_buffer', received + n)
         /\ request_buffer'.size = request_buffer.size
         /\ Len(request_buffer'.mem) = Len(request_buffer.mem)
         /\ Holds(request_buffer'.mem, size + n, taken)
    <2> DEFINE w == Behind(request_buffer, size, n, received)
    <2>1. /\ BufferOf(w, received + n) /\ w.size = request_buffer.size
          /\ Len(w.mem) = Len(request_buffer.mem) /\ Holds(w.mem, size + n, taken)
      <3>1. Follows(request_buffer, size, n, received, taken)
        BY <1>2, <1>8, <1>9, <1>10, Zenon DEF Follows
      <3> QED BY <3>1, ReadAfter
    <2> QED BY <1>41, <2>1, Zenon
  <1>12. /\ received' \in Nat /\ received <= received' /\ size' \in Nat
         /\ size' = received' - taken
         /\ size' < 4 * BUF_SIZE => size < 4 * BUF_SIZE
    BY <1>2, <1>41, <1>8, <1>9, CycleAssumption
  <1>13. BufferOf(body_buffer', received')
    BY <1>2, <1>5, <1>12, BufferLater, Zenon
  <1>14. /\ request_buffer.size >= BUF_SIZE
         /\ Short(sent, current) =>
              /\ Len(body_buffer.mem) = BUF_SIZE
              /\ size < 4 * BUF_SIZE \/ (~ignored /\ Next3(sent, current)) =>
                   Grown(request_buffer)
         /\ Short(sent, current + 1) /\ ~ignored =>
              request_buffer.size = BUF_SIZE /\ Len(request_buffer.mem) = BUF_SIZE
    BY <1>1, Zenon DEF IInv, Growth
  <1>15. Grown(request_buffer) => Grown(request_buffer')
    BY <1>11, Zenon DEF Grown
  <1>16. at' \in Reading /\ at' # "reading" /\ ~(want > 0)
    BY <1>2, <1>3, <1>5 DEF Reading
  <1> QED BY <1>1, <1>2, <1>3, <1>41, <1>5, <1>8, <1>9, <1>10, <1>11, <1>12, <1>13, <1>14,
             <1>15, <1>16, ReadingStep, Zenon

\* The bytes are no request: it is refused.
LEMMA InvalidStep ==
  ASSUME IInv, RequestInvalid
  PROVE  IInv'
  <1>1. /\ at = "read_request" /\ at \in Reading /\ at \in {"start"} \cup Reading /\ isComplete
        /\ \A k \in 1..Len(sent) : ~parse(k)
    BY DEF RequestInvalid, Reading
  <1>2. /\ UNCHANGED <<backend, sent, received, taken, buffers, current, want, body, ignored>>
        /\ answers' = Append(answers, "BadRequest") /\ at' = "sending"
    BY Zenon DEF RequestInvalid
  <1>3. answers \in Seq(Codes)
    BY <1>1, InBetween, Zenon
  <1>4. ignored
    BY <1>1, Complete, Zenon
  <1>5. /\ answers' \in Seq(Codes) /\ Len(answers') = Len(answers) + 1
        /\ answers'[Len(answers) + 1] = "BadRequest" /\ answers' # <<>>
    <2>1. "BadRequest" \in Codes
      BY DEF Codes
    <2> QED BY <1>2, <1>3, <2>1, OneMore, Zenon
  <1>6. Refused'
    BY <1>5, Zenon DEF Refused
  <1>7. /\ at' \notin Reading /\ at' \notin Handling /\ at' \notin Bodily
        /\ ~Served' /\ ~Between' /\ at' \in {"sending", "closed"}
    BY <1>2, <1>6 DEF Reading, Handling, Bodily, Served, Between
  <1>8. Ends(sent)' /\ Types'
    <2>1. at' \in {"start", "sending", "closed"} \cup Reading \cup Handling
      BY <1>2
    <2> QED BY <1>2, <1>5, <2>1, Zenon DEF IInv, Types, buffers
  <1>9. Order'
    BY <1>2, <1>4, <1>6, <1>7, Zenon DEF Order
  <1>10. Place' /\ Stream'
    <2>1. /\ at' # "sink" /\ at' # "readingWhole" /\ at' # "readingParts" /\ at' # "reading"
          /\ at' \notin {"readingWhole", "readingParts"}
          /\ at' \notin {"sink", "parts", "readingWhole"}
      BY <1>2
    <2> QED BY <1>6, <1>7, <2>1, Zenon DEF Place, Stream
  <1>11. Growth' /\ HeadThere'
    <2>1. at' # "reading" /\ at' # "start"
      BY <1>2
    <2> QED BY <1>2, <1>7, <2>1, Zenon DEF IInv, Growth, HeadThere
  <1> QED BY <1>8, <1>9, <1>10, <1>11, Zenon DEF IInv

\* The next request goes to its handler.
LEMMA SinkStep ==
  ASSUME IInv, at = "read_request", ~ignored, want = 0,
         NEW k \in 1..Len(sent), k = current + 1, sent[k].head <= size,
         UNCHANGED <<backend, sent, received, size, want, body, ignored, answers>>,
         at' = "sink", current' = k, taken' = taken + sent[k].head,
         BufferOf(request_buffer', received), size <= Len(request_buffer'.mem),
         Pends(body_buffer', taken', received),
         Short(sent, k) =>
           Len(request_buffer'.mem) = BUF_SIZE /\ Len(body_buffer'.mem) = BUF_SIZE,
         backend = "ragel" /\ OneLongOf3(sent) =>
           Holds(request_buffer'.mem, sent[k].head, taken)
  PROVE  IInv'
  <1>1. at \in Reading /\ at \in {"start"} \cup Reading
    BY DEF Reading
  <1>2. /\ sent \in Sents /\ Ends(sent) /\ Len(sent) \in Nat
        /\ backend \in Backends /\ answers \in Seq(Codes) /\ body = <<>>
        /\ taken \in Nat /\ received \in Nat /\ size \in Nat
        /\ received <= End(sent, Len(sent)) /\ ~Refused
        /\ current \in 0..Len(sent) /\ current = Len(answers) /\ taken = End(sent, current)
    BY <1>1, InBetween, Zenon
  <1>3. size = received - taken
    BY <1>1, Zenon DEF IInv, Stream
  <1>4. /\ sent[k].head \in Nat \ {0} /\ HeadOf(sent, k) = End(sent, k - 1) + sent[k].head
    BY <1>2, OneMessage, Zenon
  <1>5. k - 1 = current
    BY <1>2
  <1>6. /\ taken' = HeadOf(sent, k) /\ taken' \in Nat /\ taken' <= received
        /\ k \in 0..Len(sent) /\ k = Len(answers) + 1
    <2> DEFINE x == sent[k].head
    <2>1. taken' = taken + x /\ taken' = HeadOf(sent, k)
      BY <1>2, <1>4, <1>5, Zenon
    <2>2. /\ x \in Nat \ {0} /\ x <= size /\ size = received - taken
          /\ taken \in Nat /\ received \in Nat
      BY <1>2, <1>3, <1>4, Zenon
    <2> HIDE DEF x
    <2>3. taken' \in Nat /\ taken' <= received
      BY <2>1, <2>2
    <2>4. k \in 0..Len(sent) /\ k = Len(answers) + 1
      BY <1>2
    <2> QED BY <2>1, <2>3, <2>4, Zenon
  <1>7. /\ at' \in Handling /\ at' \notin Reading /\ at' \notin Bodily
        /\ at' \notin {"start", "sending"} /\ at' \notin {"readingWhole", "readingParts"}
        /\ at' # "reading" /\ at' # "readingParts" /\ at' # "sending" /\ at' # "readingWhole"
        /\ at' # "start"
    BY DEF Handling, Reading, Bodily
  <1>8. ~Refused' /\ ~Between'
    BY <1>2, <1>7 DEF Refused, Between
  <1>9. BufferOf(body_buffer', received')
    BY Zenon DEF Pends
  <1>10. Ends(sent)' /\ Types'
    <2>1. at' \in {"start", "sending", "closed"} \cup Reading \cup Handling
      BY <1>7, Zenon
    <2>2. body' \in Seq(Nat) /\ want' \in Nat /\ ignored' \in BOOLEAN
      BY <1>2 DEF IInv, Types
    <2> QED BY <1>2, <1>6, <1>9, <2>1, <2>2, Zenon DEF Types
  <1>11. Order'
    BY <1>6, <1>7, <1>8, Zenon DEF Order
  <1>12. Place'
    BY <1>2, <1>6, <1>7, <1>8, Zenon DEF Place
  <1>13. Stream'
    BY <1>7, Zenon DEF Stream
  <1>14. Growth'
    <2>1. backend = "stream" => Short(sent, Len(sent))
      BY Zenon DEF IInv, Growth
    <2> QED BY <1>7, <2>1, Zenon DEF Growth
  <1>15. HeadThere'
    <2>1. taken = End(sent, k - 1)
      BY <1>2, <1>5
    <2> QED BY <2>1, Zenon DEF HeadThere
  <1> QED BY <1>10, <1>11, <1>12, <1>13, <1>14, <1>15, Zenon DEF IInv

\* What follows the first n of the bytes that wait becomes the elements of a vector.
KeepsRest(v, q, n, s, t, r) ==
  /\ Pends(Fill(v, SubSeq(q, n + 1, s)), t + n, r)
  /\ s <= Len(v.mem) => Len(Fill(v, SubSeq(q, n + 1, s)).mem) = Len(v.mem)

\* KeepRagel and shrinkVector fill a vector with what follows the head.
LEMMA RestKept ==
  ASSUME NEW v, NEW r \in Nat, BufferOf(v, r), NEW q \in Seq(Nat),
         NEW s \in Nat, NEW t \in Nat, Holds(q, s, t), r = t + s, NEW n \in Nat, n <= s
  PROVE  KeepsRest(v, q, n, s, t, r)
  <1> DEFINE u == SubSeq(q, n + 1, s)
             w == Fill(v, u)
             m == w.mem
  <1>1. u \in Seq(Nat) /\ Len(u) = s - n /\ \A i \in 1..(s - n) : u[i] = t + n + i
    <2>1. s \in 0..Len(q) /\ n \in 0..s /\ \A i \in 1..s : q[i] = t + i
      BY DEF Holds
    <2>2. u \in Seq(Nat) /\ Len(u) = s - n /\ \A i \in 1..(s - n) : u[i] = q[n + i]
      BY <2>1, PartOf, Zenon
    <2> HIDE DEF u
    <2> SUFFICES ASSUME NEW i \in 1..(s - n) PROVE u[i] = t + n + i
      BY <2>2, Zenon
    <2>3. n + i \in 1..s /\ t + (n + i) = t + n + i
      OBVIOUS
    <2>4. q[n + i] = t + (n + i)
      BY <2>1, <2>3, Zenon
    <2> QED BY <2>2, <2>3, <2>4, Zenon
  <1> HIDE DEF u
  <1>2. BytesOf(u, r)
    <2>1. \A i \in 1..Len(u) : u[i] <= r
      BY <1>1
    <2> QED BY <1>1, <2>1, Zenon DEF BytesOf
  <1>3. /\ BufferOf(w, r) /\ w.size = Len(u)
        /\ Len(w.mem) = IF Len(u) <= Len(v.mem) THEN Len(v.mem) ELSE Len(u)
        /\ \A i \in 1..Len(u) : w.mem[i] = u[i]
    <2>1. IsFilled(w, v, u, r)
      BY <1>2, Filled, Zenon
    <2> HIDE DEF w
    <2> QED BY <2>1, Zenon DEF IsFilled
  <1> HIDE DEF w
  <1>4. m \in Seq(Nat) /\ w.size \in Nat /\ w.size <= Len(m) /\ Len(v.mem) \in Nat
    BY <1>3 DEF BufferOf
  <1>5. \A i \in 1..w.size : m[i] = t + n + i
    BY <1>1, <1>3, Zenon
  <1>6. Holds(m, w.size, t + n)
    BY <1>4, <1>5, Zenon DEF Holds
  <1>7. t + n <= r /\ w.size = r - (t + n)
    BY <1>1, <1>3
  <1>8. Pends(w, t + n, r)
    BY <1>3, <1>6, <1>7, Zenon DEF Pends
  <1>9. s <= Len(v.mem) => Len(w.mem) = Len(v.mem)
    BY <1>1, <1>3, <1>4
  <1> QED BY <1>8, <1>9, Zenon DEF KeepsRest, w, u

\* What shrinkVector leaves of vector v, whose first s bytes wait, when it drops n.
Shrunk(v, n, s) ==
  LET rest == SubSeq(v.mem, n + 1, s)
  IN Resize([v EXCEPT !.mem = rest \o SubSeq(@, Len(rest) + 1, Capacity(v))], Len(rest))

\* shrinkVector: what follows the first n of the bytes that wait moves to the front of
\* a vector that has all of its memory as elements.
LEMMA RestMoved ==
  ASSUME NEW v, NEW r \in Nat, BufferOf(v, r), v.size = Len(v.mem),
         NEW s \in Nat, NEW t \in Nat, Holds(v.mem, s, t), r = t + s, NEW n \in Nat, n <= s
  PROVE  /\ Pends(Shrunk(v, n, s), t + n, r)
         /\ Len(Shrunk(v, n, s).mem) = Len(v.mem)
  <1> DEFINE q == v.mem
             u == SubSeq(q, n + 1, s)
             f == Fill(v, u)
             w == Shrunk(v, n, s)
  <1>1. v \in [mem : Seq(Nat), size : Nat] /\ q \in Seq(Nat) /\ Len(q) \in Nat
    BY DEF BufferOf
  <1>2. s <= Len(q)
    BY DEF Holds
  <1>3. Pends(f, t + n, r) /\ Len(f.mem) = Len(q)
    <2>1. KeepsRest(v, q, n, s, t, r)
      BY <1>1, RestKept, Zenon
    <2> QED BY <1>2, <2>1, Zenon DEF KeepsRest
  <1>4. u \in Seq(Nat) /\ Len(u) = s - n
    <2>1. s \in 0..Len(q) /\ n \in 0..s
      BY <1>1, <1>2
    <2> QED BY <1>1, <2>1, PartOf, Zenon
  <1>5. Len(u) \in Nat /\ Len(u) <= Len(q)
    BY <1>1, <1>2, <1>4
  <1> DEFINE m == u \o SubSeq(q, Len(u) + 1, Len(q))
             c == [v EXCEPT !.mem = m]
  <1>6. f = [mem |-> m, size |-> Len(u)]
    <2>1. Reserve(v, Len(u)) = v
      BY <1>5 DEF Reserve, Capacity
    <2> QED BY <2>1, Zenon DEF Fill, Capacity
  <1>7. w = Resize(c, Len(u))
    BY Zenon DEF Shrunk, Capacity
  <1> HIDE DEF q, u, m
  <1>8. c.mem = m /\ c.size = Len(q) /\ f.mem = m /\ f.size = Len(u)
    BY <1>1, <1>6 DEF q
  <1>9. BufferOf(c, r)
    <2>1. m \in Seq(Nat) /\ Len(m) = Len(q) /\ \A i \in 1..Len(m) : m[i] <= r
      BY <1>3, <1>8 DEF Pends, BufferOf
    <2>2. c \in [mem : Seq(Nat), size : Nat]
      BY <1>1, <2>1, Zenon
    <2>3. c.size <= Len(c.mem)
      BY <1>1, <1>8, <2>1
    <2> QED BY <1>8, <2>1, <2>2, <2>3, Zenon DEF BufferOf
  <1> HIDE DEF c, w, f
  <1>10. BufferOf(w, r) /\ w.size = Len(u) /\ w.mem = c.mem
    <2>1. Len(u) <= c.size
      BY <1>5, <1>8
    <2>2. IsResized(Resize(c, Len(u)), c, Len(u), r)
      BY <1>5, <1>9, Resized
    <2> QED BY <1>7, <2>1, <2>2, Zenon DEF IsResized
  <1>11. w.mem = f.mem /\ w.size = f.size
    BY <1>8, <1>10, Zenon
  <1>12. Pends(w, t + n, r)
    BY <1>3, <1>10, <1>11, Zenon DEF Pends
  <1> QED BY <1>3, <1>11, <1>12, Zenon DEF w, q

\* The room that request_buffer_ has for a head.
LEMMA HeadFits ==
  ASSUME IInv, at = "read_request", ~ignored, OneLongOf3(sent),
         NEW k \in 1..Len(sent), k = current + 1, sent[k].head <= size
  PROVE  sent[k].head <= request_buffer.size
  <1> DEFINE h == sent[k].head
             z == request_buffer.size
             c == Len(request_buffer.mem)
             B == BUF_SIZE
  <1>1. at \in Reading /\ at \in {"start"} \cup Reading
    BY DEF Reading
  <1>2. /\ sent \in Sents /\ Ends(sent) /\ Len(sent) \in Nat /\ size \in Nat
        /\ current \in 0..Len(sent) /\ size <= c /\ BufferOf(request_buffer, received)
    BY <1>1, InBetween, Zenon
  <1>3. h \in Nat /\ h <= size
    BY <1>2, OneMessage, Zenon
  <1>4. B \in Nat \ {0} /\ z \in Nat /\ c \in Nat
    BY <1>2, CycleAssumption DEF BufferOf
  <1>5. z >= B
    BY <1>1, Zenon DEF IInv, Growth
  <1>6. h <= 3 * B
    BY Zenon DEF OneLongOf3
  <1>7. CASE Short(sent, current)
    <2>1. Next3(sent, current)
      BY <1>6, Zenon DEF Next3
    <2>2. Grown(request_buffer)
      BY <1>1, <1>7, <2>1, Zenon DEF IInv, Growth
    <2>3. \/ z = B /\ c = B
          \/ z = 2 * B /\ c = 2 * B
          \/ z = 3 * B /\ c = 4 * B
          \/ z = 4 * B /\ c = 4 * B
      BY <2>2, Zenon DEF Grown
    <2> HIDE DEF h, z, c, B
    <2>4. h <= z
      BY <1>2, <1>3, <1>4, <1>6, <2>3
    <2> QED BY <2>4, Zenon DEF h, z
  <1>8. CASE ~Short(sent, current)
    <2>1. PICK j \in 1..Len(sent) : j <= current /\ ~(sent[j].head <= B)
      BY <1>8, Zenon DEF Short
    <2>2. sent[j].head \in Nat \ {0}
      BY <1>2, OneMessage, Zenon
    <2>3. sent[j].head > B /\ j # k
      BY <1>2, <1>4, <2>1, <2>2
    <2>4. ~(h > B)
      BY <2>3, Zenon DEF OneLongOf3, OneLong
    <2> HIDE DEF h, z, c, B
    <2>5. h <= z
      BY <1>3, <1>4, <1>5, <2>4
    <2> QED BY <2>5, Zenon DEF h, z
  <1> QED BY <1>7, <1>8

\* The front of the bytes that wait.
LEMMA HoldsFewer ==
  ASSUME NEW q \in Seq(Nat), NEW s \in Nat, NEW t \in Nat, Holds(q, s, t), NEW n \in Nat, n <= s
  PROVE  Holds(q, n, t)
  <1>1. s <= Len(q) /\ \A i \in 1..s : q[i] = t + i
    BY Zenon DEF Holds
  <1>2. n <= Len(q)
    BY <1>1
  <1>3. \A i \in 1..n : q[i] = t + i
    BY <1>1
  <1> QED BY <1>2, <1>3, Zenon DEF Holds

\* The Ragel parser leaves the head where it is and copies what follows it.
LEMMA KeepRagelStep ==
  ASSUME IInv, at = "read_request", ~ignored, NEW n \in Nat, n <= size, KeepRagel(n),
         received = taken + size, Holds(request_buffer.mem, size, taken),
         body_buffer.size = 0
  PROVE  /\ BufferOf(request_buffer', received)
         /\ Len(request_buffer'.mem) = Len(request_buffer.mem)
         /\ n <= request_buffer.size => request_buffer'.mem = request_buffer.mem
         /\ Pends(body_buffer', taken + n, received)
         /\ size <= Len(body_buffer.mem) => Len(body_buffer'.mem) = Len(body_buffer.mem)
  <1>1. at \in {"start"} \cup Reading
    BY DEF Reading
  <1>2. /\ taken \in Nat /\ received \in Nat /\ size \in Nat
        /\ BufferOf(request_buffer, received) /\ BufferOf(body_buffer, received)
        /\ size <= Len(request_buffer.mem)
    BY <1>1, InBetween, Zenon
  <1>3. CASE n = size
    <2>1. request_buffer' = request_buffer /\ body_buffer' = body_buffer
      BY <1>3, Zenon DEF KeepRagel
    <2>2. Pends(body_buffer, received, received)
      BY <1>2, NonePending, Zenon
    <2>3. taken + n = received
      BY <1>3, Zenon
    <2> QED BY <1>2, <2>1, <2>2, <2>3, Zenon
  <1>4. CASE n # size
    <2>1. /\ body_buffer' = Fill(body_buffer, SubSeq(request_buffer.mem, n + 1, size))
          /\ request_buffer' = Resize(request_buffer, n)
      BY <1>4, Zenon DEF KeepRagel
    <2>2. request_buffer.mem \in Seq(Nat) /\ Len(request_buffer.mem) \in Nat
      BY <1>2 DEF BufferOf
    <2>3. /\ Pends(body_buffer', taken + n, received)
          /\ size <= Len(body_buffer.mem) => Len(body_buffer'.mem) = Len(body_buffer.mem)
      <3>1. KeepsRest(body_buffer, request_buffer.mem, n, size, taken, received)
        BY <1>2, <2>2, RestKept, Zenon
      <3> QED BY <2>1, <3>1, Zenon DEF KeepsRest
    <2>4. n <= Len(request_buffer.mem)
      BY <1>2, <2>2
    <2>5. /\ BufferOf(request_buffer', received)
          /\ Len(request_buffer'.mem) = Len(request_buffer.mem)
          /\ n <= request_buffer.size => request_buffer'.mem = request_buffer.mem
      <3>1. IsResized(Resize(request_buffer, n), request_buffer, n, received)
        BY <1>2, Resized
      <3> QED BY <2>1, <2>4, <3>1, Zenon DEF IsResized
    <2> QED BY <2>3, <2>5, Zenon
  <1> QED BY <1>3, <1>4

\* The stream parser copies the head, moves what follows it to the front and exchanges
\* the vectors.
LEMMA KeepStreamStep ==
  ASSUME IInv, at = "read_request", NEW n \in Nat, n <= size, KeepStream(n),
         received = taken + size, Holds(request_buffer.mem, size, taken),
         request_buffer.size = Len(request_buffer.mem)
  PROVE  /\ request_buffer' = body_buffer
         /\ Pends(body_buffer', taken + n, received)
         /\ Len(body_buffer'.mem) = Len(request_buffer.mem)
  <1>1. at \in {"start"} \cup Reading
    BY DEF Reading
  <1>2. /\ taken \in Nat /\ received \in Nat /\ size \in Nat
        /\ BufferOf(request_buffer, received)
    BY <1>1, InBetween, Zenon
  <1>3. request_buffer' = body_buffer /\ body_buffer' = Shrunk(request_buffer, n, size)
    BY Zenon DEF KeepStream, shrinkVector, Shrunk
  <1> QED BY <1>2, <1>3, RestMoved

\* A request has been read.
LEMMA RequestReadStep ==
  ASSUME IInv, NEW k \in 1..Len(sent), RequestRead(k)
  PROVE  IInv'
  <1> DEFINE n == sent[k].head
  <1>1. /\ at = "read_request" /\ at \in Reading /\ at \in {"start"} \cup Reading /\ isComplete
        /\ parse(k)
    BY DEF RequestRead, Reading
  <1>2. /\ UNCHANGED <<backend, sent, received, size, want, body, ignored, answers>>
        /\ at' = "sink" /\ current' = k /\ taken' = taken + n
        /\ backend = "ragel" => KeepRagel(n)
        /\ backend # "ragel" => KeepStream(n)
    BY Zenon DEF RequestRead
  <1>3. ~ignored /\ want = 0 /\ k = current + 1
    BY <1>1, Parsed, Zenon
  <1>4. n <= size
    BY <1>1, Zenon DEF parse
  <1>5. /\ sent \in Sents /\ Ends(sent) /\ Len(sent) \in Nat /\ backend \in Backends
        /\ taken \in Nat /\ received \in Nat /\ size \in Nat /\ taken <= received
        /\ BufferOf(request_buffer, received) /\ BufferOf(body_buffer, received)
        /\ size <= Len(request_buffer.mem) /\ current \in 0..Len(sent)
    BY <1>1, InBetween, Zenon
  <1>6. n \in Nat
    <2>1. n \in Nat \ {0}
      BY <1>5, OneMessage, Zenon
    <2> QED BY <2>1
  <1>7. /\ body_buffer.size = 0 /\ size = received - taken
        /\ Holds(request_buffer.mem, size, taken)
    BY <1>1, <1>3, Zenon DEF IInv, Stream
  <1>8. received = taken + size
    BY <1>5, <1>7
  <1>9. Short(sent, k) => Short(sent, current)
    <2> SUFFICES ASSUME Short(sent, k), NEW j \in 1..Len(sent), j <= current
                 PROVE  sent[j].head <= BUF_SIZE
      BY Zenon DEF Short
    <2>1. j <= k
      BY <1>3, <1>5
    <2> QED BY <2>1, Zenon DEF Short
  <1>10. /\ Short(sent, k) => /\ request_buffer.size = BUF_SIZE
                              /\ Len(request_buffer.mem) = BUF_SIZE
         /\ Short(sent, current) => Len(body_buffer.mem) = BUF_SIZE
    BY <1>1, <1>3, Zenon DEF IInv, Growth
  <1>11. CASE backend = "ragel"
    <2>1. KeepRagel(n)
      BY <1>2, <1>11, Zenon
    <2>2. /\ BufferOf(request_buffer', received)
          /\ Len(request_buffer'.mem) = Len(request_buffer.mem)
          /\ n <= request_buffer.size => request_buffer'.mem = request_buffer.mem
          /\ Pends(body_buffer', taken + n, received)
          /\ size <= Len(body_buffer.mem) => Len(body_buffer'.mem) = Len(body_buffer.mem)
      BY <1>1, <1>3, <1>4, <1>6, <1>7, <1>8, <2>1, KeepRagelStep, Zenon
    <2>3. size <= Len(request_buffer'.mem) /\ Pends(body_buffer', taken', received)
      BY <1>2, <1>5, <2>2, Zenon
    <2>4. Short(sent, k) =>
            Len(request_buffer'.mem) = BUF_SIZE /\ Len(body_buffer'.mem) = BUF_SIZE
      BY <1>5, <1>9, <1>10, <2>2, Zenon
    <2>5. OneLongOf3(sent) => Holds(request_buffer'.mem, n, taken)
      <3> SUFFICES ASSUME OneLongOf3(sent) PROVE Holds(request_buffer'.mem, n, taken)
        OBVIOUS
      <3>1. n <= request_buffer.size
        BY <1>1, <1>3, <1>4, HeadFits, Zenon
      <3>2. request_buffer.mem \in Seq(Nat)
        BY <1>5 DEF BufferOf
      <3>3. Holds(request_buffer.mem, n, taken)
        BY <1>4, <1>5, <1>6, <1>7, <3>2, HoldsFewer, Zenon
      <3> QED BY <2>2, <3>1, <3>3, Zenon
    <2> QED BY <1>1, <1>2, <1>3, <1>4, <2>2, <2>3, <2>4, <2>5, SinkStep, Zenon
  <1>12. CASE backend # "ragel"
    <2>1. backend = "stream" /\ KeepStream(n)
      BY <1>2, <1>5, <1>12, CycleAssumption
    <2>2. Short(sent, Len(sent))
      BY <2>1, Zenon DEF IInv, Growth
    <2>3. Short(sent, k)
      <3> SUFFICES ASSUME NEW j \in 1..Len(sent) PROVE sent[j].head <= BUF_SIZE
        BY Zenon DEF Short
      <3>1. j <= Len(sent)
        BY <1>5
      <3> QED BY <2>2, <3>1, Zenon DEF Short
    <2>4. /\ request_buffer.size = Len(request_buffer.mem)
          /\ Len(request_buffer.mem) = BUF_SIZE /\ Len(body_buffer.mem) = BUF_SIZE
      BY <1>9, <1>10, <2>3, Zenon
    <2>5. /\ request_buffer' = body_buffer /\ Pends(body_buffer', taken + n, received)
          /\ Len(body_buffer'.mem) = Len(request_buffer.mem)
      BY <1>1, <1>4, <1>6, <1>7, <1>8, <2>1, <2>4, KeepStreamStep, Zenon
    <2>6. /\ BufferOf(request_buffer', received) /\ size <= Len(request_buffer'.mem)
          /\ Len(request_buffer'.mem) = BUF_SIZE /\ Len(body_buffer'.mem) = BUF_SIZE
          /\ Pends(body_buffer', taken', received)
      BY <1>2, <1>5, <2>4, <2>5, Zenon
    <2> QED BY <1>1, <1>2, <1>3, <1>4, <1>12, <2>6, SinkStep, Zenon
  <1> QED BY <1>11, <1>12

----------------------------------------------------------------------------
(* Every step.                                                             *)

\* IInv is inductive.
LEMMA CycleStep ==
  IInv /\ [Next]_vars => IInv'
  <1> SUFFICES ASSUME IInv, [Next]_vars PROVE IInv'
    OBVIOUS
  <1>1. CASE start
    BY <1>1, StartStep
  <1>2. CASE RequestInvalid
    BY <1>2, InvalidStep
  <1>3. CASE ReadMore
    BY <1>3, ReadMoreStep
  <1>4. CASE ReadDone
    BY <1>4, ReadDoneStep
  <1>5. CASE ReadFails
    BY <1>5, ClosedStep, Zenon DEF ReadFails
  <1>6. ASSUME NEW k \in 1..Len(sent), RequestRead(k) PROVE IInv'
    BY <1>6, RequestReadStep, Zenon
  <1>7. CASE Unroutable
    <2>1. "NotFound" \in Replies
      BY DEF Replies
    <2> QED BY <1>7, <2>1, SinkAnswer, Zenon DEF Unroutable
  <1>8. CASE HandleWithBody
    BY <1>8, WholeStep, Zenon DEF HandleWithBody
  <1>9. CASE HandlerAnswers
    <2>1. "Ok" \in Replies
      BY DEF Replies
    <2> QED BY <1>9, <2>1, SinkAnswer, Zenon DEF HandlerAnswers, Handler
  <1>10. CASE HandlerReadsWhole
    BY <1>10, WholeStep, Zenon DEF HandlerReadsWhole, Handler
  <1>11. CASE HandlerReadsParts
    BY <1>11, PartsStep
  <1>12. CASE WholeRead
    BY <1>12, WholeReadStep
  <1>13. CASE ReadPart
    BY <1>13, ReadPartStep
  <1>14. CASE PartRead
    BY <1>14, PartReadStep
  <1>15. CASE BodyReadFails
    BY <1>15, BodyReadFailsStep
  <1>16. CASE Sent
    BY <1>16, SentStep
  <1>17. CASE WriteFails
    BY <1>17, ClosedStep, Zenon DEF WriteFails
  <1>18. CASE UNCHANGED vars
    <2>1. /\ UNCHANGED <<backend, sent, received, taken, request_buffer, body_buffer, size>>
          /\ UNCHANGED <<at, current, want, body, ignored, answers>>
      BY <1>18, Zenon DEF vars, buffers
    <2>2. Refused' = Refused
      BY <2>1, Zenon DEF Refused
    <2>3. Ends(sent)' /\ Types'
      BY <2>1, Zenon DEF IInv, Types
    <2>4. Order'
      BY <2>1, <2>2, Zenon DEF IInv, Order, Between
    <2>5. Place'
      BY <2>1, <2>2 DEF IInv, Place, Between
    <2>6. Stream'
      BY <2>1, <2>2, Zenon DEF IInv, Stream
    <2>7. Growth' /\ HeadThere'
      BY <2>1, <2>2 DEF IInv, Growth, HeadThere, Served
    <2> QED BY <2>3, <2>4, <2>5, <2>6, <2>7, Zenon DEF IInv
  <1> QED BY <1>1, <1>2, <1>3, <1>4, <1>5, <1>6, <1>7, <1>8, <1>9, <1>10, <1>11, <1>12, <1>13,
             <1>14, <1>15, <1>16, <1>17, <1>18, Zenon DEF Next, Step, Closed
=============================================================================
