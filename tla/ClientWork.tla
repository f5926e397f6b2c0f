----------------------------- MODULE ClientWork -----------------------------
(***************************************************************************)
(* The client keeps what ClientContract promises: what a task of the io    *)
(* thread does to each request and to each thread that waits, and the      *)
(* refinement, step by step.                                               *)
(***************************************************************************)
EXTENDS ClientProofs

Fits(x) == x.polls + x.stale <= MaxPolls

\* The bound on all waits bounds those of each connection (module ClientTypes).
EachFits ==
  \A d \in [Requests -> Connection] : WaitsBound(d) => \A s \in Requests : Fits(d[s])

\* A request that is taken on has no result that is not posted; a result is kept;
\* a promise is accepted for a request taken on, and set once it has a result.
Worked(x, y) ==
  /\ y.life = x.life \/ (x.life = "submitted" /\ y.life \in {"handled", "dropped"})
  /\ y.life = "handled" =>
       IF x.life = "handled" /\ x.notified THEN y.notified /\ y.posted = x.posted
       ELSE y.notified => y.posted
  /\ y.promise # x.promise =>
       \/ x.promise = "nobody" /\ x.life = "handled" /\ y.life = "handled"
       \/ y.promise = "nobody" /\ y.life = "handled" /\ y.notified
  /\ EachFits /\ Fits(x) => Fits(y)

----------------------------------------------------------------------------
(* One connection.                                                         *)

\* checkHandles sets a promise when its request has a result.
LEMMA PassWorked ==
  ASSUME NEW x, NEW w \in Connection, NEW z, Busy(w), Worked(x, w),
         w.promise = x.promise, Passes(w, z), EachFits /\ Fits(x) => Fits(z)
  PROVE  Worked(x, z)
  <1>1. /\ z.life = w.life /\ z.promise = "nobody" /\ Common(z)
        /\ w.promise # "nobody" => z.state = "absent"
        /\ w.notified => z.notified /\ z.posted = w.posted
        /\ ~w.notified /\ z.notified => z.posted
    BY DEF Passes, Idle
  <1>2. w.promise # "nobody" => w.life = "handled"
    BY DEF Busy, Common
  <1>3. z.life = x.life \/ (x.life = "submitted" /\ z.life \in {"handled", "dropped"})
    BY <1>1 DEF Worked
  <1>4. z.life = "handled" =>
          IF x.life = "handled" /\ x.notified THEN z.notified /\ z.posted = x.posted
          ELSE z.notified => z.posted
    BY <1>1 DEF Worked
  <1>5. z.promise # x.promise => z.life = "handled" /\ z.notified
    BY <1>1, <1>2 DEF Common
  <1>6. QED
    BY <1>1, <1>3, <1>4, <1>5 DEF Worked

\* Nothing happened.
LEMMA SameWorked ==
  ASSUME NEW x
  PROVE  Worked(x, x)
  BY DEF Worked

\* A request that is refused, or taken on without a call of libcurl.
LEMMA SettledWorked ==
  ASSUME NEW x \in Connection, Rest(x), x.life = "submitted", NEW y, Settled(x, y)
  PROVE  Worked(x, y) /\ y.promise = x.promise
  <1>1. x.polls = 0 /\ x.stale = 0
    BY SubmittedStep
  <1>2. /\ y.life \in {"handled", "dropped"} /\ y.promise = x.promise
        /\ y.life = "handled" /\ y.notified => y.posted
        /\ y.polls = 0 /\ y.stale = 0
    BY DEF Settled
  <1>3. QED
    BY <1>1, <1>2 DEF Worked, Fits

\* A connection whose state performOp overwrites, or that an error completes.
LEMMA KeptWorked ==
  ASSUME NEW x, NEW y, y.life = x.life, y.promise = x.promise,
         x.notified => y.notified /\ y.posted = x.posted,
         ~x.notified /\ y.notified => y.posted,
         y.polls = x.polls, y.stale = x.stale,
         x.life = "handled"
  PROVE  Worked(x, y)
  BY DEF Worked, Fits

\* A cancellation, by a thread or by the destructor.
LEMMA CancelWorked ==
  ASSUME NEW x \in Connection, Rest(x), NEW y \in Connection, y.life = x.life,
         y.notified = x.notified, y.posted = x.posted,
         y.polls <= x.polls, y.stale = x.stale,
         y.promise # x.promise => x.state \notin {"absent", "Cancelled"}
  PROVE  Worked(x, y)
  <1>1. /\ x.polls \in Nat /\ x.stale \in Nat /\ y.polls \in Nat
        /\ x.notified \in BOOLEAN /\ x.posted \in BOOLEAN
    BY FieldTypes
  <1>2. y.promise # x.promise => x.promise = "nobody" /\ x.life = "handled"
    BY DEF Rest, Idle, Common
  <1>3. x.posted => x.notified
    BY DEF Rest, Idle, Common
  <1>4. EachFits /\ Fits(x) => Fits(y)
    BY <1>1, BoundsAssumption DEF Fits
  <1>5. QED
    BY <1>1, <1>2, <1>3, <1>4 DEF Worked


----------------------------------------------------------------------------
(* All connections, across a task.                                         *)

AllWorked == \A s \in Requests : Worked(conn[s], conn'[s])

\* The end of a task takes the aborted waits of a connection to the queue.
LEMMA EndWorked ==
  ASSUME NEW c \in [Requests -> Connection], EndTask(c),
         \A s \in Requests : Worked(conn[s], c[s])
  PROVE  AllWorked
  <1> SUFFICES ASSUME NEW s \in Requests PROVE Worked(conn[s], conn'[s])
    BY DEF AllWorked
  <1> DEFINE x == c[s]
             y == [x EXCEPT !.aborted = 0]
  <1>1. x \in Connection /\ conn'[s] = y /\ Worked(conn[s], x)
    BY DEF EndTask
  <1> HIDE DEF x
  <1>2. /\ y.life = x.life /\ y.notified = x.notified /\ y.posted = x.posted
        /\ y.promise = x.promise /\ y.polls = x.polls /\ y.stale = x.stale
    BY <1>1 DEF Connection
  <1> HIDE DEF y
  <1>3. Worked(conn[s], y)
    BY <1>1, <1>2 DEF Worked, Fits
  <1>4. QED
    BY <1>1, <1>3

\* What a task has made of the connections when it calls libcurl or checkHandles.
Started(b) ==
  \A s \in Requests :
    Busy(b[s]) /\ Worked(conn[s], b[s]) /\ b[s].promise = conn[s].promise

\* libcurl is called, and then checkHandles.
LEMMA DrivenWorked ==
  ASSUME NEW b \in [Requests -> Connection], Started(b), NEW d \in AllDriven(b)
  PROVE  /\ checkHandles(d) \in [Requests -> Connection]
         /\ \A s \in Requests : /\ Worked(conn[s], checkHandles(d)[s])
                                /\ Passes(b[s], checkHandles(d)[s])
  <1>1. \A s \in Requests : Busy(b[s])
    BY DEF Started
  <1>2. /\ checkHandles(d) \in [Requests -> Connection]
        /\ \A s \in Requests : Passes(b[s], checkHandles(d)[s])
    BY <1>1, DrivenChecked, Zenon
  <1>3. /\ d \in [Requests -> Connection] /\ WaitsBound(d)
        /\ \A s \in Requests : Drives(b[s], d[s])
    BY AllDrivenStep, Zenon
  <1>4. ASSUME NEW s \in Requests PROVE Worked(conn[s], checkHandles(d)[s])
    <2> DEFINE z == checkHandles(d)[s]
    <2>1. b[s] \in Connection /\ d[s] \in Connection /\ Drives(b[s], d[s]) /\ Busy(b[s])
      BY <1>1, <1>3
    <2>2. z = CheckCancelled(CheckDone(d[s]))
      BY DEF checkHandles
    <2>3. CheckCancelled(CheckDone(d[s])).polls + CheckCancelled(CheckDone(d[s])).stale
            <= d[s].polls + d[s].stale
      BY <2>1, PassStep, Zenon
    <2>4. z.polls + z.stale <= d[s].polls + d[s].stale
      BY <2>2, <2>3, Zenon
    <2>5. EachFits => Fits(d[s])
      BY <1>3 DEF EachFits
    <2>6. z \in Connection /\ Passes(b[s], z)
      BY <1>2
    <2> HIDE DEF z
    <2>7. EachFits => Fits(z)
      <3>1. z.polls \in Nat /\ z.stale \in Nat /\ d[s].polls \in Nat /\ d[s].stale \in Nat
        BY <2>1, <2>6, FieldTypes
      <3>2. QED
        BY <2>4, <2>5, <3>1, BoundsAssumption DEF Fits
    <2>8. Worked(conn[s], b[s]) /\ b[s].promise = conn[s].promise
      BY DEF Started
    <2>9. Worked(conn[s], z)
      BY <2>1, <2>6, <2>7, <2>8, PassWorked, Zenon
    <2>10. QED
      BY <2>9 DEF z
  <1>5. QED
    BY <1>2, <1>4

\* checkHandles alone.
LEMMA CheckedWorked ==
  ASSUME NEW b \in [Requests -> Connection], Started(b)
  PROVE  /\ checkHandles(b) \in [Requests -> Connection]
         /\ \A s \in Requests : Worked(conn[s], checkHandles(b)[s])
  <1>1. \A s \in Requests : Busy(b[s])
    BY DEF Started
  <1>2. /\ checkHandles(b) \in [Requests -> Connection]
        /\ \A s \in Requests : Passes(b[s], checkHandles(b)[s])
    BY <1>1, OnlyChecked, Zenon
  <1>3. ASSUME NEW s \in Requests PROVE Worked(conn[s], checkHandles(b)[s])
    <2> DEFINE z == checkHandles(b)[s]
    <2>1. b[s] \in Connection /\ Busy(b[s]) /\ b[s] \in Driven(b[s])
      BY <1>1 DEF Driven
    <2>2. Drives(b[s], b[s])
      BY <2>1, DrivenStep, Zenon
    <2>3. CheckCancelled(CheckDone(b[s])).polls + CheckCancelled(CheckDone(b[s])).stale
            <= b[s].polls + b[s].stale
      BY <2>1, <2>2, PassStep, Zenon
    <2>4. z.polls + z.stale <= b[s].polls + b[s].stale
      BY <2>3 DEF checkHandles
    <2>5. z \in Connection /\ Passes(b[s], z)
      BY <1>2
    <2>6. Worked(conn[s], b[s]) /\ b[s].promise = conn[s].promise
      BY DEF Started
    <2> HIDE DEF z
    <2>7. EachFits /\ Fits(conn[s]) => Fits(z)
      <3>1. z.polls \in Nat /\ z.stale \in Nat /\ b[s].polls \in Nat /\ b[s].stale \in Nat
        BY <2>1, <2>5, FieldTypes
      <3>2. EachFits /\ Fits(conn[s]) => Fits(b[s])
        BY <2>6 DEF Worked
      <3>3. QED
        BY <2>4, <3>1, <3>2, BoundsAssumption DEF Fits
    <2>8. Worked(conn[s], z)
      BY <2>1, <2>5, <2>6, <2>7, PassWorked, Zenon
    <2>9. QED
      BY <2>8 DEF z
  <1>4. QED
    BY <1>2, <1>3

\* Nothing is changed before libcurl or checkHandles is called.
LEMMA StartedConn ==
  ASSUME IInv
  PROVE  Started(conn) /\ conn \in [Requests -> Connection]
  <1>1. conn \in [Requests -> Connection] /\ \A s \in Requests : Rest(conn[s])
    BY DEF IInv, Types, ConnInv
  <1>2. \A s \in Requests : Busy(conn[s])
    BY <1>1 DEF Rest, Idle, Busy
  <1>3. QED
    BY <1>1, <1>2, SameWorked DEF Started

\* One connection is changed before libcurl or checkHandles is called.
LEMMA StartedOne ==
  ASSUME IInv, NEW r \in Requests, NEW y \in Connection, Busy(y),
         Worked(conn[r], y), y.promise = conn[r].promise,
         NEW b, b = [conn EXCEPT ![r] = y]
  PROVE  Started(b) /\ b \in [Requests -> Connection]
  <1>1. Started(conn) /\ conn \in [Requests -> Connection]
    BY StartedConn
  <1>2. b \in [Requests -> Connection] /\ \A s \in Requests : b[s] = IF s = r THEN y ELSE conn[s]
    BY <1>1
  <1>3. QED
    BY <1>1, <1>2 DEF Started

----------------------------------------------------------------------------
(* The tasks of the io thread, one by one.                                 *)

\* A handle task that does not call libcurl settles its request.
LEMMA HandleWorked ==
  ASSUME IInv, First("handle"), NEW y, Settled(conn[Head(ioq).r], y),
         EndTask([conn EXCEPT ![Head(ioq).r] = y])
  PROVE  AllWorked
  <1> DEFINE r == Head(ioq).r
             e == [conn EXCEPT ![r] = y]
  <1>1. /\ r \in Requests /\ conn[r] \in Connection /\ Rest(conn[r])
        /\ conn[r].life = "submitted"
    BY FirstHandle, Zenon
  <1>2. Settled(conn[r], y) /\ EndTask(e) /\ y \in Connection
    BY DEF Settled
  <1> HIDE DEF r
  <1>3. Worked(conn[r], y)
    BY <1>1, <1>2, SettledWorked, Zenon
  <1>4. conn \in [Requests -> Connection]
    BY DEF IInv, Types
  <1>5. e \in [Requests -> Connection] /\ \A s \in Requests : e[s] = IF s = r THEN y ELSE conn[s]
    BY <1>1, <1>2, <1>4
  <1> HIDE DEF e
  <1>6. \A s \in Requests : Worked(conn[s], e[s])
    BY <1>3, <1>5, SameWorked
  <1>7. QED
    BY <1>2, <1>5, <1>6, EndWorked

\* handleRequest, when it refuses a request or cannot set it up.
LEMMA RefusedWorked ==
  ASSUME IInv, HandleRefused \/ HandleUnconfigured \/ HandleNotAdded
  PROVE  AllWorked
  <1> DEFINE r == Head(ioq).r
             y == [conn[r] EXCEPT !.life = "dropped"]
             z == complete(configureRequest(conn[r]))
  <1>1. First("handle")
    BY DEF HandleRefused, HandleUnconfigured, HandleNotAdded
  <1>2. /\ r \in Requests /\ conn[r] \in Connection /\ Rest(conn[r])
        /\ conn[r].life = "submitted"
    BY <1>1, FirstHandle, Zenon
  <1>3. Settled(conn[r], y) /\ complete(y) = y
    BY <1>2, DroppedStep, Zenon
  <1>4. Settled(conn[r], z)
    BY <1>2, ConfiguredStep, Zenon
  <1>5. EndTask([conn EXCEPT ![r] = y]) \/ EndTask([conn EXCEPT ![r] = z])
    <2>1. CASE HandleRefused
      BY <2>1 DEF HandleRefused
    <2>2. CASE HandleUnconfigured
      <3>1. EndTask([conn EXCEPT ![r] = complete(y)])
        BY <2>2 DEF HandleUnconfigured
      <3>2. QED
        BY <3>1, <1>3, Zenon
    <2>3. CASE HandleNotAdded
      BY <2>3 DEF HandleNotAdded
    <2>4. QED
      BY <2>1, <2>2, <2>3
  <1> HIDE DEF y, z
  <1>6. QED
    BY <1>1, <1>3, <1>4, <1>5, HandleWorked, Zenon

\* handleRequest, when it takes a request on.
LEMMA AddedWorked ==
  ASSUME IInv, handleRequest
  PROVE  AllWorked
  <1> DEFINE r == Head(ioq).r
             y == [configureRequest(conn[r]) EXCEPT !.state = "Default", !.easy = "connecting"]
             b == Added(r)
  <1>1. /\ First("handle")
        /\ EndTask(b) \/ \E e \in AllDriven(b) : EndTask(checkHandles(e))
    BY DEF handleRequest
  <1>2. /\ r \in Requests /\ conn[r] \in Connection /\ Rest(conn[r])
        /\ conn[r].life = "submitted"
    BY <1>1, FirstHandle, Zenon
  <1>3. Settled(conn[r], y) /\ Busy(y)
    BY <1>2, AddedStep, Zenon
  <1>4. y \in Connection
    BY <1>3 DEF Settled
  <1>5. b = [conn EXCEPT ![r] = y]
    BY DEF Added
  <1> HIDE DEF b, y
  <1>6. CASE EndTask(b)
    BY <1>1, <1>3, <1>5, <1>6, HandleWorked, Zenon
  <1>7. ASSUME NEW e \in AllDriven(b), EndTask(checkHandles(e)) PROVE AllWorked
    <2>1. Worked(conn[r], y) /\ y.promise = conn[r].promise
      BY <1>2, <1>3, SettledWorked, Zenon
    <2>2. Started(b) /\ b \in [Requests -> Connection]
      BY <1>2, <1>3, <1>4, <1>5, <2>1, StartedOne, Zenon
    <2>3. /\ checkHandles(e) \in [Requests -> Connection]
          /\ \A s \in Requests : Worked(conn[s], checkHandles(e)[s])
      BY <1>7, <2>2, DrivenWorked, Zenon
    <2>4. QED
      BY <1>7, <2>3, EndWorked, Zenon
  <1>8. QED
    BY <1>1, <1>6, <1>7, Zenon

\* The timer's task, the last one of the destructor, and a wait for a connection
\* that is no longer tracked.
LEMMA PlainWorked ==
  ASSUME IInv, timer_cb \/ LastCheck \/ PollUntracked
  PROVE  AllWorked
  <1>1. Started(conn) /\ conn \in [Requests -> Connection]
    BY StartedConn
  <1>2. ASSUME NEW d \in AllDriven(conn), EndTask(checkHandles(d)) PROVE AllWorked
    <2>1. /\ checkHandles(d) \in [Requests -> Connection]
          /\ \A s \in Requests : Worked(conn[s], checkHandles(d)[s])
      BY <1>1, <1>2, DrivenWorked, Zenon
    <2>2. QED
      BY <1>2, <2>1, EndWorked, Zenon
  <1>3. ASSUME EndTask(checkHandles(conn)) PROVE AllWorked
    BY <1>1, <1>3, CheckedWorked, EndWorked, Zenon
  <1>4. ASSUME EndTask(conn) PROVE AllWorked
    BY <1>1, <1>4, SameWorked, EndWorked, Zenon
  <1>5. \/ \E d \in AllDriven(conn) : EndTask(checkHandles(d))
        \/ EndTask(checkHandles(conn)) \/ EndTask(conn)
    BY DEF timer_cb, LastCheck, PollUntracked
  <1>6. QED
    BY <1>2, <1>3, <1>4, <1>5, Zenon

\* performOp of a wait that failed.
LEMMA FailedWorked ==
  ASSUME IInv, PollFailed
  PROVE  AllWorked
  <1> DEFINE r == Head(ioq).r
             y == complete(conn[r])
             b == IF Head(ioq).ec = "aborted" THEN conn ELSE [conn EXCEPT ![r] = y]
  <1>1. First("performOp") /\ Head(ioq).ec # "ok" /\ EndTask(checkHandles(b))
    BY Zenon DEF PollFailed
  <1>2. /\ r \in Requests /\ conn[r].life = "handled" /\ Head(ioq).ec \in Outcomes
    BY <1>1, FirstPoll, Zenon
  <1>3. Started(conn) /\ conn \in [Requests -> Connection]
    BY StartedConn
  <1>4. Started(b) /\ b \in [Requests -> Connection]
    <2>1. CASE Head(ioq).ec = "aborted"
      BY <1>3, <2>1
    <2>2. CASE Head(ioq).ec # "aborted"
      <3>1. PollErrors
        BY <1>1, <1>2, <2>2 DEF Outcomes
      <3>2. conn[r] \in Connection /\ Busy(conn[r])
        BY <1>2, <1>3 DEF Started
      <3>3. y \in Connection /\ Busy(y)
        BY <1>2, <3>1, <3>2, FailedStep, Zenon
      <3>4. /\ y.notified /\ (conn[r].notified => y = conn[r])
            /\ (~conn[r].notified => y.posted)
            /\ y.life = conn[r].life /\ y.promise = conn[r].promise
            /\ y.polls = conn[r].polls /\ y.stale = conn[r].stale
        BY <3>2, CompleteStep, Zenon
      <3>5. b = [conn EXCEPT ![r] = y]
        BY <2>2
      <3> HIDE DEF y, b, r
      <3>6. Worked(conn[r], y)
        BY <1>2, <3>4, KeptWorked
      <3>7. QED
        BY <1>2, <3>3, <3>4, <3>5, <3>6, StartedOne, Zenon
    <2>3. QED
      BY <2>1, <2>2
  <1> HIDE DEF b
  <1>5. QED
    BY <1>1, <1>4, CheckedWorked, EndWorked, Zenon

\* performOp of a socket that is ready.
LEMMA PerformWorked ==
  ASSUME IInv, performOp
  PROVE  AllWorked
  <1> DEFINE r == Head(ioq).r
             y == [conn[r] EXCEPT !.state = "PerformIo"]
             b == [conn EXCEPT ![r].state = "PerformIo"]
  <1>1. First("performOp") /\ conn[r].state # "absent"
    BY DEF performOp
  <1>2. r \in Requests /\ conn[r].life = "handled"
    BY <1>1, FirstPoll, Zenon
  <1>3. conn[r] \in Connection /\ Rest(conn[r])
    BY <1>1, <1>2, FirstTask, Zenon
  <1>4. y \in Connection /\ Busy(y) /\ Kept(conn[r], y)
    BY <1>1, <1>3, PerformStep, Zenon
  <1>5. y.polls = conn[r].polls /\ y.stale = conn[r].stale
    BY <1>3, <1>4 DEF Connection
  <1>6. b = [conn EXCEPT ![r] = y]
    OBVIOUS
  <1>7. PICK d \in AllDriven(b) :
          LET c == checkHandles(d)
              again == c[r].action # 0 /\ c[r].state # "absent"
              e == [c EXCEPT ![r] = poll([@ EXCEPT !.state = "Default"])]
          IN EndTask(c) \/ (again /\ WaitsBound(e) /\ EndTask(e))
    BY Zenon DEF performOp
  <1> HIDE DEF b, y
  <1>8. Worked(conn[r], y) /\ y.promise = conn[r].promise
    <2>1. conn[r].notified \in BOOLEAN
      BY <1>3, FieldTypes
    <2>2. QED
      BY <1>2, <1>4, <1>5, <2>1, KeptWorked DEF Kept
  <1>9. Started(b) /\ b \in [Requests -> Connection]
    BY <1>2, <1>4, <1>6, <1>8, StartedOne, Zenon
  <1> DEFINE c == checkHandles(d)
             again == c[r].action # 0 /\ c[r].state # "absent"
             z == poll([c[r] EXCEPT !.state = "Default"])
             e == [c EXCEPT ![r] = z]
  <1>10. /\ c \in [Requests -> Connection]
         /\ \A s \in Requests : Worked(conn[s], c[s]) /\ Passes(b[s], c[s])
    BY <1>9, DrivenWorked, Zenon
  <1>11. EndTask(c) \/ (again /\ WaitsBound(e) /\ EndTask(e))
    BY <1>7, Zenon
  <1> HIDE DEF c
  <1>12. CASE EndTask(c)
    BY <1>10, <1>12, EndWorked
  <1>13. CASE again /\ WaitsBound(e) /\ EndTask(e)
    <2>1. c[r] \in Connection /\ Passes(b[r], c[r])
      BY <1>2, <1>10
    <2>2. Passes(b[r], z)
      BY <1>13, <2>1, AgainStep, Zenon
    <2>3. z \in Connection
      BY <2>2 DEF Passes
    <2> HIDE DEF z
    <2>4. /\ e \in [Requests -> Connection]
          /\ \A s \in Requests : e[s] = IF s = r THEN z ELSE c[s]
      BY <1>2, <1>10, <2>3
    <2> HIDE DEF e
    <2>5. EachFits => Fits(e[r])
      BY <1>2, <1>13, <2>4 DEF EachFits
    <2>6. EachFits => Fits(z)
      BY <1>2, <2>4, <2>5
    <2>7. b[r] \in Connection /\ Busy(b[r]) /\ Worked(conn[r], b[r]) /\ b[r].promise = conn[r].promise
      BY <1>2, <1>9 DEF Started
    <2>8. Worked(conn[r], z)
      BY <2>2, <2>6, <2>7, PassWorked, Zenon
    <2>9. \A s \in Requests : Worked(conn[s], e[s])
      BY <1>10, <2>4, <2>8
    <2>10. QED
      BY <1>13, <2>4, <2>9, EndWorked
  <1>14. QED
    BY <1>11, <1>12, <1>13

\* cancel_connection_io_thread.
LEMMA CancelTaskWorked ==
  ASSUME IInv, cancel_connection_io_thread
  PROVE  AllWorked
  <1> DEFINE r == Head(ioq).r
             k == Head(ioq).by
             y == cancel_connection(conn[r], k)
             e == [conn EXCEPT ![r] = y]
  <1>1. First("cancel")
    BY DEF cancel_connection_io_thread
  <1>2. EndTask(conn) \/ (conn[r].state \notin {"absent", "Cancelled"} /\ EndTask(e))
    BY DEF cancel_connection_io_thread
  <1>3. /\ ioq[1] \in Tasks /\ ioq[1].t = "cancel" /\ Head(ioq) = ioq[1]
        /\ conn \in [Requests -> Connection]
        /\ \A s \in Requests : conn[s] \in Connection /\ Rest(conn[s])
    BY <1>1, FirstTask, Zenon
  <1>4. r \in Requests /\ k \in Who \ {"nobody"}
    BY <1>3, TaskShape, WhoCancels
  <1> HIDE DEF r, k
  <1>5. CASE EndTask(conn)
    BY <1>3, <1>5, SameWorked, EndWorked, Zenon
  <1>6. CASE conn[r].state \notin {"absent", "Cancelled"} /\ EndTask(e)
    <2>1. conn[r] \in Connection /\ Rest(conn[r])
      BY <1>3, <1>4
    <2>2. /\ y \in Connection /\ y.life = conn[r].life /\ y.notified = conn[r].notified
          /\ y.posted = conn[r].posted /\ y.polls <= conn[r].polls /\ y.stale = conn[r].stale
      BY <1>4, <1>6, <2>1, CancelStep
    <2> HIDE DEF y
    <2>3. Worked(conn[r], y)
      BY <1>6, <2>1, <2>2, CancelWorked, Zenon
    <2>4. /\ e \in [Requests -> Connection]
          /\ \A s \in Requests : e[s] = IF s = r THEN y ELSE conn[s]
      BY <1>3, <1>4, <2>2
    <2> HIDE DEF e
    <2>5. \A s \in Requests : Worked(conn[s], e[s])
      BY <2>3, <2>4, SameWorked
    <2>6. QED
      BY <1>6, <2>4, <2>5, EndWorked
  <1>7. QED
    BY <1>2, <1>5, <1>6

\* The first task of the destructor.
LEMMA ShutdownWorked ==
  ASSUME IInv, Shutdown
  PROVE  AllWorked
  <1> DEFINE e == [s \in Requests |-> StopOf(conn[s])]
  <1>1. EndTask(e)
    BY Zenon DEF Shutdown, StopOf
  <1>2. \A s \in Requests : conn[s] \in Connection /\ Rest(conn[s])
    BY DEF IInv, Types, ConnInv
  <1>3. ASSUME NEW s \in Requests
        PROVE  StopOf(conn[s]) \in Connection /\ Worked(conn[s], StopOf(conn[s]))
    <2> DEFINE y == StopOf(conn[s])
    <2>1. conn[s] \in Connection /\ Rest(conn[s])
      BY <1>2
    <2>2. Stops(conn[s], y)
      BY <2>1, StopStep, Zenon
    <2> HIDE DEF y
    <2>3. /\ y \in Connection /\ y.life = conn[s].life /\ y.notified = conn[s].notified
          /\ y.posted = conn[s].posted /\ y.polls <= conn[s].polls /\ y.stale = conn[s].stale
          /\ y.promise # conn[s].promise => conn[s].state \notin {"absent", "Cancelled"}
      BY <2>2, Zenon DEF Stops
    <2>4. Worked(conn[s], y)
      BY <2>1, <2>3, CancelWorked, Zenon
    <2>5. QED
      BY <2>3, <2>4 DEF y
  <1>4. e \in [Requests -> Connection] /\ \A s \in Requests : Worked(conn[s], e[s])
    BY <1>3, Zenon
  <1> HIDE DEF e
  <1>5. QED
    BY <1>1, <1>4, EndWorked

\* Every task of the io thread.
LEMMA IoTaskWorked ==
  ASSUME IInv, IoTask
  PROVE  AllWorked
  <1>1. CASE PerformOpOnDeadSocket
    BY <1>1, SameWorked DEF PerformOpOnDeadSocket, AllWorked
  <1>2. QED
    BY <1>1, RefusedWorked, AddedWorked, PlainWorked, FailedWorked, PerformWorked,
       CancelTaskWorked, ShutdownWorked, Zenon DEF IoTask

----------------------------------------------------------------------------
(* The threads that wait in cancelOperation.                               *)

\* A thread comes back from the wait for r: its request is being cancelled, or
\* there was nothing left to cancel.
ComesBack(k, r) ==
  /\ Waiting(k, r)
  /\ \/ caller'[k].at = "idle" /\ conn[r].promise # "nobody"
     \/ /\ caller'[k].at = "threw"
        /\ conn[r].life = "dropped" \/ (conn[r].life = "handled" /\ conn[r].notified)

CallersBack ==
  \A k \in Cancellers :
    caller'[k] = caller[k] \/ \E r \in Requests : ComesBack(k, r)

\* checkHandles sets the promises of those that wait for them.
LEMMA ReleasedBack ==
  ASSUME IInv, caller' = Released
  PROVE  CallersBack
  <1> SUFFICES ASSUME NEW k \in Cancellers, caller'[k] # caller[k]
               PROVE  \E r \in Requests : ComesBack(k, r)
    BY DEF CallersBack
  <1>1. PICK r \in Requests : conn[r].promise = k
    BY DEF Released
  <1>2. caller'[k].at = "idle"
    BY <1>1 DEF Released
  <1>3. Waiting(k, r) /\ k # "nobody"
    BY <1>1, WhoCancels DEF IInv, CallerInv
  <1>4. QED
    BY <1>1, <1>2, <1>3 DEF ComesBack

\* When a thread's task finds its connection untracked, its request is over: it was
\* dropped, or it has its result.
LEMMA NothingToCancel ==
  ASSUME IInv, First("cancel"), conn[Head(ioq).r].state = "absent"
  PROVE  \/ conn[Head(ioq).r].life = "dropped"
         \/ conn[Head(ioq).r].life = "handled" /\ conn[Head(ioq).r].notified
  <1> DEFINE r == ioq[1].r
  <1>1. /\ ioq[1] \in Tasks /\ ioq[1].t = "cancel" /\ Head(ioq) = ioq[1] /\ 1 \in 1..Len(ioq)
        /\ \A s \in Requests : conn[s] \in Connection /\ Rest(conn[s])
    BY FirstTask, Zenon
  <1>2. r \in Requests /\ ioq[1].by \in Cancellers
    BY <1>1, TaskShape
  <1>3. conn[r].life # "new"
    <2>1. Waiting(ioq[1].by, r)
      BY <1>1 DEF IInv, CallerInv
    <2>2. QED
      BY <1>2, <2>1 DEF IInv, CallerInv, Waiting
  <1>4. conn[r].life # "submitted"
    <2> SUFFICES ASSUME conn[r].life = "submitted" PROVE FALSE
      OBVIOUS
    <2>1. PICK i \in 1..Len(ioq) : ioq[i].t = "handle" /\ ioq[i].r = r
      BY <1>2 DEF IInv, HandleInv
    <2>2. i < 1
      BY <1>1, <2>1 DEF IInv, HandleInv
    <2>3. QED
      BY <2>2
  <1>5. conn[r].life \in {"new", "submitted", "handled", "dropped"} /\ Common(conn[r])
    BY <1>1, <1>2, FieldTypes DEF Rest, Idle
  <1>6. conn[r].state = "absent"
    BY <1>1
  <1>7. QED
    BY <1>1, <1>3, <1>4, <1>5, <1>6 DEF Common

\* cancel_connection_io_thread answers the thread whose task it is.
LEMMA CancelTaskBack ==
  ASSUME IInv, cancel_connection_io_thread
  PROVE  CallersBack
  <1> DEFINE r == Head(ioq).r
             k == Head(ioq).by
  <1>1. First("cancel")
    BY DEF cancel_connection_io_thread
  <1>2. /\ ioq[1] \in Tasks /\ ioq[1].t = "cancel" /\ Head(ioq) = ioq[1] /\ 1 \in 1..Len(ioq)
        /\ \A s \in Requests : conn[s] \in Connection /\ Rest(conn[s])
    BY <1>1, FirstTask, Zenon
  <1>3. r \in Requests /\ k \in Cancellers
    BY <1>2, TaskShape
  <1>4. Waiting(k, r)
    BY <1>2 DEF IInv, CallerInv
  <1>5. caller \in [Cancellers -> [at : Places, r : Requests \cup {"none"}]]
    BY DEF IInv, Types
  <1>6. \/ caller' = caller
        \/ /\ conn[r].state = "absent"
           /\ caller' = [caller EXCEPT ![k] = [at |-> "threw", r |-> "none"]]
        \/ /\ conn[r].state = "Cancelled"
           /\ caller' = [caller EXCEPT ![k] = [at |-> "idle", r |-> "none"]]
    BY DEF cancel_connection_io_thread
  <1>7. CASE caller' = caller
    BY <1>7 DEF CallersBack
  <1>8. CASE /\ conn[r].state = "absent"
             /\ caller' = [caller EXCEPT ![k] = [at |-> "threw", r |-> "none"]]
    <2>1. conn[r].life = "dropped" \/ (conn[r].life = "handled" /\ conn[r].notified)
      BY <1>1, <1>8, NothingToCancel
    <2>2. caller'[k].at = "threw" /\ \A j \in Cancellers \ {k} : caller'[j] = caller[j]
      BY <1>3, <1>5, <1>8
    <2>3. QED
      BY <1>3, <1>4, <2>1, <2>2 DEF CallersBack, ComesBack
  <1>9. CASE /\ conn[r].state = "Cancelled"
             /\ caller' = [caller EXCEPT ![k] = [at |-> "idle", r |-> "none"]]
    <2>1. conn[r].promise # "nobody"
      BY <1>2, <1>3, <1>9 DEF Rest, Idle
    <2>2. caller'[k].at = "idle" /\ \A j \in Cancellers \ {k} : caller'[j] = caller[j]
      BY <1>3, <1>5, <1>9
    <2>3. QED
      BY <1>3, <1>4, <2>1, <2>2 DEF CallersBack, ComesBack
  <1>10. QED
    BY <1>6, <1>7, <1>8, <1>9

\* Every task of the io thread.
LEMMA IoTaskBack ==
  ASSUME IInv, IoTask
  PROVE  CallersBack /\ dtor # "deleted" /\ dtor' # "deleted"
  <1> DEFINE runs == /\ dtor # "deleted"
                     /\ dtor' = dtor \/ dtor' = "futures" \/ dtor' = "cleanup"
  <1>1. HandleRefused \/ HandleUnconfigured \/ HandleNotAdded \/ handleRequest => runs
    BY Zenon DEF HandleRefused, HandleUnconfigured, HandleNotAdded, handleRequest, First
  <1>2. timer_cb \/ PollFailed \/ PollUntracked \/ performOp \/ PerformOpOnDeadSocket => runs
    BY Zenon DEF timer_cb, PollFailed, PollUntracked, performOp, PerformOpOnDeadSocket, First
  <1>3. cancel_connection_io_thread \/ Shutdown \/ LastCheck => runs
    BY Zenon DEF cancel_connection_io_thread, Shutdown, LastCheck, First
  <1>4. runs
    BY <1>1, <1>2, <1>3, Zenon DEF IoTask
  <1>5. caller' = caller \/ caller' = Released \/ cancel_connection_io_thread
    BY Zenon DEF IoTask, HandleRefused, HandleUnconfigured, HandleNotAdded, handleRequest,
       timer_cb, PollFailed, PollUntracked, performOp, PerformOpOnDeadSocket, Shutdown, LastCheck
  <1>6. CallersBack
    <2>1. caller' = caller => CallersBack
      BY DEF CallersBack
    <2>2. QED
      BY <1>5, <2>1, ReleasedBack, CancelTaskBack, Zenon
  <1>7. QED
    BY <1>4, <1>6, Zenon

----------------------------------------------------------------------------
(* The refinement.                                                         *)

\* The status of a request, from the record of its connection.
StatusOf(x) ==
  CASE x.life # "handled" -> x.life
    [] x.life = "handled" /\ ~x.notified -> "active"
    [] x.life = "handled" /\ x.notified -> IF x.posted THEN "notified" ELSE "delivered"

\* What the status of a request says of its connection.
LEMMA StatusCases ==
  ASSUME NEW x \in Connection
  PROVE  /\ x.life # "handled" => StatusOf(x) = x.life
         /\ x.life = "handled" /\ ~x.notified => StatusOf(x) = "active"
         /\ x.life = "handled" /\ x.notified /\ x.posted => StatusOf(x) = "notified"
         /\ x.life = "handled" /\ x.notified /\ ~x.posted => StatusOf(x) = "delivered"
  <1>1. x.notified \in BOOLEAN /\ x.posted \in BOOLEAN
    BY FieldTypes
  <1>2. QED
    BY <1>1, Zenon DEF StatusOf

\* The results of a task: requests are taken on or dropped, active ones notified.
LEMMA StatusWorked ==
  ASSUME NEW x \in Connection, NEW y \in Connection, Worked(x, y)
  PROVE  \/ StatusOf(y) = StatusOf(x)
         \/ StatusOf(x) = "submitted" /\ StatusOf(y) \in {"active", "notified", "dropped"}
         \/ StatusOf(x) = "active" /\ StatusOf(y) = "notified"
  <1>1. /\ x.notified \in BOOLEAN /\ x.posted \in BOOLEAN
        /\ y.notified \in BOOLEAN /\ y.posted \in BOOLEAN
    BY FieldTypes
  <1>2. CASE x.life # "handled" /\ y.life = x.life
    BY <1>2, StatusCases
  <1>3. CASE x.life = "submitted" /\ y.life = "dropped"
    BY <1>3, StatusCases
  <1>4. CASE x.life = "submitted" /\ y.life = "handled"
    <2>1. ~y.notified \/ y.posted
      BY <1>1, <1>4 DEF Worked
    <2>2. StatusOf(x) = "submitted" /\ StatusOf(y) \in {"active", "notified"}
      BY <1>1, <1>4, <2>1, StatusCases
    <2>3. QED
      BY <2>2
  <1>5. CASE x.life = "handled" /\ y.life = "handled" /\ x.notified
    <2>1. y.notified /\ y.posted = x.posted
      BY <1>5 DEF Worked
    <2>2. QED
      BY <1>1, <1>5, <2>1, StatusCases
  <1>6. CASE x.life = "handled" /\ y.life = "handled" /\ ~x.notified
    <2>1. y.notified => y.posted
      BY <1>6 DEF Worked
    <2>2. QED
      BY <1>1, <1>6, <2>1, StatusCases
  <1>7. QED
    BY <1>1, <1>2, <1>3, <1>4, <1>5, <1>6 DEF Worked

\* The state functions of the mapping.
LEMMA Mapping ==
  /\ \A r \in Requests : Status(r) = StatusOf(conn[r])
  /\ \A r \in Requests : Status(r)' = StatusOf(conn'[r])
  BY Zenon DEF Status, StatusOf

\* A task of the io thread is a piece of work of the contract.
LEMMA WorkStep ==
  ASSUME IInv, IoTask
  PROVE  Contract!Work
  <1>1. AllWorked /\ CallersBack /\ dtor # "deleted" /\ dtor' # "deleted" /\ IInv'
    BY IoTaskWorked, IoTaskBack, IoTaskStep
  <1>2. /\ conn \in [Requests -> Connection] /\ conn' \in [Requests -> Connection]
        /\ caller \in [Cancellers -> [at : Places, r : Requests \cup {"none"}]]
    BY <1>1 DEF IInv, Types
  <1>3. \A r \in Requests :
          conn[r] \in Connection /\ conn'[r] \in Connection /\ Worked(conn[r], conn'[r])
    BY <1>1, <1>2 DEF AllWorked
  <1>4. ASSUME NEW r \in Requests
        PROVE  \/ Status(r)' = Status(r)
               \/ Status(r) = "submitted" /\ Status(r)' \in {"active", "notified", "dropped"}
               \/ Status(r) = "active" /\ Status(r)' = "notified"
    BY <1>3, StatusWorked, Mapping, Zenon
  <1>5. ASSUME NEW r \in Requests, conn'[r].promise # "nobody", conn[r].promise = "nobody"
        PROVE  Status(r) \in {"active", "notified", "delivered"}
    <2>1. conn[r] \in Connection /\ conn[r].life = "handled"
      BY <1>3, <1>5 DEF Worked
    <2>2. conn[r].notified \in BOOLEAN /\ conn[r].posted \in BOOLEAN
      BY <2>1, FieldTypes
    <2>3. StatusOf(conn[r]) \in {"active", "notified", "delivered"}
      BY <2>1, <2>2, StatusCases
    <2>4. QED
      BY <2>3, Mapping
  <1>6. ASSUME NEW r \in Requests, conn'[r].promise = "nobody", conn[r].promise # "nobody"
        PROVE  Status(r)' \in {"notified", "delivered"}
    <2>1. conn'[r] \in Connection /\ conn'[r].life = "handled" /\ conn'[r].notified
      BY <1>3, <1>6 DEF Worked
    <2>2. conn'[r].posted \in BOOLEAN
      BY <2>1, FieldTypes
    <2>3. StatusOf(conn'[r]) \in {"notified", "delivered"}
      BY <2>1, <2>2, StatusCases
    <2>4. QED
      BY <2>3, Mapping
  <1>7. ASSUME NEW k \in Cancellers, caller'[k] # caller[k]
        PROVE  \E r \in Requests :
                 /\ caller[k] = [at |-> "waiting", r |-> r]
                 /\ \/ caller'[k].at = "idle" /\ conn[r].promise # "nobody"
                    \/ caller'[k].at = "threw" /\ Status(r) \in {"notified", "delivered", "dropped"}
    <2>1. PICK r \in Requests : ComesBack(k, r)
      BY <1>1, <1>7 DEF CallersBack
    <2>2. caller[k] = [at |-> "waiting", r |-> r]
      BY <1>2, <2>1 DEF ComesBack, Waiting
    <2>3. ASSUME conn[r].life = "dropped" \/ (conn[r].life = "handled" /\ conn[r].notified)
          PROVE  Status(r) \in {"notified", "delivered", "dropped"}
      <3>1. conn[r] \in Connection /\ conn[r].posted \in BOOLEAN
        BY <1>3, FieldTypes
      <3>2. StatusOf(conn[r]) \in {"notified", "delivered", "dropped"}
        BY <2>3, <3>1, StatusCases
      <3>3. QED
        BY <3>2, Mapping
    <2>4. QED
      BY <2>1, <2>2, <2>3 DEF ComesBack
  <1>8. QED
    BY <1>1, <1>4, <1>5, <1>6, <1>7
    DEF Contract!Work, Contract!Takes, Contract!Notifies, Contract!Accepts,
        Contract!Performs, Contract!Returns, Contract!Over

Statuses == [r \in Requests |-> Status(r)]
Accepted == {r \in Requests : conn[r].promise # "nobody"}

\* A step that changes the status of one request at most.
LEMMA MappedStep ==
  ASSUME \A s \in Requests : conn'[s].promise = conn[s].promise,
         NEW r \in Requests,
         \A s \in Requests \ {r} : StatusOf(conn'[s]) = StatusOf(conn[s])
  PROVE  /\ Accepted' = Accepted
         /\ Statuses' = [Statuses EXCEPT ![r] = StatusOf(conn'[r])]
         /\ Statuses[r] = StatusOf(conn[r])
  <1>1. \A s \in Requests \ {r} : Status(s)' = Status(s)
    BY Mapping
  <1>2. Status(r)' = StatusOf(conn'[r]) /\ Status(r) = StatusOf(conn[r])
    BY Mapping
  <1>3. QED
    BY <1>1, <1>2, Zenon DEF Accepted, Statuses

\* A step that changes the status of no request.
LEMMA UnmappedStep ==
  ASSUME \A s \in Requests : conn'[s].promise = conn[s].promise,
         \A s \in Requests : StatusOf(conn'[s]) = StatusOf(conn[s])
  PROVE  Accepted' = Accepted /\ Statuses' = Statuses
  <1>1. \A s \in Requests : Status(s)' = Status(s)
    BY Mapping
  <1>2. QED
    BY <1>1 DEF Accepted, Statuses

\* HttpClient::handle_request submits a request.
LEMMA SubmitRefines ==
  ASSUME IInv, NEW r \in Requests, handle_request(r)
  PROVE  Contract!Submit(r)
  <1> DEFINE y == [conn[r] EXCEPT !.life = "submitted"]
  <1>1. /\ conn[r].life = "new" /\ conn' = [conn EXCEPT ![r] = y]
        /\ caller' = caller /\ dtor' = dtor
    BY DEF handle_request
  <1>2. conn \in [Requests -> Connection] /\ conn[r] \in Connection
    BY DEF IInv, Types
  <1>3. y \in Connection /\ y.life = "submitted" /\ y.promise = conn[r].promise
    <2>1. y \in Connection
      BY <1>2, Zenon DEF Connection
    <2>2. QED
      BY <1>2, <2>1 DEF Connection
  <1> HIDE DEF y
  <1>4. conn'[r] = y /\ \A s \in Requests \ {r} : conn'[s] = conn[s]
    BY <1>1, <1>2
  <1>5. StatusOf(conn[r]) = "new" /\ StatusOf(conn'[r]) = "submitted"
    BY <1>1, <1>2, <1>3, <1>4, StatusCases
  <1>6. /\ Accepted' = Accepted /\ Statuses[r] = "new"
        /\ Statuses' = [Statuses EXCEPT ![r] = "submitted"]
    BY <1>3, <1>4, <1>5, MappedStep
  <1>7. QED
    BY <1>1, <1>6 DEF Contract!Submit, Contract!Advance, Statuses, Accepted

\* pool_dispatch_ calls the completion handler of a request that has its result.
LEMMA DeliverRefines ==
  ASSUME IInv, NEW r \in Requests, Deliver(r)
  PROVE  Contract!Deliver(r)
  <1> DEFINE y == [conn[r] EXCEPT !.posted = FALSE]
  <1>1. /\ conn[r].posted /\ conn' = [conn EXCEPT ![r] = y]
        /\ caller' = caller /\ dtor' = dtor
    BY DEF Deliver
  <1>2. conn \in [Requests -> Connection] /\ conn[r] \in Connection /\ Common(conn[r])
    BY DEF IInv, Types, ConnInv, Rest, Idle
  <1>3. /\ y \in Connection /\ y.life = conn[r].life /\ y.notified = conn[r].notified
        /\ ~y.posted /\ y.promise = conn[r].promise
    <2>1. FALSE \in BOOLEAN
      OBVIOUS
    <2>2. y \in Connection
      BY <1>2, <2>1, Zenon DEF Connection
    <2>3. QED
      BY <1>2, <2>2 DEF Connection
  <1> HIDE DEF y
  <1>4. conn'[r] = y /\ \A s \in Requests \ {r} : conn'[s] = conn[s]
    BY <1>1, <1>2
  <1>5. conn[r].life = "handled" /\ conn[r].notified
    BY <1>1, <1>2 DEF Common
  <1>6. StatusOf(conn[r]) = "notified" /\ StatusOf(conn'[r]) = "delivered"
    BY <1>1, <1>2, <1>3, <1>4, <1>5, StatusCases, Zenon
  <1>7. /\ Accepted' = Accepted /\ Statuses[r] = "notified"
        /\ Statuses' = [Statuses EXCEPT ![r] = "delivered"]
    BY <1>3, <1>4, <1>6, MappedStep
  <1>8. QED
    BY <1>1, <1>7 DEF Contract!Deliver, Contract!Advance, Statuses, Accepted

\* cancelOperation sets the flag of a connection, and then posts its task.
LEMMA CallRefines ==
  ASSUME IInv, NEW k \in Cancellers,
         cancelConnection(k) \/ \E r \in Requests : cancelOperation(k, r)
  PROVE  Contract!Call(k)
  <1>1. /\ conn \in [Requests -> Connection] /\ CallerInv
        /\ caller \in [Cancellers -> [at : Places, r : Requests \cup {"none"}]]
        /\ \A s \in Requests : conn[s] \in Connection /\ Rest(conn[s])
    BY DEF IInv, Types, ConnInv
  <1>2. CASE cancelConnection(k)
    <2>1. /\ caller[k].at = "flagged" /\ caller' = [caller EXCEPT ![k].at = "waiting"]
          /\ conn' = conn /\ dtor' = dtor
      BY <1>2 DEF cancelConnection
    <2>2. caller[k].r \in Requests /\ caller[k] = [at |-> "flagged", r |-> caller[k].r]
      BY <1>1, <2>1 DEF CallerInv
    <2>3. Accepted' = Accepted /\ Statuses' = Statuses
      BY <2>1, UnmappedStep
    <2>4. QED
      BY <2>1, <2>2, <2>3 DEF Contract!Call, Statuses, Accepted
  <1>3. ASSUME NEW r \in Requests, cancelOperation(k, r) PROVE Contract!Call(k)
    <2> DEFINE y == [conn[r] EXCEPT !.cancelled = TRUE]
    <2>1. /\ caller[k].at = "idle" /\ conn' = [conn EXCEPT ![r] = y] /\ dtor' = dtor
          /\ caller' = [caller EXCEPT ![k] = [at |-> "flagged", r |-> r]]
      BY <1>3 DEF cancelOperation
    <2>2. conn[r] \in Connection /\ Rest(conn[r])
      BY <1>1
    <2>3. /\ y \in Connection /\ y.life = conn[r].life /\ y.notified = conn[r].notified
          /\ y.posted = conn[r].posted /\ y.promise = conn[r].promise
      BY <2>2, FlagStep
    <2> HIDE DEF y
    <2>4. conn'[r] = y /\ \A s \in Requests \ {r} : conn'[s] = conn[s]
      BY <1>1, <2>1
    <2>5. StatusOf(y) = StatusOf(conn[r])
      BY <2>3 DEF StatusOf
    <2>6. Accepted' = Accepted /\ Statuses' = Statuses
      BY <2>3, <2>4, <2>5, UnmappedStep
    <2>7. QED
      BY <2>1, <2>6, Zenon DEF Contract!Call, Statuses, Accepted
  <1>4. QED
    BY <1>2, <1>3

\* What the user does not see: the reactor, the timer, and the destructor's waits.
LEMMA QuietRefines ==
  ASSUME IInv,
         \/ TimerFires \/ Destroy \/ FuturesSet \/ UNCHANGED vars
         \/ \E r \in Requests : PollReady(r)
  PROVE  UNCHANGED Contract!vars
  <1>1. ASSUME NEW r \in Requests, PollReady(r)
        PROVE  /\ caller' = caller /\ dtor' = dtor
               /\ Accepted' = Accepted /\ Statuses' = Statuses
    <2>1. /\ conn \in [Requests -> Connection] /\ conn[r] \in Connection /\ Rest(conn[r])
      BY DEF IInv, Types, ConnInv
    <2>2. PICK y : /\ conn' = [conn EXCEPT ![r] = y]
                   /\ \/ conn[r].polls > 0 /\ y = [conn[r] EXCEPT !.polls = @ - 1]
                      \/ conn[r].stale > 0 /\ y = [conn[r] EXCEPT !.stale = @ - 1]
      BY <1>1, Zenon DEF PollReady
    <2>3. Kept(conn[r], y)
      BY <2>1, <2>2, WaitStep, Zenon
    <2>4. conn'[r] = y /\ \A s \in Requests \ {r} : conn'[s] = conn[s]
      BY <2>1, <2>2
    <2>5. StatusOf(y) = StatusOf(conn[r]) /\ y.promise = conn[r].promise
      BY <2>3 DEF StatusOf, Kept
    <2>6. Accepted' = Accepted /\ Statuses' = Statuses
      BY <2>4, <2>5, UnmappedStep
    <2>7. QED
      BY <1>1, <2>6 DEF PollReady
  <1>2. ASSUME TimerFires \/ Destroy \/ FuturesSet \/ UNCHANGED vars
        PROVE  /\ caller' = caller /\ (dtor' = "deleted") = (dtor = "deleted")
               /\ Accepted' = Accepted /\ Statuses' = Statuses
    <2>1. conn' = conn
      BY <1>2 DEF TimerFires, Destroy, FuturesSet, vars
    <2>2. Accepted' = Accepted /\ Statuses' = Statuses
      BY <2>1, UnmappedStep
    <2>3. caller' = caller /\ (dtor' = "deleted") = (dtor = "deleted")
      BY <1>2 DEF TimerFires, Destroy, FuturesSet, vars
    <2>4. QED
      BY <2>2, <2>3
  <1>3. /\ caller' = caller /\ (dtor' = "deleted") = (dtor = "deleted")
        /\ Accepted' = Accepted /\ Statuses' = Statuses
    BY <1>1, <1>2, Zenon
  <1>4. QED
    BY <1>3, Zenon DEF Contract!vars, Statuses, Accepted

\* The client is gone when it works on nothing, if nobody used it in the meantime.
LEMMA CloseRefines ==
  ASSUME IInv, Cleanup
  PROVE  Contract!Close
  <1>1. dtor = "cleanup" /\ dtor' = "deleted" /\ conn' = conn /\ caller' = caller
    BY DEF Cleanup
  <1>2. Accepted' = Accepted /\ Statuses' = Statuses
    BY <1>1, UnmappedStep
  <1>3. ASSUME ~LateCalls, NEW r \in Requests
        PROVE  conn[r].promise = "nobody" /\ Status(r) \notin {"submitted", "active"}
    <2>1. conn[r].state = "absent"
      BY <1>1, <1>3 DEF IInv, OrderlyInv
    <2>2. conn[r] \in Connection /\ Rest(conn[r])
      BY DEF IInv, Types, ConnInv
    <2>3. conn[r].promise = "nobody" /\ (conn[r].life = "handled" => conn[r].notified)
      BY <2>1, <2>2 DEF Rest, Idle, Common
    <2>4. \A i \in 1..Len(ioq) : ioq[i].t # "handle"
      BY <1>1, <1>3 DEF IInv, OrderlyInv, Stopped
    <2>5. conn[r].life # "submitted"
      BY <2>4 DEF IInv, HandleInv
    <2>6. /\ conn[r].posted \in BOOLEAN
          /\ conn[r].life \in {"new", "submitted", "handled", "dropped"}
      BY <2>2, FieldTypes
    <2>7. StatusOf(conn[r]) \notin {"submitted", "active"}
      BY <2>2, <2>3, <2>5, <2>6, StatusCases
    <2>8. QED
      BY <2>3, <2>7, Mapping
  <1>4. ~LateCalls => Accepted = {} /\ \A r \in Requests : Statuses[r] \notin {"submitted", "active"}
    BY <1>3 DEF Accepted, Statuses
  <1>5. QED
    BY <1>1, <1>2, <1>4 DEF Contract!Close, Statuses, Accepted

\* Every step of the client is one of the contract, or unseen.
LEMMA StepRefines ==
  ASSUME IInv, [Next]_vars
  PROVE  [Contract!Next]_(Contract!vars)
  <1>1. CASE IoTask
    BY <1>1, WorkStep DEF Contract!Next
  <1>2. CASE Cleanup
    BY <1>2, CloseRefines DEF Contract!Next
  <1>3. ASSUME NEW r \in Requests, handle_request(r) \/ Deliver(r) PROVE Contract!Next
    BY <1>3, SubmitRefines, DeliverRefines DEF Contract!Next
  <1>4. ASSUME NEW k \in Cancellers,
               cancelConnection(k) \/ \E r \in Requests : cancelOperation(k, r)
        PROVE  Contract!Next
    BY <1>4, CallRefines DEF Contract!Next
  <1>5. CASE \/ TimerFires \/ Destroy \/ FuturesSet \/ UNCHANGED vars
             \/ \E r \in Requests : PollReady(r)
    BY <1>5, QuietRefines
  <1>6. QED
    BY <1>1, <1>2, <1>3, <1>4, <1>5, Zenon DEF Next, Gone

\* A client that was just constructed is one of the contract.
LEMMA InitRefines == Init => Contract!Init
  <1> SUFFICES ASSUME Init PROVE Contract!Init
    OBVIOUS
  <1>1. \A r \in Requests : conn[r] = NewConnection
    BY DEF Init
  <1>2. NewConnection.life = "new" /\ NewConnection.promise = "nobody"
    BY DEF NewConnection
  <1>3. \A r \in Requests : Status(r) = "new" /\ conn[r].promise = "nobody"
    BY <1>1, <1>2, Zenon DEF Status
  <1>4. QED
    BY <1>3 DEF Contract!Init, Init

\* The manager, its queue and its callbacks implement ClientContract, for any
\* requests, threads and bounds, whatever libcurl and the sockets do and whenever the
\* client is destroyed: one result for each request that was taken on, handed over
\* once; cancelOperation throws only when there was nothing left to cancel; and the
\* destructor of a client nobody uses leaves no request behind.
THEOREM ClientKeepsContract == Spec => ImplementsClientContract
  <1>1. QED
    BY InitRefines, StepRefines, ClientInvariance, PTL
    DEF Spec, ImplementsClientContract, Contract!Spec
=============================================================================
