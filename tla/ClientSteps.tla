---------------------------- MODULE ClientSteps ----------------------------
(***************************************************************************)
(* What the operators of ClientManager do to the record of a connection,   *)
(* and what a task of the io thread does to all records and to the queue:  *)
(* the lemmas the proofs about the client rest on.                         *)
(*                                                                         *)
(* A task performs several operators on a record, one after the other.     *)
(* DrivenStep says what a call of libcurl does to one, CheckStep what      *)
(* checkHandles does, PassStep what both do; QueueStep says what the end   *)
(* of a task does to the queue.                                            *)
(***************************************************************************)
EXTENDS ClientManager, TLAPS

Who == Cancellers \cup {"nobody", "dtor"}

\* No thread that cancels is taken for the destructor, or for nobody.
LEMMA WhoCancels ==
  /\ "nobody" \notin Cancellers /\ "dtor" \notin Cancellers
  /\ \A k \in Cancellers : k \in Who /\ k # "nobody" /\ k # "dtor"
  BY BoundsAssumption DEF Who

\* A Connection within a task: a transfer may be done and waits aborted.
Connection ==
  [life : {"new", "submitted", "handled", "dropped"}, state : States,
   easy : {"out", "connecting", "connected", "done"}, cancelled : BOOLEAN,
   notified : BOOLEAN, posted : BOOLEAN, action : 0..2,
   socket : {"null", "open", "deleted"}, polls : Nat, stale : Nat, aborted : Nat,
   promise : Who]

Outcomes == {"ok", "aborted"} \cup IF PollErrors THEN {"error"} ELSE {}

HandleTasks  == [t : {"handle"}, r : Requests]
PollTasks    == [t : {"performOp"}, r : Requests, ec : Outcomes]
CancelTasks  == [t : {"cancel"}, r : Requests, by : Cancellers]
ManagerTasks == [t : {"timer", "shutdown", "check"}, r : {"none"}]
Tasks == HandleTasks \cup PollTasks \cup CancelTasks \cup ManagerTasks

----------------------------------------------------------------------------
(* One connection.                                                         *)

\* At any time.
Common(x) ==
  /\ x.easy = "out" <=> x.state = "absent"
  /\ x.state # "absent" => x.life = "handled"
  /\ x.posted => x.life = "handled" /\ x.notified
  /\ x.life # "handled" =>
       x.notified /\ x.action = 0 /\ x.polls = 0 /\ x.stale = 0 /\ x.aborted = 0
  /\ x.life = "handled" /\ x.state = "absent" => x.notified
  /\ ~PollErrors /\ x.life = "handled" /\ x.notified => x.state = "absent"

\* Within a task, until checkHandles: performOp has overwritten the state.
Busy(x) ==
  /\ Common(x)
  /\ x.state = "Cancelled" => x.promise # "nobody"
  /\ x.promise # "nobody" => x.state \in {"Cancelled", "PerformIo"}

\* At the end of a task, before its aborted waits are queued.
Idle(x) ==
  /\ Common(x)
  /\ x.easy # "done"
  /\ x.promise # "nobody" <=> x.state = "Cancelled"

Rest(x) == Idle(x) /\ x.aborted = 0

----------------------------------------------------------------------------
(* What the operators do to the record of a connection.                    *)

\* What no call of libcurl changes.
Kept(x, y) ==
  /\ y.life = x.life /\ y.cancelled = x.cancelled /\ y.notified = x.notified
  /\ y.posted = x.posted /\ y.promise = x.promise

\* The types of the fields of a connection.
LEMMA FieldTypes ==
  ASSUME NEW x \in Connection
  PROVE  /\ x.life \in {"new", "submitted", "handled", "dropped"} /\ x.state \in States
         /\ x.easy \in {"out", "connecting", "connected", "done"}
         /\ x.cancelled \in BOOLEAN /\ x.notified \in BOOLEAN /\ x.posted \in BOOLEAN
         /\ x.action \in 0..2 /\ x.socket \in {"null", "open", "deleted"}
         /\ x.polls \in Nat /\ x.stale \in Nat /\ x.aborted \in Nat /\ x.promise \in Who
  BY DEF Connection

\* complete keeps all but the result, which is notified when there was none.
LEMMA CompleteStep ==
  ASSUME NEW x \in Connection
  PROVE  /\ complete(x) \in Connection
         /\ complete(x).notified
         /\ x.notified => complete(x) = x
         /\ ~x.notified => complete(x).posted
         /\ complete(x).life = x.life /\ complete(x).state = x.state
         /\ complete(x).easy = x.easy /\ complete(x).cancelled = x.cancelled
         /\ complete(x).action = x.action /\ complete(x).promise = x.promise
         /\ complete(x).polls = x.polls /\ complete(x).stale = x.stale
         /\ complete(x).aborted = x.aborted
  <1>1. complete(x) \in Connection
    BY Zenon DEF complete, Connection
  <1>2. QED
    BY <1>1 DEF complete, Connection

\* closesocket moves the waits of a connection to the aborted ones.
LEMMA CloseStep ==
  ASSUME NEW x \in Connection
  PROVE  /\ closesocket(x) \in Connection /\ Kept(x, closesocket(x))
         /\ closesocket(x).state = x.state /\ closesocket(x).easy = x.easy
         /\ closesocket(x).action = x.action /\ closesocket(x).stale = x.stale
         /\ closesocket(x).polls = 0 /\ closesocket(x).aborted = x.aborted + x.polls
  <1>1. x.aborted + x.polls \in Nat /\ 0 \in Nat
    BY FieldTypes
  <1>2. closesocket(x) \in Connection
    BY <1>1, Zenon DEF closesocket, Connection
  <1>3. QED
    BY <1>2 DEF closesocket, Connection, Kept

\* Leave moves them to the stale ones.
LEMMA LeaveStep ==
  ASSUME NEW x \in Connection
  PROVE  /\ Leave(x) \in Connection /\ Kept(x, Leave(x))
         /\ Leave(x).state = x.state /\ Leave(x).easy = x.easy
         /\ Leave(x).action = x.action /\ Leave(x).aborted = x.aborted
         /\ Leave(x).socket = x.socket
         /\ Leave(x).polls = 0 /\ Leave(x).stale = x.stale + x.polls
  <1>1. x.stale + x.polls \in Nat /\ 0 \in Nat
    BY FieldTypes
  <1>2. Leave(x) \in Connection
    BY <1>1, Zenon DEF Leave, Connection
  <1>3. QED
    BY <1>2 DEF Leave, Connection, Kept

\* opensocket sets the socket only.
LEMMA OpenStep ==
  ASSUME NEW x \in Connection
  PROVE  /\ opensocket(x) \in Connection /\ Kept(x, opensocket(x))
         /\ opensocket(x).state = x.state /\ opensocket(x).easy = x.easy
         /\ opensocket(x).action = x.action /\ opensocket(x).aborted = x.aborted
         /\ opensocket(x).polls = x.polls /\ opensocket(x).stale = x.stale
         /\ x.action # 0 => opensocket(x).socket = "open"
  <1>1. opensocket(x) \in Connection
    BY Zenon DEF opensocket, Connection
  <1>2. QED
    BY <1>1 DEF opensocket, Connection, Kept

\* poll starts waits for a connection in state Default.
LEMMA PollStep ==
  ASSUME NEW x \in Connection
  PROVE  /\ poll(x) \in Connection /\ Kept(x, poll(x))
         /\ x.state = "Default" => poll(x).state = "Polling"
         /\ x.state # "Default" => poll(x) = x
         /\ poll(x).easy = x.easy /\ poll(x).socket = x.socket
         /\ poll(x).action = x.action /\ poll(x).aborted = x.aborted
         /\ poll(x).stale = x.stale
  <1> DEFINE y == [x EXCEPT !.state = "Polling"]
  <1>1. y \in Connection /\ y.action = x.action /\ y.polls = x.polls
    <2>1. y \in Connection
      BY Zenon DEF Connection, States
    <2>2. QED
      BY <2>1 DEF Connection
  <1>2. y.polls + y.action \in Nat
    BY <1>1, FieldTypes
  <1>3. PollSocket(y) \in Connection
    BY <1>1, <1>2, Zenon DEF PollSocket, Connection
  <1>4. poll(x) \in Connection
    BY <1>3, Zenon DEF poll
  <1>5. QED
    BY <1>4 DEF poll, PollSocket, Connection, Kept

\* sock_cb gives a connection its socket and the directions to poll.
LEMMA SockStep ==
  ASSUME NEW x \in Connection, NEW what \in {1, 2}
  PROVE  /\ sock_cb(x, what) \in Connection /\ Kept(x, sock_cb(x, what))
         /\ x.state = "Default" => sock_cb(x, what).state = "Polling"
         /\ x.state # "Default" => sock_cb(x, what).state = x.state
         /\ sock_cb(x, what).easy = x.easy /\ sock_cb(x, what).socket = "open"
         /\ sock_cb(x, what).action = what /\ sock_cb(x, what).aborted = x.aborted
         /\ sock_cb(x, what).stale = x.stale
  <1> DEFINE y == [setSocket(x) EXCEPT !.action = what]
  <1>1. what \in 0..2
    OBVIOUS
  <1>2. y \in Connection
    BY <1>1, Zenon DEF setSocket, Connection
  <1>3. /\ Kept(x, y) /\ y.state = x.state /\ y.easy = x.easy /\ y.action = what
        /\ y.socket = "open" /\ y.aborted = x.aborted /\ y.stale = x.stale
    BY <1>2 DEF setSocket, Connection, Kept
  <1>4. sock_cb(x, what) = poll(y)
    BY DEF sock_cb
  <1> HIDE DEF y
  <1>5. QED
    BY <1>2, <1>3, <1>4, PollStep DEF Kept

\* The transfer's own field.
LEMMA EasyStep ==
  ASSUME NEW x \in Connection, NEW e \in {"out", "connecting", "connected", "done"},
         NEW y, y = [x EXCEPT !.easy = e]
  PROVE  /\ y \in Connection /\ Kept(x, y) /\ y.easy = e
         /\ y.state = x.state /\ y.action = x.action /\ y.socket = x.socket
         /\ y.polls = x.polls /\ y.stale = x.stale /\ y.aborted = x.aborted
  <1>1. y \in Connection
    BY Zenon DEF Connection
  <1>2. QED
    BY <1>1 DEF Connection, Kept

\* A call of libcurl: a transfer that is not being worked on stays as it is; the
\* state of a connection only goes from Default to Polling; without a direction
\* to poll there are no waits; a transfer that goes on keeps a socket.
Drives(x, y) ==
  /\ y \in Connection /\ Kept(x, y)
  /\ x.easy \notin Unfinished => y = x
  /\ x.easy \in Unfinished => y.easy \in Unfinished \cup {"done"}
  /\ \/ y.state = x.state
     \/ x.state = "Default" /\ y.state = "Polling" /\ y.action # 0
  /\ y.action = 0 => /\ x.action = 0
                     /\ x.polls = 0 => /\ y.polls = 0 /\ y.stale = x.stale
                                       /\ y.aborted = x.aborted
  /\ ~CurlGaps /\ (x.action # 0 => x.socket = "open") /\ y.easy # "done" =>
       (y.action # 0 => y.socket = "open")

\* What one call of libcurl does to the transfer of a connection.
LEMMA DrivenStep ==
  ASSUME NEW x \in Connection, NEW y \in Driven(x)
  PROVE  Drives(x, y)
  <1>0. x.polls \in Nat /\ x.stale \in Nat /\ x.aborted \in Nat /\ x.action \in 0..2
    BY FieldTypes
  <1>1. CASE y = x
    <2>1. x.easy \in {"out", "connecting", "connected", "done"}
      BY FieldTypes
    <2>2. QED
      BY <1>1, <2>1 DEF Drives, Kept, Unfinished
  <1>2. ASSUME x.easy \in Unfinished,
               NEW e \in {x.easy, "connected"}, NEW what \in {1, 2},
               y = sock_cb([x EXCEPT !.easy = e], what)
        PROVE  Drives(x, y)
    <2> DEFINE z == [x EXCEPT !.easy = e]
    <2>1. e \in Unfinished /\ e \in {"out", "connecting", "connected", "done"}
      BY <1>2 DEF Unfinished
    <2>2. z \in Connection /\ Kept(x, z) /\ z.easy = e /\ z.state = x.state
      BY <2>1, EasyStep
    <2>3. y = sock_cb(z, what)
      BY <1>2
    <2> HIDE DEF z
    <2>4. QED
      BY <1>2, <2>1, <2>2, <2>3, SockStep DEF Drives, Kept
  <1>3. ASSUME x.easy \in Unfinished,
               NEW z \in {opensocket(closesocket(x)), opensocket(Leave(x))},
               NEW w, w = [z EXCEPT !.easy = "connecting"]
        PROVE  /\ w \in Connection /\ Kept(x, w) /\ w.easy = "connecting"
               /\ w.state = x.state /\ w.action = x.action
               /\ x.action # 0 => w.socket = "open"
               /\ w.polls = 0 /\ (x.polls = 0 => w.stale = x.stale /\ w.aborted = x.aborted)
    <2>1. /\ z \in Connection /\ Kept(x, z) /\ z.state = x.state /\ z.action = x.action
          /\ x.action # 0 => z.socket = "open"
          /\ z.polls = 0 /\ (x.polls = 0 => z.stale = x.stale /\ z.aborted = x.aborted)
      <3>1. CASE z = opensocket(closesocket(x))
        BY <3>1, <1>0, CloseStep, OpenStep DEF Kept
      <3>2. CASE z = opensocket(Leave(x))
        BY <3>2, <1>0, LeaveStep, OpenStep DEF Kept
      <3>3. QED
        BY <1>3, <3>1, <3>2
    <2>2. QED
      BY <1>3, <2>1, EasyStep DEF Kept
  <1>4. ASSUME x.easy \in Unfinished,
               NEW z \in {opensocket(closesocket(x)), opensocket(Leave(x))},
               y = [z EXCEPT !.easy = "connecting"]
        PROVE  Drives(x, y)
    <2>1. x.easy # "done" /\ "connecting" \in Unfinished
      BY <1>4 DEF Unfinished
    <2>2. QED
      BY <1>3, <1>4, <2>1, Zenon DEF Drives
  <1>5. ASSUME x.easy \in Unfinished, NEW what \in {1, 2},
               NEW z \in {opensocket(closesocket(x)), opensocket(Leave(x))},
               y = sock_cb([z EXCEPT !.easy = "connecting"], what)
        PROVE  Drives(x, y)
    <2> DEFINE w == [z EXCEPT !.easy = "connecting"]
    <2>1. w \in Connection /\ Kept(x, w) /\ w.easy = "connecting" /\ w.state = x.state
      BY <1>3, <1>5, Zenon
    <2>2. y = sock_cb(w, what)
      BY <1>5
    <2> HIDE DEF w
    <2>3. QED
      BY <1>5, <2>1, <2>2, SockStep DEF Drives, Kept, Unfinished
  <1>6. ASSUME x.easy \in Unfinished, CurlGaps,
               y = [closesocket(x) EXCEPT !.easy = "connecting"]
        PROVE  Drives(x, y)
    BY <1>0, <1>6, CloseStep, EasyStep DEF Drives, Kept, Unfinished
  <1>7. ASSUME x.easy \in Unfinished, NEW z \in {closesocket(x), Leave(x)},
               y = [z EXCEPT !.easy = "done"]
        PROVE  Drives(x, y)
    <2>1. /\ z \in Connection /\ Kept(x, z) /\ z.state = x.state /\ z.action = x.action
          /\ z.polls = 0 /\ (x.polls = 0 => z.stale = x.stale /\ z.aborted = x.aborted)
      BY <1>0, <1>7, CloseStep, LeaveStep
    <2>2. QED
      BY <1>7, <2>1, EasyStep DEF Drives, Kept, Unfinished
  <1>8. CASE x.easy \notin Unfinished
    BY <1>1, <1>8 DEF Driven
  <1>9. CASE x.easy \in Unfinished
    <2>1. \/ y = x
          \/ \E e \in {x.easy, "connected"}, what \in {1, 2} :
               y = sock_cb([x EXCEPT !.easy = e], what)
          \/ \E z \in {opensocket(closesocket(x)), opensocket(Leave(x))} :
               y = [z EXCEPT !.easy = "connecting"]
          \/ \E z \in {opensocket(closesocket(x)), opensocket(Leave(x))}, what \in {1, 2} :
               y = sock_cb([z EXCEPT !.easy = "connecting"], what)
          \/ CurlGaps /\ y = [closesocket(x) EXCEPT !.easy = "connecting"]
          \/ \E z \in {closesocket(x), Leave(x)} : y = [z EXCEPT !.easy = "done"]
      BY <1>9 DEF Driven
    <2>2. QED
      BY <1>1, <1>2, <1>4, <1>5, <1>6, <1>7, <1>9, <2>1
  <1>10. QED
    BY <1>8, <1>9

\* removeConnection takes a connection out of current_connections.
LEMMA RemoveStep ==
  ASSUME NEW x \in Connection
  PROVE  /\ removeConnection(x) \in Connection /\ Kept(x, removeConnection(x))
         /\ removeConnection(x).state = "absent" /\ removeConnection(x).easy = "out"
         /\ removeConnection(x).polls <= x.polls /\ removeConnection(x).stale = x.stale
  <1>0. x.polls \in Nat
    BY FieldTypes
  <1> DEFINE y == IF x.easy \in Unfinished THEN closesocket(x) ELSE x
  <1>1. y \in Connection /\ Kept(x, y) /\ y.polls <= x.polls /\ y.stale = x.stale
    BY <1>0, CloseStep DEF Kept
  <1>2. removeConnection(x) = [y EXCEPT !.state = "absent", !.easy = "out"]
    BY DEF removeConnection
  <1> HIDE DEF y
  <1>3. removeConnection(x) \in Connection
    BY <1>1, <1>2, Zenon DEF Connection, States
  <1>4. QED
    BY <1>1, <1>2, <1>3 DEF Connection, Kept

\* checkHandles: a connection whose transfer is done or that was cancelled is out,
\* with its result notified; any other is as it was.
Checks(x, z) ==
  /\ z \in Connection /\ Idle(z)
  /\ z.life = x.life /\ z.cancelled = x.cancelled /\ z.promise = "nobody"
  /\ x.promise # "nobody" => z.state = "absent"
  /\ x.state = "absent" \/ z.state # "absent" => z = x
  /\ x.notified => z.notified /\ z.posted = x.posted
  /\ ~x.notified /\ z.notified => z.posted
  /\ z.polls <= x.polls /\ z.stale = x.stale

\* The record within a task that is cleared of a request to poll and of a promise.
LEMMA ClearStep ==
  ASSUME NEW x \in Connection, NEW p \in {x.promise, "nobody"}, NEW y,
         y = [x EXCEPT !.action = 0, !.promise = p]
  PROVE  /\ y \in Connection /\ y.life = x.life /\ y.cancelled = x.cancelled
         /\ y.notified = x.notified /\ y.posted = x.posted /\ y.promise = p
         /\ y.state = x.state /\ y.easy = x.easy
         /\ y.polls = x.polls /\ y.stale = x.stale
  <1>1. p \in Who /\ 0 \in 0..2
    BY FieldTypes DEF Who
  <1>2. y \in Connection
    BY <1>1, Zenon DEF Connection
  <1>3. QED
    BY <1>2 DEF Connection

\* checkHandles, for a transfer that is finished: its connection is notified and left.
LEMMA CheckDoneStep ==
  ASSUME NEW x \in Connection, x.easy = "done"
  PROVE  /\ CheckDone(x) \in Connection
         /\ CheckDone(x).life = x.life /\ CheckDone(x).cancelled = x.cancelled
         /\ CheckDone(x).promise = x.promise /\ CheckDone(x).state = "absent"
         /\ CheckDone(x).easy = "out" /\ CheckDone(x).notified
         /\ x.notified => CheckDone(x).posted = x.posted
         /\ ~x.notified => CheckDone(x).posted
         /\ CheckDone(x).polls <= x.polls /\ CheckDone(x).stale = x.stale
  <1> DEFINE y == [x EXCEPT !.action = 0]
  <1>1. y \in Connection
    <2>1. 0 \in 0..2
      OBVIOUS
    <2>2. QED
      BY <2>1, Zenon DEF Connection
  <1>2. /\ Kept(x, y) /\ y.polls = x.polls /\ y.stale = x.stale
    BY <1>1 DEF Connection, Kept
  <1>3. CheckDone(x) = complete(removeConnection(y))
    BY DEF CheckDone, buildResponse
  <1> HIDE DEF y
  <1>4. QED
    BY <1>1, <1>2, <1>3, RemoveStep, CompleteStep DEF Kept

\* checkHandles, for a connection that is cancelled: it is notified and left.
LEMMA CheckCancelledStep ==
  ASSUME NEW x \in Connection, x.promise # "nobody"
  PROVE  /\ CheckCancelled(x) \in Connection
         /\ CheckCancelled(x).life = x.life /\ CheckCancelled(x).cancelled = x.cancelled
         /\ CheckCancelled(x).promise = "nobody" /\ CheckCancelled(x).state = "absent"
         /\ (x.state = "absent" => x.easy = "out") => CheckCancelled(x).easy = "out"
         /\ CheckCancelled(x).notified
         /\ x.notified => CheckCancelled(x).posted = x.posted
         /\ ~x.notified => CheckCancelled(x).posted
         /\ CheckCancelled(x).polls <= x.polls /\ CheckCancelled(x).stale = x.stale
  <1>0. x.polls \in Nat
    BY FieldTypes
  <1> DEFINE v == [x EXCEPT !.action = 0, !.promise = "nobody"]
             y == complete(v)
  <1>1. /\ v \in Connection /\ v.life = x.life /\ v.cancelled = x.cancelled
        /\ v.notified = x.notified /\ v.posted = x.posted /\ v.promise = "nobody"
        /\ v.state = x.state /\ v.easy = x.easy
        /\ v.polls = x.polls /\ v.stale = x.stale
    BY ClearStep, Zenon
  <1> HIDE DEF v
  <1>2. /\ y \in Connection /\ y.life = x.life /\ y.cancelled = x.cancelled
        /\ y.promise = "nobody" /\ y.notified
        /\ x.notified => y.posted = x.posted
        /\ ~x.notified => y.posted
        /\ y.state = x.state /\ y.easy = x.easy
        /\ y.polls = x.polls /\ y.stale = x.stale
    BY <1>1, CompleteStep
  <1>3. CheckCancelled(x) = IF x.state = "absent" THEN y ELSE removeConnection(y)
    BY DEF CheckCancelled, v
  <1> HIDE DEF y
  <1>4. QED
    BY <1>0, <1>2, <1>3, RemoveStep DEF Kept

\* checkHandles, for one connection.
LEMMA CheckStep ==
  ASSUME NEW x \in Connection, Busy(x)
  PROVE  Checks(x, CheckCancelled(CheckDone(x)))
  <1> DEFINE y == CheckDone(x)
             z == CheckCancelled(y)
  <1>0. /\ x.polls \in Nat /\ x.life \in {"new", "submitted", "handled", "dropped"}
        /\ x.notified \in BOOLEAN /\ x.posted \in BOOLEAN
    BY FieldTypes
  <1>1. CASE x.easy # "done" /\ x.promise = "nobody"
    <2>1. z = x
      BY <1>1 DEF CheckDone, CheckCancelled
    <2>2. QED
      BY <1>0, <1>1, <2>1 DEF Checks, Busy, Idle
  <1>2. CASE x.easy = "done" /\ x.promise = "nobody"
    <2>1. z = y /\ y.promise = "nobody"
      BY <1>2, CheckDoneStep DEF CheckCancelled
    <2>2. x.state # "absent" /\ x.life = "handled"
      BY <1>2 DEF Busy, Common
    <2>3. QED
      BY <1>2, <2>1, <2>2, CheckDoneStep DEF Checks, Idle, Common
  <1>3. CASE x.promise # "nobody"
    <2>1. x.state # "absent" /\ x.life = "handled" /\ x.easy # "out"
      BY <1>3 DEF Busy, Common
    <2>2. /\ y \in Connection /\ y.life = x.life /\ y.cancelled = x.cancelled
          /\ y.promise = x.promise /\ (y.state = "absent" => y.easy = "out")
          /\ x.notified => y.notified /\ y.posted = x.posted
          /\ y.notified => x.notified \/ y.posted
          /\ y.polls <= x.polls /\ y.stale = x.stale /\ y.polls \in Nat
      <3>1. CASE x.easy = "done"
        BY <3>1, CheckDoneStep, FieldTypes
      <3>2. CASE x.easy # "done"
        <4>1. y = x
          BY <3>2 DEF CheckDone
        <4>2. QED
          BY <1>0, <2>1, <4>1
      <3>3. QED
        BY <3>1, <3>2
    <2>3. /\ z \in Connection /\ z.life = y.life /\ z.cancelled = y.cancelled
          /\ z.promise = "nobody" /\ z.state = "absent" /\ z.easy = "out" /\ z.notified
          /\ y.notified => z.posted = y.posted
          /\ ~y.notified => z.posted
          /\ z.polls <= y.polls /\ z.stale = y.stale /\ z.polls \in Nat
      BY <1>3, <2>2, CheckCancelledStep, FieldTypes
    <2> HIDE DEF y, z
    <2>4. Checks(x, z)
      BY <1>0, <1>3, <2>1, <2>2, <2>3 DEF Checks, Idle, Common
    <2>5. QED
      BY <2>4 DEF y, z
  <1>4. QED
    BY <1>1, <1>2, <1>3

----------------------------------------------------------------------------
(* What a task does to all connections and to the queue.                   *)

\* What two calls do to a transfer is what one may do.
LEMMA DrivesTwice ==
  ASSUME NEW x \in Connection, NEW y \in Connection, NEW z, Drives(x, y), Drives(y, z)
  PROVE  Drives(x, z)
  <1>1. z \in Connection /\ Kept(x, z)
    BY DEF Drives, Kept
  <1>2. /\ x.easy \notin Unfinished => z = x
        /\ x.easy \in Unfinished => z.easy \in Unfinished \cup {"done"}
        /\ z.easy # "done" => y.easy # "done"
    BY DEF Drives, Unfinished
  <1>3. \/ z.state = x.state
        \/ x.state = "Default" /\ z.state = "Polling" /\ z.action # 0
    BY DEF Drives
  <1>4. QED
    BY <1>1, <1>2, <1>3 DEF Drives

\* So does a call within which libcurl is called again.
LEMMA DrivenAgainStep ==
  ASSUME NEW x \in Connection, NEW z \in DrivenAgain(x)
  PROVE  Drives(x, z)
  <1>1. PICK y \in Driven(x) : z \in Driven(y)
    BY Zenon DEF DrivenAgain
  <1>2. Drives(x, y) /\ y \in Connection
    BY DrivenStep, Zenon DEF Drives
  <1>3. Drives(y, z)
    BY <1>1, <1>2, DrivenStep, Zenon
  <1>4. QED
    BY <1>2, <1>3, DrivesTwice, Zenon

\* A call of libcurl drives every transfer, within the bound on the waits.
LEMMA AllDrivenStep ==
  ASSUME NEW c \in [Requests -> Connection], NEW d \in AllDriven(c)
  PROVE  /\ d \in [Requests -> Connection] /\ WaitsBound(d)
         /\ \A r \in Requests : Drives(c[r], d[r])
  <1>1. PICK r \in Requests : \E y \in DrivenAgain(c[r]) : d = [c EXCEPT ![r] = y]
    BY DEF AllDriven
  <1> PICK y \in DrivenAgain(c[r]) : d = [c EXCEPT ![r] = y]
    BY <1>1, Zenon
  <1>2. c[r] \in Connection /\ Drives(c[r], y) /\ y \in Connection
    BY DrivenAgainStep, Zenon DEF Drives
  <1>3. ASSUME NEW s \in Requests PROVE c[s] \in Connection /\ Drives(c[s], c[s])
    <2>1. c[s] \in Connection
      OBVIOUS
    <2>2. c[s] \in Driven(c[s])
      BY DEF Driven
    <2>3. QED
      BY <2>1, <2>2, DrivenStep
  <1>4. d \in [Requests -> Connection] /\ d[r] = y /\ \A s \in Requests \ {r} : d[s] = c[s]
    BY <1>1, <1>2
  <1>5. WaitsBound(d)
    BY DEF AllDriven
  <1>6. QED
    BY <1>2, <1>3, <1>4, <1>5

\* What is put into the queue is a task.
LEMMA NewTask ==
  /\ \A r \in Requests : Task("handle", r) \in Tasks
  /\ \A r \in Requests, ec \in Outcomes : PollTask(r, ec) \in Tasks
  /\ \A r \in Requests, k \in Cancellers : CancelTask(r, k) \in Tasks
  /\ \A t \in {"timer", "shutdown", "check"} : Task(t, "none") \in Tasks
  <1>1. \A r \in Requests : Task("handle", r) \in HandleTasks
    BY DEF Task, HandleTasks
  <1>2. \A r \in Requests, ec \in Outcomes : PollTask(r, ec) \in PollTasks
    BY DEF PollTask, PollTasks
  <1>3. \A r \in Requests, k \in Cancellers : CancelTask(r, k) \in CancelTasks
    BY DEF CancelTask, CancelTasks
  <1>4. \A t \in {"timer", "shutdown", "check"} : Task(t, "none") \in ManagerTasks
    BY DEF Task, ManagerTasks
  <1>5. QED
    BY <1>1, <1>2, <1>3, <1>4, Zenon DEF Tasks

\* A concatenation, element by element.
LEMMA Concat ==
  ASSUME NEW S, NEW u \in Seq(S), NEW v \in Seq(S)
  PROVE  /\ u \o v \in Seq(S) /\ Len(u \o v) = Len(u) + Len(v)
         /\ \A i \in 1..(Len(u) + Len(v)) :
              (u \o v)[i] = IF i <= Len(u) THEN u[i] ELSE v[i - Len(u)]
  OBVIOUS

\* The queue at the end of a task that leaves c: what was behind the task, and then
\* the waits that were aborted.
Shifted(c) ==
  /\ ioq' \in Seq(Tasks)
  /\ \A i \in 2..Len(ioq) : i - 1 \in 1..Len(ioq') /\ ioq'[i - 1] = ioq[i]
  /\ \A i \in 1..Len(ioq') :
       \/ i + 1 \in 2..Len(ioq) /\ ioq'[i] = ioq[i + 1]
       \/ /\ i >= Len(ioq) /\ ioq'[i].t = "performOp" /\ ioq'[i].r \in Requests
          /\ c[ioq'[i].r].aborted # 0

\* The end of a task takes it from the queue and puts the waits it aborted behind.
LEMMA QueueStep ==
  ASSUME NEW c \in [Requests -> Connection], ioq \in Seq(Tasks), ioq # <<>>, EndTask(c)
  PROVE  /\ Shifted(c)
         /\ conn' = [r \in Requests |-> [c[r] EXCEPT !.aborted = 0]]
  <1>1. PICK q \in AbortedWaits(c) :
          ioq' = Tail(ioq) \o [i \in DOMAIN q |-> PollTask(q[i], "aborted")]
    BY Zenon DEF EndTask
  <1>2. PICK n \in 0..MaxPolls : q \in [1..n -> {r \in Requests : c[r].aborted > 0}]
    BY Zenon DEF AbortedWaits
  <1>3. n \in Nat /\ DOMAIN q = 1..n
    BY <1>2, BoundsAssumption
  <1>4. ASSUME NEW i \in 1..n PROVE q[i] \in Requests /\ c[q[i]].aborted # 0
    <2>1. q[i] \in Requests /\ c[q[i]].aborted > 0
      BY <1>2
    <2>2. QED
      BY <2>1, FieldTypes
  <1> DEFINE a == [i \in 1..n |-> PollTask(q[i], "aborted")]
  <1>5. /\ a \in Seq(Tasks) /\ Len(a) = n
        /\ \A i \in 1..n : a[i].t = "performOp" /\ a[i].r = q[i]
    <2>0. "aborted" \in Outcomes
      BY DEF Outcomes
    <2>1. ASSUME NEW i \in 1..n PROVE PollTask(q[i], "aborted") \in Tasks
      <3>1. q[i] \in Requests
        BY <1>4, Zenon
      <3>2. QED
        BY <2>0, <3>1, NewTask, Zenon
    <2>2. QED
      BY <1>3, <2>1 DEF PollTask
  <1>6. ioq' = Tail(ioq) \o a
    BY <1>1, <1>3
  <1> HIDE DEF a
  <1>7. Tail(ioq) \in Seq(Tasks) /\ Len(Tail(ioq)) = Len(ioq) - 1 /\ Len(ioq) \in Nat
        /\ \A i \in 1..(Len(ioq) - 1) : Tail(ioq)[i] = ioq[i + 1]
    OBVIOUS
  <1>8. /\ ioq' \in Seq(Tasks) /\ Len(ioq') = Len(ioq) - 1 + n
        /\ \A i \in 1..Len(ioq') : ioq'[i] = IF i <= Len(ioq) - 1 THEN ioq[i + 1]
                                             ELSE a[i - (Len(ioq) - 1)]
    <2> DEFINE u == Tail(ioq)
    <2>1. u \in Seq(Tasks) /\ Len(u) = Len(ioq) - 1 /\ ioq' = u \o a
      BY <1>6, <1>7
    <2> HIDE DEF u
    <2>2. a \in Seq(Tasks) /\ u \in Seq(Tasks) /\ Len(a) = n
      BY <1>5, <2>1
    <2>3. /\ u \o a \in Seq(Tasks) /\ Len(u \o a) = Len(u) + Len(a)
          /\ \A i \in 1..(Len(u) + Len(a)) :
               (u \o a)[i] = IF i <= Len(u) THEN u[i] ELSE a[i - Len(u)]
      BY <2>2, Concat, Zenon
    <2>4. \A i \in 1..(Len(ioq) - 1) : u[i] = ioq[i + 1]
      BY <1>7 DEF u
    <2>5. QED
      BY <1>3, <1>7, <2>1, <2>2, <2>3, <2>4
  <1>9. Shifted(c)
    BY <1>3, <1>4, <1>5, <1>7, <1>8 DEF Shifted
  <1>10. QED
    BY <1>9 DEF EndTask

\* A call of libcurl keeps what holds within a task.
LEMMA DrivesBusy ==
  ASSUME NEW x \in Connection, NEW y, Busy(x), Drives(x, y)
  PROVE  Busy(y)
  <1>1. x.easy \in {"out", "connecting", "connected", "done"}
    BY FieldTypes
  <1>2. CASE x.easy \notin Unfinished
    BY <1>2 DEF Drives
  <1>3. CASE x.easy \in Unfinished
    <2>1. x.state # "absent" /\ x.life = "handled" /\ x.easy # "out"
      BY <1>3 DEF Busy, Common, Unfinished
    <2>2. y.easy # "out" /\ y.state # "absent" /\ y.life = "handled"
      BY <1>3, <2>1 DEF Drives, Kept, Unfinished
    <2>3. Common(y)
      BY <2>1, <2>2 DEF Busy, Common, Drives, Kept
    <2>4. /\ y.promise = x.promise
          /\ y.state = x.state \/ (x.state = "Default" /\ y.state = "Polling")
      BY DEF Drives, Kept
    <2>5. QED
      BY <2>3, <2>4 DEF Busy
  <1>4. QED
    BY <1>2, <1>3

\* A connection that is still tracked at the end of a task: without a direction to
\* poll it has no waits; its state is another only if it polls; it has a socket.
Goes(x, z) ==
  /\ z.action = 0 => /\ x.action = 0
                     /\ x.polls = 0 => /\ z.polls = 0 /\ z.stale = x.stale
                                       /\ z.aborted = x.aborted
  /\ z.state = x.state \/ z.action # 0
  /\ ~CurlGaps /\ (x.action # 0 => x.socket = "open") => (z.action # 0 => z.socket = "open")

\* A task that calls libcurl and then checkHandles.
Passes(x, z) ==
  /\ z \in Connection /\ Idle(z)
  /\ z.life = x.life /\ z.cancelled = x.cancelled /\ z.promise = "nobody"
  /\ x.promise # "nobody" => z.state = "absent"
  /\ x.state = "absent" => z = x
  /\ x.notified => z.notified /\ z.posted = x.posted
  /\ ~x.notified /\ z.notified => z.posted
  /\ z.state # "absent" => Goes(x, z)

\* libcurl and then checkHandles leave a connection at rest, with no more waits.
LEMMA PassStep ==
  ASSUME NEW x \in Connection, NEW y, Busy(x), Drives(x, y)
  PROVE  /\ Passes(x, CheckCancelled(CheckDone(y)))
         /\ CheckCancelled(CheckDone(y)).polls + CheckCancelled(CheckDone(y)).stale
              <= y.polls + y.stale
  <1> DEFINE z == CheckCancelled(CheckDone(y))
  <1>1. y \in Connection /\ Busy(y)
    BY DrivesBusy DEF Drives
  <1>2. Checks(y, z)
    BY <1>1, CheckStep
  <1> HIDE DEF z
  <1>3. /\ y.life = x.life /\ y.cancelled = x.cancelled /\ y.promise = x.promise
        /\ y.notified = x.notified /\ y.posted = x.posted
    BY DEF Drives, Kept
  <1>4. x.state = "absent" => y = x
    BY DEF Drives, Busy, Common, Unfinished
  <1>5. z.state # "absent" => Goes(x, z)
    <2> SUFFICES ASSUME z.state # "absent" PROVE Goes(x, z)
      OBVIOUS
    <2>1. z = y /\ y.easy # "done"
      BY <1>2 DEF Checks, Idle
    <2>2. QED
      BY <2>1 DEF Drives, Goes
  <1>6. Passes(x, z)
    BY <1>2, <1>3, <1>4, <1>5, Zenon DEF Passes, Checks
  <1>7. z.polls <= y.polls /\ z.stale = y.stale /\ z \in Connection
    BY <1>2 DEF Checks
  <1>8. y.polls \in Nat /\ y.stale \in Nat /\ z.polls \in Nat
    BY <1>1, <1>7, FieldTypes
  <1>9. z.polls + z.stale <= y.polls + y.stale
    BY <1>7, <1>8
  <1>10. QED
    BY <1>6, <1>9 DEF z

\* A connection that polls has an open socket; one with nothing to poll has no waits.
SocketOk(x) ==
  /\ x.state # "absent" /\ x.action # 0 => x.socket = "open"
  /\ x.state \in {"Polling", "PerformIo"} => x.action # 0
  /\ x.state # "absent" /\ x.action = 0 => x.polls = 0 /\ x.stale = 0 /\ x.aborted = 0

\* They leave a connection that polls with an open socket.
LEMMA SocketPass ==
  ASSUME NEW x, NEW z, ~CurlGaps, SocketOk(x), Passes(x, z)
  PROVE  SocketOk(z)
  <1>1. CASE z.state = "absent"
    BY <1>1 DEF SocketOk
  <1>2. CASE z.state # "absent"
    <2>1. x.state # "absent" /\ Goes(x, z)
      BY <1>2 DEF Passes
    <2>2. QED
      BY <1>2, <2>1 DEF SocketOk, Goes
  <1>3. QED
    BY <1>1, <1>2

\* What is in a queue is a task of one of the four kinds.
LEMMA TaskShape ==
  ASSUME NEW t \in Tasks
  PROVE  /\ t.t \in {"handle", "performOp", "cancel"} => t.r \in Requests
         /\ t.t = "cancel" => t.by \in Cancellers
         /\ t.t = "performOp" => t.ec \in Outcomes
         /\ t.t \in {"handle", "performOp", "cancel", "timer", "shutdown", "check"}
         /\ t.r \in Requests => t.t \in {"handle", "performOp", "cancel"}
  BY BoundsAssumption DEF Tasks, HandleTasks, PollTasks, CancelTasks, ManagerTasks

\* The aborted waits are all a task leaves to be done about a connection.
LEMMA RestStep ==
  ASSUME NEW x \in Connection, Idle(x), NEW y, y = [x EXCEPT !.aborted = 0]
  PROVE  /\ y \in Connection /\ Rest(y) /\ Kept(x, y)
         /\ y.state = x.state /\ y.easy = x.easy /\ y.action = x.action
         /\ y.socket = x.socket /\ y.polls = x.polls /\ y.stale = x.stale
  <1>1. y \in Connection
    <2>1. 0 \in Nat
      OBVIOUS
    <2>2. QED
      BY <2>1, Zenon DEF Connection
  <1>2. /\ Kept(x, y) /\ y.state = x.state /\ y.easy = x.easy /\ y.action = x.action
        /\ y.socket = x.socket /\ y.polls = x.polls /\ y.stale = x.stale /\ y.aborted = 0
    BY <1>1 DEF Connection, Kept
  <1>3. Rest(y)
    BY <1>2 DEF Rest, Idle, Common, Kept
  <1>4. QED
    BY <1>1, <1>2, <1>3

----------------------------------------------------------------------------
(* Requests that are refused, or taken on.                                 *)

\* Nothing has happened to a request that is only submitted.
LEMMA SubmittedStep ==
  ASSUME NEW x \in Connection, Rest(x), x.life = "submitted"
  PROVE  /\ x.state = "absent" /\ x.easy = "out" /\ x.promise = "nobody"
         /\ x.notified /\ ~x.posted
         /\ x.action = 0 /\ x.polls = 0 /\ x.stale = 0 /\ x.aborted = 0
  <1>1. x.notified \in BOOLEAN /\ x.posted \in BOOLEAN
    BY FieldTypes
  <1>2. QED
    BY <1>1 DEF Rest, Idle, Common

\* The outcome for the request of a handle task that does not call libcurl.
Settled(x, y) ==
  /\ y \in Connection /\ Idle(y) /\ y.life \in {"handled", "dropped"}
  /\ y.promise = x.promise /\ SocketOk(y)
  /\ y.state # "absent" => ~y.cancelled
  /\ y.life = "handled" /\ y.notified => y.posted
  /\ y.polls = 0 /\ y.stale = 0

\* handleRequest drops what it refuses and what cannot be configured.
LEMMA DroppedStep ==
  ASSUME NEW x \in Connection, Rest(x), x.life = "submitted",
         NEW y, y = [x EXCEPT !.life = "dropped"]
  PROVE  Settled(x, y) /\ complete(y) = y
  <1>0. /\ x.state = "absent" /\ x.easy = "out" /\ x.promise = "nobody"
        /\ x.notified /\ ~x.posted
        /\ x.action = 0 /\ x.polls = 0 /\ x.stale = 0 /\ x.aborted = 0
    BY SubmittedStep
  <1>1. y \in Connection
    BY Zenon DEF Connection
  <1>2. /\ y.life = "dropped" /\ y.state = "absent" /\ y.easy = "out"
        /\ y.promise = "nobody" /\ x.promise = "nobody" /\ y.notified
        /\ ~y.posted
        /\ y.action = 0 /\ y.polls = 0 /\ y.stale = 0 /\ y.aborted = 0
    BY <1>0, <1>1 DEF Connection
  <1>3. QED
    BY <1>1, <1>2 DEF Settled, SocketOk, Idle, Common, complete

\* What configureRequest has set up can be notified, and can be added to libcurl.
LEMMA ConfiguredStep ==
  ASSUME NEW x \in Connection, Rest(x), x.life = "submitted"
  PROVE  Settled(x, complete(configureRequest(x)))
  <1>0. /\ x.state = "absent" /\ x.easy = "out" /\ x.promise = "nobody"
        /\ x.notified /\ ~x.posted
        /\ x.action = 0 /\ x.polls = 0 /\ x.stale = 0 /\ x.aborted = 0
    BY SubmittedStep
  <1> DEFINE v == configureRequest(x)
             y == complete(v)
  <1>1. v \in Connection
    BY Zenon DEF Connection, configureRequest
  <1>2. /\ v.life = "handled" /\ v.state = "absent" /\ v.easy = "out" /\ ~v.cancelled
        /\ v.promise = "nobody" /\ x.promise = "nobody" /\ ~v.notified
        /\ v.action = 0 /\ v.polls = 0 /\ v.stale = 0 /\ v.aborted = 0
    BY <1>0, <1>1 DEF Connection, configureRequest
  <1> HIDE DEF v
  <1>3. /\ y \in Connection /\ y.life = "handled" /\ y.promise = "nobody" /\ y.notified
        /\ y.state = "absent" /\ y.easy = "out" /\ y.posted /\ y.polls = 0 /\ y.stale = 0
    BY <1>1, <1>2, CompleteStep
  <1> HIDE DEF y
  <1>4. Settled(x, y)
    BY <1>2, <1>3 DEF Settled, SocketOk, Idle, Common
  <1>5. QED
    BY <1>4 DEF y, v

\* A request that is added to libcurl is in state Default, with nothing to poll yet.
LEMMA AddedStep ==
  ASSUME NEW x \in Connection, Rest(x), x.life = "submitted"
  PROVE  LET y == [configureRequest(x) EXCEPT !.state = "Default", !.easy = "connecting"] IN
         /\ Settled(x, y) /\ Busy(y) /\ y.life = "handled" /\ ~y.cancelled
         /\ ~y.notified /\ y.state = "Default"
  <1>0. /\ x.state = "absent" /\ x.easy = "out" /\ x.promise = "nobody"
        /\ x.notified /\ ~x.posted
        /\ x.action = 0 /\ x.polls = 0 /\ x.stale = 0 /\ x.aborted = 0
    BY SubmittedStep
  <1> DEFINE v == configureRequest(x)
  <1>1. v \in Connection
    BY Zenon DEF Connection, configureRequest
  <1>2. /\ v.life = "handled" /\ ~v.cancelled
        /\ v.promise = "nobody" /\ x.promise = "nobody" /\ ~v.notified
        /\ ~v.posted
        /\ v.action = 0 /\ v.polls = 0 /\ v.stale = 0 /\ v.aborted = 0
    BY <1>0, <1>1 DEF Connection, configureRequest
  <1> HIDE DEF v
  <1> DEFINE y == [v EXCEPT !.state = "Default", !.easy = "connecting"]
  <1>4. y \in Connection
    BY <1>1, Zenon DEF Connection, States
  <1>5. /\ y.life = "handled" /\ ~y.cancelled /\ y.state = "Default"
        /\ y.easy = "connecting" /\ y.promise = "nobody" /\ ~y.notified
        /\ ~y.posted
        /\ y.action = 0 /\ y.polls = 0 /\ y.stale = 0 /\ y.aborted = 0
    BY <1>1, <1>2, <1>4 DEF Connection
  <1> HIDE DEF y
  <1>6. /\ Settled(x, y) /\ Busy(y) /\ y.life = "handled" /\ ~y.cancelled
        /\ ~y.notified /\ y.state = "Default"
    BY <1>2, <1>4, <1>5 DEF Settled, SocketOk, Idle, Busy, Common
  <1>7. QED
    BY <1>6 DEF y, v

----------------------------------------------------------------------------
(* performOp, and the end of a task with checkHandles.                     *)

\* performOp overwrites the state of a connection that is tracked.
LEMMA PerformStep ==
  ASSUME NEW x \in Connection, Rest(x), x.state # "absent",
         NEW y, y = [x EXCEPT !.state = "PerformIo"]
  PROVE  /\ y \in Connection /\ Busy(y) /\ Kept(x, y) /\ y.state = "PerformIo"
         /\ y.action = x.action /\ (x.action # 0 /\ SocketOk(x) => SocketOk(y))
  <1>1. y \in Connection
    BY Zenon DEF Connection, States
  <1>2. /\ Kept(x, y) /\ y.state = "PerformIo" /\ y.easy = x.easy /\ y.action = x.action
        /\ y.socket = x.socket /\ y.polls = x.polls /\ y.stale = x.stale
        /\ y.aborted = x.aborted
    BY <1>1 DEF Connection, Kept
  <1>3. Busy(y)
    BY <1>2 DEF Rest, Idle, Busy, Common, Kept
  <1>4. x.action # 0 /\ SocketOk(x) => SocketOk(y)
    BY <1>2 DEF SocketOk
  <1>5. QED
    BY <1>1, <1>2, <1>3, <1>4

\* performOp polls again a connection that is still there.
LEMMA AgainStep ==
  ASSUME NEW x, NEW z \in Connection, Passes(x, z), z.state # "absent", z.action # 0,
         NEW y, y = poll([z EXCEPT !.state = "Default"])
  PROVE  Passes(x, y)
  <1> DEFINE v == [z EXCEPT !.state = "Default"]
  <1>1. v \in Connection
    BY Zenon DEF Connection, States
  <1>2. /\ Kept(z, v) /\ v.state = "Default" /\ v.easy = z.easy /\ v.action = z.action
        /\ v.socket = z.socket /\ v.aborted = z.aborted
    BY <1>1 DEF Connection, Kept
  <1>3. y = poll(v)
    OBVIOUS
  <1> HIDE DEF v
  <1>4. /\ y \in Connection /\ Kept(z, y) /\ y.state = "Polling" /\ y.easy = z.easy
        /\ y.action = z.action /\ y.socket = z.socket /\ y.aborted = z.aborted
    BY <1>1, <1>2, <1>3, PollStep DEF Kept
  <1>5. Goes(x, z) /\ Idle(z) /\ z.promise = "nobody" /\ z.life = "handled"
    BY DEF Passes, Idle, Common
  <1>6. Goes(x, y)
    BY <1>4, <1>5 DEF Goes
  <1>7. Idle(y)
    BY <1>4, <1>5 DEF Idle, Common, Kept
  <1>8. x.state # "absent"
    BY DEF Passes
  <1>9. QED
    BY <1>4, <1>6, <1>7, <1>8 DEF Passes, Kept

\* A task that calls libcurl with the connections of b, and then checkHandles.
LEMMA DrivenChecked ==
  ASSUME NEW b \in [Requests -> Connection], \A s \in Requests : Busy(b[s]),
         NEW d \in AllDriven(b)
  PROVE  /\ checkHandles(d) \in [Requests -> Connection]
         /\ \A s \in Requests : Passes(b[s], checkHandles(d)[s])
  <1>1. \A s \in Requests : Drives(b[s], d[s])
    BY AllDrivenStep, Zenon
  <1>2. ASSUME NEW s \in Requests
        PROVE  Passes(b[s], CheckCancelled(CheckDone(d[s])))
    <2>1. b[s] \in Connection /\ Busy(b[s]) /\ Drives(b[s], d[s])
      BY <1>1
    <2>2. QED
      BY <2>1, PassStep, Zenon
  <1>3. \A s \in Requests : checkHandles(d)[s] = CheckCancelled(CheckDone(d[s]))
    BY DEF checkHandles
  <1>4. \A s \in Requests : Passes(b[s], checkHandles(d)[s])
    BY <1>2, <1>3, Zenon
  <1>5. \A s \in Requests : CheckCancelled(CheckDone(d[s])) \in Connection
    BY <1>2, Zenon DEF Passes
  <1>6. checkHandles(d) \in [Requests -> Connection]
    BY <1>5, Zenon DEF checkHandles
  <1>7. QED
    BY <1>4, <1>6

\* A task that only calls checkHandles.
LEMMA OnlyChecked ==
  ASSUME NEW b \in [Requests -> Connection], \A s \in Requests : Busy(b[s])
  PROVE  /\ checkHandles(b) \in [Requests -> Connection]
         /\ \A s \in Requests : Passes(b[s], checkHandles(b)[s])
  <1>2. ASSUME NEW s \in Requests
        PROVE  Passes(b[s], CheckCancelled(CheckDone(b[s])))
    <2>1. b[s] \in Connection /\ Busy(b[s]) /\ b[s] \in Driven(b[s])
      BY DEF Driven
    <2>2. Drives(b[s], b[s])
      BY <2>1, DrivenStep, Zenon
    <2>3. QED
      BY <2>1, <2>2, PassStep, Zenon
  <1>3. \A s \in Requests : checkHandles(b)[s] = CheckCancelled(CheckDone(b[s]))
    BY DEF checkHandles
  <1>4. \A s \in Requests : Passes(b[s], checkHandles(b)[s])
    BY <1>2, <1>3, Zenon
  <1>5. \A s \in Requests : CheckCancelled(CheckDone(b[s])) \in Connection
    BY <1>2, Zenon DEF Passes
  <1>6. checkHandles(b) \in [Requests -> Connection]
    BY <1>5, Zenon DEF checkHandles
  <1>7. QED
    BY <1>4, <1>6

\* cancel_connection_io_thread keeps the connection, with the promise of who asked.
LEMMA CancelStep ==
  ASSUME NEW x \in Connection, Rest(x), x.state \notin {"absent", "Cancelled"},
         NEW k \in Who \ {"nobody"}, NEW y, y = cancel_connection(x, k)
  PROVE  /\ y \in Connection /\ Idle(y) /\ y.state = "Cancelled" /\ y.promise = k
         /\ y.life = x.life /\ y.cancelled = x.cancelled /\ y.notified = x.notified
         /\ y.posted = x.posted /\ y.action = x.action
         /\ SocketOk(x) => SocketOk(y)
         /\ y.polls <= x.polls /\ y.stale = x.stale
  <1>0. x.polls \in Nat /\ x.aborted \in Nat
    BY FieldTypes
  <1> DEFINE v == [x EXCEPT !.state = "Cancelled", !.promise = k]
  <1>1. v \in Connection
    BY Zenon DEF Connection, States
  <1>2. /\ v.state = "Cancelled" /\ v.promise = k /\ v.life = x.life
        /\ v.cancelled = x.cancelled /\ v.notified = x.notified /\ v.posted = x.posted
        /\ v.easy = x.easy /\ v.action = x.action
        /\ v.socket = x.socket /\ v.polls = x.polls /\ v.stale = x.stale
        /\ v.aborted = x.aborted
    BY <1>1 DEF Connection
  <1> DEFINE w == [v EXCEPT !.aborted = v.aborted + v.polls, !.polls = 0]
  <1>3. y = v \/ (x.state = "Polling" /\ y = w)
    BY <1>1 DEF cancel_connection, cancelPoll, Connection
  <1> HIDE DEF v
  <1>4. v.aborted + v.polls \in Nat /\ 0 \in Nat
    BY <1>0, <1>2
  <1>5. w \in Connection
    BY <1>1, <1>4, Zenon DEF Connection
  <1>6. /\ w.state = "Cancelled" /\ w.promise = k /\ w.life = x.life
        /\ w.cancelled = x.cancelled /\ w.notified = x.notified /\ w.posted = x.posted
        /\ w.easy = x.easy /\ w.action = x.action
        /\ w.socket = x.socket /\ w.polls = 0 /\ w.stale = x.stale
    BY <1>1, <1>2, <1>5 DEF Connection
  <1> HIDE DEF w
  <1>7. /\ y \in Connection
        /\ y.state = "Cancelled" /\ y.promise = k /\ y.life = x.life
        /\ y.cancelled = x.cancelled /\ y.notified = x.notified /\ y.posted = x.posted
        /\ y.easy = x.easy /\ y.action = x.action
        /\ y.socket = x.socket /\ y.polls <= x.polls /\ y.stale = x.stale
        /\ y.aborted = x.aborted \/ x.state = "Polling"
        /\ y.polls \in Nat
    BY <1>0, <1>1, <1>2, <1>3, <1>5, <1>6
  <1>8. x.life = "handled"
    BY DEF Rest, Idle, Common
  <1>9. Idle(y)
    BY <1>7, <1>8 DEF Rest, Idle, Common
  <1>10. SocketOk(x) => SocketOk(y)
    BY <1>0, <1>7 DEF SocketOk
  <1>11. QED
    BY <1>7, <1>9, <1>10

\* cancel sets the flag of a Connection.
LEMMA FlagStep ==
  ASSUME NEW x \in Connection, Rest(x), NEW y, y = [x EXCEPT !.cancelled = TRUE]
  PROVE  /\ y \in Connection /\ Rest(y) /\ y.cancelled
         /\ y.life = x.life /\ y.notified = x.notified /\ y.posted = x.posted
         /\ y.promise = x.promise /\ y.state = x.state /\ y.easy = x.easy
         /\ y.action = x.action /\ y.socket = x.socket /\ y.polls = x.polls
         /\ y.stale = x.stale /\ y.aborted = x.aborted
  <1>1. y \in Connection
    <2>1. TRUE \in BOOLEAN
      OBVIOUS
    <2>2. QED
      BY <2>1, Zenon DEF Connection
  <1>2. /\ y.cancelled /\ y.life = x.life /\ y.notified = x.notified /\ y.posted = x.posted
        /\ y.promise = x.promise /\ y.state = x.state /\ y.easy = x.easy
        /\ y.action = x.action /\ y.socket = x.socket /\ y.polls = x.polls
        /\ y.stale = x.stale /\ y.aborted = x.aborted
    BY <1>1 DEF Connection
  <1>3. Rest(y)
    BY <1>2 DEF Rest, Idle, Common
  <1>4. QED
    BY <1>1, <1>2, <1>3

\* The destructor cancels a connection that is tracked and that nobody has cancelled.
Stops(x, y) ==
  /\ y \in Connection /\ Idle(y)
  /\ y.life = x.life /\ y.action = x.action /\ y.notified = x.notified
  /\ y.posted = x.posted /\ (SocketOk(x) => SocketOk(y))
  /\ \/ y = x /\ (x.state # "absent" => x.cancelled)
     \/ x.state = "Cancelled" /\ y.state = "Cancelled" /\ y.promise = x.promise
     \/ /\ x.state \notin {"absent", "Cancelled"} /\ y.state = "Cancelled"
        /\ x.promise = "nobody" /\ y.promise = "dtor"
  /\ y.polls <= x.polls /\ y.stale = x.stale

StopOf(x) ==
  LET y == [x EXCEPT !.cancelled = TRUE]
  IN CASE ~(x.state # "absent" /\ ~x.cancelled) -> x
       [] (x.state # "absent" /\ ~x.cancelled) /\ y.state = "Cancelled" -> y
       [] (x.state # "absent" /\ ~x.cancelled) /\ y.state # "Cancelled" ->
            cancel_connection(y, "dtor")

\* The destructor cancels a connection that nobody has cancelled.
LEMMA StopStep ==
  ASSUME NEW x \in Connection, Rest(x)
  PROVE  Stops(x, StopOf(x))
  <1>0. x.polls \in Nat /\ x.cancelled \in BOOLEAN
    BY FieldTypes
  <1> DEFINE v == [x EXCEPT !.cancelled = TRUE]
  <1>1. /\ v \in Connection /\ Rest(v) /\ v.cancelled
        /\ v.life = x.life /\ v.notified = x.notified /\ v.posted = x.posted
        /\ v.promise = x.promise /\ v.state = x.state /\ v.easy = x.easy
        /\ v.action = x.action /\ v.socket = x.socket /\ v.polls = x.polls
        /\ v.stale = x.stale /\ v.aborted = x.aborted
    BY FlagStep, Zenon
  <1>2. CASE ~(x.state # "absent" /\ ~x.cancelled)
    <2>1. StopOf(x) = x
      BY <1>2 DEF StopOf
    <2>2. Stops(x, x)
      BY <1>0, <1>2 DEF Stops, Rest
    <2>3. QED
      BY <2>1, <2>2
  <1>3. CASE x.state # "absent" /\ ~x.cancelled /\ x.state = "Cancelled"
    <2>1. StopOf(x) = v
      BY <1>1, <1>3 DEF StopOf
    <2> HIDE DEF v
    <2>2. Stops(x, v)
      BY <1>0, <1>1, <1>3 DEF Stops, Rest, SocketOk
    <2>3. QED
      BY <2>1, <2>2
  <1>4. CASE x.state # "absent" /\ ~x.cancelled /\ x.state # "Cancelled"
    <2> DEFINE y == cancel_connection(v, "dtor")
    <2>1. StopOf(x) = y
      BY <1>1, <1>4 DEF StopOf
    <2> HIDE DEF v
    <2>2. "dtor" \in Who \ {"nobody"} /\ v.state \notin {"absent", "Cancelled"}
      BY <1>1, <1>4 DEF Who
    <2>3. /\ y \in Connection /\ Idle(y) /\ y.state = "Cancelled" /\ y.promise = "dtor"
          /\ y.life = v.life /\ y.notified = v.notified
          /\ y.posted = v.posted /\ y.action = v.action
          /\ SocketOk(v) => SocketOk(y)
          /\ y.polls <= v.polls /\ y.stale = v.stale
      BY <1>1, <2>2, CancelStep
    <2>4. x.promise = "nobody"
      BY <1>4 DEF Rest, Idle
    <2>5. SocketOk(x) => SocketOk(v)
      BY <1>1 DEF SocketOk
    <2> HIDE DEF y
    <2>6. Stops(x, y)
      BY <1>1, <1>4, <2>3, <2>4, <2>5 DEF Stops
    <2>7. QED
      BY <2>1, <2>6
  <1>5. QED
    BY <1>2, <1>3, <1>4

----------------------------------------------------------------------------
(* What the other threads and the reactor do to a record.                  *)

\* A wait ends.
LEMMA WaitStep ==
  ASSUME NEW x \in Connection, Rest(x), NEW y,
         \/ x.polls > 0 /\ y = [x EXCEPT !.polls = @ - 1]
         \/ x.stale > 0 /\ y = [x EXCEPT !.stale = @ - 1]
  PROVE  /\ y \in Connection /\ Rest(y) /\ Kept(x, y) /\ y.state = x.state
         /\ y.action = x.action /\ x.life = "handled" /\ (SocketOk(x) => SocketOk(y))
         /\ SocketOk(x) => x.state = "absent" \/ x.action # 0
         /\ y.polls + y.stale <= x.polls + x.stale
  <1>0. x.polls \in Nat /\ x.stale \in Nat
    BY FieldTypes
  <1>1. y \in Connection
    <2>1. CASE x.polls > 0 /\ y = [x EXCEPT !.polls = @ - 1]
      <3>1. x.polls - 1 \in Nat
        BY <1>0, <2>1
      <3>2. QED
        BY <2>1, <3>1, Zenon DEF Connection
    <2>2. CASE x.stale > 0 /\ y = [x EXCEPT !.stale = @ - 1]
      <3>1. x.stale - 1 \in Nat
        BY <1>0, <2>2
      <3>2. QED
        BY <2>2, <3>1, Zenon DEF Connection
    <2>3. QED
      BY <2>1, <2>2
  <1>2. /\ Kept(x, y) /\ y.state = x.state /\ y.easy = x.easy /\ y.action = x.action
        /\ y.socket = x.socket /\ y.aborted = x.aborted
    BY <1>1 DEF Connection, Kept
  <1>3. \/ x.polls > 0 /\ y.polls = x.polls - 1 /\ y.stale = x.stale
        \/ x.stale > 0 /\ y.polls = x.polls /\ y.stale = x.stale - 1
    BY <1>1 DEF Connection
  <1>4. x.life = "handled"
    BY <1>0, <1>3 DEF Rest, Idle, Common
  <1>5. Rest(y)
    BY <1>2, <1>4 DEF Rest, Idle, Common, Kept
  <1>6. SocketOk(x) => x.state = "absent" \/ x.action # 0
    BY <1>0, <1>3 DEF SocketOk
  <1>7. SocketOk(x) => SocketOk(y)
    BY <1>2, <1>6 DEF SocketOk
  <1>8. y.polls + y.stale <= x.polls + x.stale
    BY <1>0, <1>3
  <1>9. QED
    BY <1>1, <1>2, <1>4, <1>5, <1>6, <1>7, <1>8

\* A request is submitted.
LEMMA SubmitStep ==
  ASSUME NEW x \in Connection, Rest(x), x.life = "new",
         NEW y, y = [x EXCEPT !.life = "submitted"]
  PROVE  /\ y \in Connection /\ Rest(y) /\ y.life = "submitted" /\ y.promise = x.promise
         /\ y.cancelled = x.cancelled /\ y.state = x.state /\ y.action = x.action
         /\ y.state = "absent" /\ y.polls = x.polls /\ y.stale = x.stale
  <1>1. y \in Connection
    BY Zenon DEF Connection
  <1>2. /\ y.life = "submitted" /\ y.promise = x.promise /\ y.notified = x.notified
        /\ y.cancelled = x.cancelled /\ y.state = x.state /\ y.action = x.action
        /\ y.posted = x.posted /\ y.easy = x.easy /\ y.polls = x.polls
        /\ y.stale = x.stale /\ y.aborted = x.aborted
    BY <1>1 DEF Connection
  <1>3. x.state = "absent"
    BY DEF Rest, Idle, Common
  <1>4. Rest(y)
    BY <1>2, <1>3 DEF Rest, Idle, Common
  <1>5. QED
    BY <1>1, <1>2, <1>3, <1>4

\* A result is handed over.
LEMMA DeliverStep ==
  ASSUME NEW x \in Connection, Rest(x), NEW y, y = [x EXCEPT !.posted = FALSE]
  PROVE  /\ y \in Connection /\ Rest(y) /\ y.life = x.life /\ y.promise = x.promise
         /\ y.cancelled = x.cancelled /\ y.state = x.state /\ y.action = x.action
         /\ y.notified = x.notified /\ ~y.posted /\ (SocketOk(x) => SocketOk(y))
         /\ y.polls = x.polls /\ y.stale = x.stale
  <1>1. y \in Connection
    <2>1. FALSE \in BOOLEAN
      OBVIOUS
    <2>2. QED
      BY <2>1, Zenon DEF Connection
  <1>2. /\ y.life = x.life /\ y.promise = x.promise /\ y.notified = x.notified
        /\ y.cancelled = x.cancelled /\ y.state = x.state /\ y.action = x.action
        /\ ~y.posted /\ y.easy = x.easy /\ y.polls = x.polls /\ y.socket = x.socket
        /\ y.stale = x.stale /\ y.aborted = x.aborted
    BY <1>1 DEF Connection
  <1>3. Rest(y)
    BY <1>2 DEF Rest, Idle, Common
  <1>4. SocketOk(x) => SocketOk(y)
    BY <1>2 DEF SocketOk
  <1>5. QED
    BY <1>1, <1>2, <1>3, <1>4
============================================================================
