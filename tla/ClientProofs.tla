---------------------------- MODULE ClientProofs ----------------------------
(***************************************************************************)
(* What ClientManager keeps for any number of requests, of threads that    *)
(* cancel them and of waits: the tasks that cancel, the reactor and the    *)
(* calls of the other threads keep the inductive invariant of ClientTasks, *)
(* and the theorems that follow from it.                                   *)
(***************************************************************************)
EXTENDS ClientTasks

----------------------------------------------------------------------------
(* cancel_connection_io_thread.                                            *)

\* The task of a caller is gone: the caller has come back, or its promise is kept.
LEMMA CallerAnswered ==
  ASSUME Types, CallerInv, WaitersKnown, ioq # <<>>, NEW c, Shifted(c), Known,
         ioq[1].t = "cancel",
         caller' \in [Cancellers -> [at : Places, r : Requests \cup {"none"}]],
         \A j \in Cancellers \ {ioq[1].by} : caller'[j] = caller[j],
         \A s \in Requests \ {ioq[1].r} : conn'[s].promise = conn[s].promise,
         \/ /\ caller'[ioq[1].by].at \in {"idle", "threw"}
            /\ conn'[ioq[1].r].promise = conn[ioq[1].r].promise
         \/ caller' = caller /\ conn'[ioq[1].r].promise = ioq[1].by
                             /\ conn[ioq[1].r].promise = "nobody"
  PROVE  CallerInv' /\ WaitersKnown'
  <1> DEFINE r == ioq[1].r
             k == ioq[1].by
  <1>0. /\ ioq \in Seq(Tasks) /\ Len(ioq) \in Nat /\ 1 \in 1..Len(ioq)
        /\ \A i \in 1..Len(ioq) : ioq[i] \in Tasks
    BY DEF Types
  <1>1. ioq' \in Seq(Tasks) /\ Len(ioq') \in Nat
    BY DEF Shifted
  <1>2. \A i \in 1..Len(ioq') : ioq'[i].t # "performOp" =>
          i + 1 \in 2..Len(ioq) /\ i + 1 \in 1..Len(ioq) /\ ioq'[i] = ioq[i + 1]
    BY <1>0, <1>1 DEF Shifted
  <1>3. r \in Requests /\ k \in Cancellers
    BY <1>0, TaskShape
  <1>4. Waiting(k, r) /\ \A s \in Requests : conn[s].promise # k
    BY <1>0 DEF CallerInv
  <1>5. "nobody" \notin Cancellers
    BY WhoCancels
  <1> HIDE DEF r, k
  <1>6. ASSUME NEW i \in 1..Len(ioq'), ioq'[i].t = "cancel"
        PROVE  /\ ioq'[i].by \in Cancellers /\ ioq'[i].by # k
               /\ caller'[ioq'[i].by].at = "waiting" /\ caller'[ioq'[i].by].r = ioq'[i].r
               /\ \A s \in Requests : conn'[s].promise # ioq'[i].by
    <2>1. i + 1 \in 2..Len(ioq) /\ i + 1 \in 1..Len(ioq) /\ ioq'[i] = ioq[i + 1]
      BY <1>2, <1>6
    <2>2. ioq[i + 1].by \in Cancellers /\ ioq[i + 1].t = "cancel"
      BY <1>0, <1>6, <2>1, TaskShape
    <2>3. /\ Waiting(ioq[i + 1].by, ioq[i + 1].r)
          /\ \A s \in Requests : conn[s].promise # ioq[i + 1].by
      BY <2>1, <2>2, Zenon DEF CallerInv
    <2>4. ioq[i + 1].by # k
      <3>1. ioq[i + 1].by = ioq[1].by => i + 1 = 1
        BY <1>0, <2>1, <2>2 DEF CallerInv
      <3>2. QED
        BY <2>1, <3>1 DEF k
    <2>5. caller'[ioq[i + 1].by] = caller[ioq[i + 1].by]
      BY <2>2, <2>4 DEF k
    <2>6. \A s \in Requests : conn'[s].promise \in {conn[s].promise, k}
      BY DEF k, r
    <2>7. QED
      BY <2>1, <2>2, <2>3, <2>4, <2>5, <2>6 DEF Waiting
  <1>7. ASSUME NEW i \in 1..Len(ioq'), NEW j \in 1..Len(ioq'),
               ioq'[i].t = "cancel", ioq'[j].t = "cancel", ioq'[i].by = ioq'[j].by
        PROVE  i = j
    <2>1. i + 1 \in 1..Len(ioq) /\ ioq'[i] = ioq[i + 1]
      BY <1>2, <1>7
    <2>2. j + 1 \in 1..Len(ioq) /\ ioq'[j] = ioq[j + 1]
      BY <1>2, <1>7
    <2>3. i + 1 = j + 1
      BY <1>7, <2>1, <2>2 DEF CallerInv
    <2>4. QED
      BY <2>3, <1>1
  <1>8. ASSUME NEW s \in Requests, conn'[s].promise \in Cancellers
        PROVE  caller'[conn'[s].promise].at = "waiting" /\ caller'[conn'[s].promise].r = s
    <2>1. CASE conn'[s].promise = conn[s].promise
      <3>1. Waiting(conn[s].promise, s) /\ conn[s].promise # k
        BY <1>4, <1>8, <2>1 DEF CallerInv
      <3>2. QED
        BY <1>8, <2>1, <3>1 DEF Waiting, k
    <2>2. CASE conn'[s].promise # conn[s].promise
      <3>1. s = r /\ caller' = caller /\ conn'[s].promise = k
        BY <2>2 DEF r, k
      <3>2. QED
        BY <1>4, <3>1 DEF Waiting
    <2>3. QED
      BY <2>1, <2>2
  <1>9. \A j \in Cancellers : caller'[j].at \in {"flagged", "waiting"} => caller'[j] = caller[j]
    BY DEF k
  <1>10. ASSUME NEW j \in Cancellers, caller'[j].at \in {"flagged", "waiting"}
         PROVE  caller'[j].r \in Requests /\ conn'[caller'[j].r].life # "new"
    <2>1. caller'[j] = caller[j]
      BY <1>9, <1>10
    <2>2. caller[j].r \in Requests /\ conn[caller[j].r].life # "new"
      BY <1>10, <2>1 DEF CallerInv
    <2>3. QED
      BY <2>1, <2>2 DEF Known
  <1>11. CallerInv'
    <2>1. (\A i \in 1..Len(ioq) : ioq[i].t = "cancel" => Waiting(ioq[i].by, ioq[i].r))'
      BY <1>6 DEF Waiting
    <2>2. (\A s \in Requests, i \in 1..Len(ioq) :
             ioq[i].t = "cancel" => conn[s].promise # ioq[i].by)'
      BY <1>6
    <2>3. (\A s \in Requests : conn[s].promise \in Cancellers => Waiting(conn[s].promise, s))'
      BY <1>8 DEF Waiting
    <2>4. (\A i, j \in 1..Len(ioq) :
             ioq[i].t = "cancel" /\ ioq[j].t = "cancel" /\ ioq[i].by = ioq[j].by => i = j)'
      BY <1>7
    <2>5. QED
      BY <1>10, <2>1, <2>2, <2>3, <2>4, Zenon DEF CallerInv
  <1>12. ASSUME NEW j \in Cancellers, caller'[j].at = "waiting"
         PROVE  \/ \E s \in Requests : conn'[s].promise = j
                \/ \E i \in 1..Len(ioq') : ioq'[i].t = "cancel" /\ ioq'[i].by = j
    <2>1. caller[j].at = "waiting" /\ (j = k => conn'[r].promise = k)
      BY <1>9, <1>12 DEF k, r
    <2>2. CASE j = k
      BY <1>3, <2>1, <2>2
    <2>3. CASE \E s \in Requests : conn[s].promise = j
      <3>1. PICK s \in Requests : conn[s].promise = j
        BY <2>3
      <3>2. conn'[s].promise = conn[s].promise
        BY <1>5, <3>1 DEF r
      <3>3. QED
        BY <3>1, <3>2
    <2>4. CASE j # k /\ \E i \in 1..Len(ioq) : ioq[i].t = "cancel" /\ ioq[i].by = j
      <3>1. PICK i \in 1..Len(ioq) : ioq[i].t = "cancel" /\ ioq[i].by = j
        BY <2>4
      <3>2. i \in 2..Len(ioq)
        BY <1>0, <2>4, <3>1 DEF k
      <3>3. QED
        BY <3>1, <3>2 DEF Shifted
    <2>5. QED
      BY <2>1, <2>2, <2>3, <2>4 DEF WaitersKnown
  <1>13. QED
    BY <1>11, <1>12 DEF WaitersKnown

\* The end of a task that cancels.
LEMMA CancelTaskEnds ==
  ASSUME IInv, First("cancel"), NEW e \in [Requests -> Connection], EndTask(e),
         armed' = armed, running' = running, dtor' = dtor, crashed' \in BOOLEAN,
         ~CurlGaps /\ ~PollErrors => ~crashed',
         caller' \in [Cancellers -> [at : Places, r : Requests \cup {"none"}]],
         \A j \in Cancellers \ {ioq[1].by} : caller'[j] = caller[j],
         \A s \in Requests \ {ioq[1].r} : e[s] = conn[s],
         \/ /\ e[ioq[1].r] = conn[ioq[1].r]
            /\ conn[ioq[1].r].state \in {"absent", "Cancelled"}
            /\ caller'[ioq[1].by].at \in {"idle", "threw"}
         \/ /\ conn[ioq[1].r].state \notin {"absent", "Cancelled"} /\ caller' = caller
            /\ e[ioq[1].r] = cancel_connection(conn[ioq[1].r], ioq[1].by)
  PROVE  IInv'
  <1> DEFINE r == ioq[1].r
             k == ioq[1].by
  <1>1. /\ Types /\ ConnInv /\ HandleInv /\ CallerInv /\ WaitersKnown /\ DtorInv
        /\ OrderlyInv /\ SocketInv
    BY DEF IInv
  <1>2. /\ ioq # <<>> /\ ioq[1].t = "cancel" /\ ioq[1] \in Tasks /\ 1 \in 1..Len(ioq)
        /\ conn \in [Requests -> Connection] /\ armed \in BOOLEAN /\ running \in BOOLEAN
        /\ \A s \in Requests : conn[s] \in Connection /\ Rest(conn[s])
    BY FirstTask, Zenon
  <1>3. r \in Requests /\ k \in Cancellers
    BY <1>2, TaskShape
  <1>4. Waiting(k, r) /\ k # "nobody" /\ k \in Who
    <2>1. Waiting(k, r)
      BY <1>1, <1>2 DEF CallerInv
    <2>2. k # "nobody" /\ k \in Who
      BY <1>3, WhoCancels, Zenon
    <2>3. QED
      BY <2>1, <2>2, Zenon
  <1>5. \/ e[r] = conn[r] /\ conn[r].state \in {"absent", "Cancelled"}
           /\ caller'[k].at \in {"idle", "threw"}
        \/ /\ conn[r].state \notin {"absent", "Cancelled"} /\ caller' = caller
           /\ conn[r].promise = "nobody"
           /\ Idle(e[r]) /\ e[r].state = "Cancelled" /\ e[r].promise = k
           /\ e[r].life = conn[r].life /\ e[r].action = conn[r].action
           /\ SocketOk(conn[r]) => SocketOk(e[r])
    <2>1. CASE conn[r].state \notin {"absent", "Cancelled"}
      <3>1. conn[r].promise = "nobody"
        BY <1>2, <1>3, <2>1 DEF Rest, Idle
      <3>2. k \in Who \ {"nobody"} /\ conn[r] \in Connection /\ Rest(conn[r])
        BY <1>2, <1>3, <1>4, Zenon
      <3> DEFINE y == cancel_connection(conn[r], k)
      <3>3. /\ Idle(y) /\ y.state = "Cancelled" /\ y.promise = k
            /\ y.life = conn[r].life /\ y.action = conn[r].action
            /\ SocketOk(conn[r]) => SocketOk(y)
        BY <2>1, <3>2, CancelStep
      <3>4. e[r] = y /\ caller' = caller
        BY <2>1
      <3> HIDE DEF y, r, k
      <3>5. QED
        BY <2>1, <3>1, <3>3, <3>4, Zenon
    <2>2. CASE conn[r].state \in {"absent", "Cancelled"}
      BY <2>2, Zenon
    <2>3. QED
      BY <2>1, <2>2, Zenon
  <1>6. \A s \in Requests \ {r} : e[s] = conn[s]
    OBVIOUS
  <1>7. \A j \in Cancellers \ {k} : caller'[j] = caller[j]
    OBVIOUS
  <1> HIDE DEF r, k
  <1>8. \A s \in Requests :
          /\ Idle(e[s]) /\ e[s].life = conn[s].life /\ e[s].action = conn[s].action
          /\ e[s].state = "absent" <=> conn[s].state = "absent"
          /\ e[s] = conn[s] \/ e[s].state = "Cancelled"
    BY <1>2, <1>5, <1>6 DEF Rest
  <1>9. /\ Shifted(e) /\ conn' = [s \in Requests |-> [e[s] EXCEPT !.aborted = 0]]
        /\ conn' \in [Requests -> Connection] /\ ioq' \in Seq(Tasks) /\ dtor' \in Phases
        /\ ConnInv' /\ HandleInv' /\ DtorInv' /\ Known /\ PhaseKept
        /\ \A s \in Requests :
             /\ conn'[s].state = e[s].state /\ conn'[s].promise = e[s].promise
             /\ conn'[s].cancelled = e[s].cancelled
    <2>1. /\ \A s \in Requests : IF ThisRequest(s) THEN e[s].life \in {"handled", "dropped"}
                                 ELSE e[s].life = conn[s].life
          /\ ioq[1].t # "shutdown" /\ \A s \in Requests : Idle(e[s])
      BY <1>2, <1>8, Zenon DEF ThisRequest
    <2>2. QED
      BY <1>1, <1>2, <2>1, EndsTask, Zenon
  <1>10. Types'
    BY <1>2, <1>9, Zenon DEF Types
  <1>11. CallerInv' /\ WaitersKnown'
    <2>1. /\ \A s \in Requests \ {ioq[1].r} : conn'[s].promise = conn[s].promise
          /\ \/ /\ caller'[ioq[1].by].at \in {"idle", "threw"}
                /\ conn'[ioq[1].r].promise = conn[ioq[1].r].promise
             \/ caller' = caller /\ conn'[ioq[1].r].promise = ioq[1].by
                                 /\ conn[ioq[1].r].promise = "nobody"
      BY <1>3, <1>5, <1>6, <1>9 DEF r, k
    <2>2. QED
      BY <1>1, <1>2, <1>9, <2>1, CallerAnswered, Zenon
  <1>12. OrderlyInv'
    <2>1. ASSUME NEW j \in Cancellers
          PROVE  \/ caller'[j] = caller[j]
                 \/ /\ caller'[j].at \in {"idle", "threw"}
                    /\ \A s \in Requests : conn'[s].state \notin {"absent", "Cancelled"} =>
                                             caller[j].r # s
      BY <1>4, <1>5, <1>7, <1>9 DEF Waiting
    <2>2. \A s \in Requests : conn'[s].state # "absent" =>
            \/ conn'[s].state = "Cancelled" \/ ~conn'[s].cancelled
            \/ /\ conn[s].state \notin {"absent", "Cancelled"}
               /\ conn'[s].cancelled = conn[s].cancelled
      BY <1>8, <1>9
    <2>3. ~LateCalls /\ Stopped => FALSE
      BY <1>1, <1>3, <1>4, Zenon DEF OrderlyInv, Stopped, Calling, Waiting
    <2>4. QED
      BY <1>1, <1>2, <1>9, <2>1, <2>2, <2>3, OrderlyTask, Zenon
  <1>13. SocketInv'
    <2> SUFFICES ASSUME ~CurlGaps, ~PollErrors PROVE SocketInv'
      BY Zenon DEF SocketInv
    <2>1. \A s \in Requests : SocketOk(e[s])
      BY <1>1, <1>5, <1>6, Zenon DEF SocketInv
    <2>2. ASSUME NEW s \in Requests, NEW i \in 1..Len(ioq),
                 e[s].state # "absent", e[s].action = 0
          PROVE  ioq[i].t # "performOp" \/ ioq[i].r # s
      BY <1>1, <1>8, <2>2, Zenon DEF SocketInv
    <2>3. ioq \in Seq(Tasks) /\ ~crashed'
      BY <1>1, Zenon DEF Types
    <2>4. QED
      BY <1>2, <1>8, <2>1, <2>2, <2>3, SocketTask
  <1>14. QED
    BY <1>9, <1>10, <1>11, <1>12, <1>13, Zenon DEF IInv

\* cancel_connection_io_thread keeps the invariant.
LEMMA CancelTaskStep ==
  ASSUME IInv, cancel_connection_io_thread
  PROVE  IInv'
  <1> DEFINE r == ioq[1].r
             k == ioq[1].by
             e == [conn EXCEPT ![r] = cancel_connection(conn[r], k)]
  <1>1. /\ First("cancel") /\ armed' = armed /\ running' = running /\ dtor' = dtor
    BY DEF cancel_connection_io_thread
  <1>2. /\ ioq[1] \in Tasks /\ ioq[1].t = "cancel" /\ Head(ioq) = ioq[1]
        /\ conn \in [Requests -> Connection] /\ crashed \in BOOLEAN
        /\ \A s \in Requests : conn[s] \in Connection /\ Rest(conn[s])
    BY <1>1, FirstTask, Zenon
  <1>3. r \in Requests /\ k \in Cancellers
    BY <1>2, TaskShape
  <1>4. \/ /\ conn[r].state \in {"absent", "Cancelled"} /\ EndTask(conn)
           /\ crashed' = crashed
           /\ \E at \in {"idle", "threw"} :
                caller' = [caller EXCEPT ![k] = [at |-> at, r |-> "none"]]
        \/ /\ conn[r].state \notin {"absent", "Cancelled"} /\ EndTask(e)
           /\ crashed' = (conn[r].state = "Polling" /\ conn[r].socket = "deleted")
           /\ caller' = caller
    BY <1>2, Zenon DEF cancel_connection_io_thread
  <1>5. /\ caller \in [Cancellers -> [at : Places, r : Requests \cup {"none"}]]
        /\ ~CurlGaps /\ ~PollErrors => ~crashed /\ \A s \in Requests : SocketOk(conn[s])
    BY DEF IInv, Types, SocketInv
  <1>6. CASE conn[r].state \in {"absent", "Cancelled"}
    <2>1. PICK at \in {"idle", "threw"} :
            caller' = [caller EXCEPT ![k] = [at |-> at, r |-> "none"]]
      BY <1>4, <1>6
    <2>2. [at |-> at, r |-> "none"] \in [at : Places, r : Requests \cup {"none"}]
      BY DEF Places
    <2>3. /\ caller' \in [Cancellers -> [at : Places, r : Requests \cup {"none"}]]
          /\ \A j \in Cancellers \ {k} : caller'[j] = caller[j]
          /\ caller'[k].at \in {"idle", "threw"}
      BY <1>3, <1>5, <2>1, <2>2, Zenon
    <2>4. EndTask(conn) /\ crashed' \in BOOLEAN /\ (~CurlGaps /\ ~PollErrors => ~crashed')
      BY <1>2, <1>4, <1>5, <1>6
    <2>5. QED
      BY <1>1, <1>2, <1>6, <2>3, <2>4, CancelTaskEnds, Zenon
  <1>7. CASE conn[r].state \notin {"absent", "Cancelled"}
    <2>1. /\ EndTask(e) /\ caller' = caller
          /\ crashed' = (conn[r].state = "Polling" /\ conn[r].socket = "deleted")
      BY <1>4, <1>7
    <2>2. crashed' \in BOOLEAN
      BY <2>1
    <2>3. ~CurlGaps /\ ~PollErrors => ~crashed'
      BY <1>3, <1>5, <2>1, Zenon DEF SocketOk
    <2> DEFINE y == cancel_connection(conn[r], k)
    <2>4. y \in Connection
      <3>1. k \in Who \ {"nobody"} /\ conn[r] \in Connection /\ Rest(conn[r])
        BY <1>2, <1>3, WhoCancels
      <3>2. QED
        BY <1>7, <3>1, CancelStep
    <2>5. e = [conn EXCEPT ![r] = y]
      OBVIOUS
    <2> HIDE DEF y, e
    <2>6. /\ e \in [Requests -> Connection] /\ e[r] = y
          /\ \A s \in Requests \ {r} : e[s] = conn[s]
      BY <1>2, <1>3, <2>4, <2>5
    <2>7. e[r] = cancel_connection(conn[r], k)
      BY <2>6 DEF y
    <2>8. caller' \in [Cancellers -> [at : Places, r : Requests \cup {"none"}]]
      BY <1>5, <2>1
    <2>9. QED
      BY <1>1, <1>7, <2>1, <2>2, <2>3, <2>6, <2>7, <2>8, CancelTaskEnds, Zenon
  <1>8. QED
    BY <1>6, <1>7

----------------------------------------------------------------------------
(* The first task of the destructor.                                       *)

\* The first task of the destructor keeps the invariant.
LEMMA ShutdownStep ==
  ASSUME IInv, Shutdown
  PROVE  IInv'
  <1> DEFINE e == [r \in Requests |-> StopOf(conn[r])]
  <1>1. /\ First("shutdown") /\ armed' = armed /\ running' = FALSE /\ dtor' = "futures"
        /\ caller' = caller
    BY DEF Shutdown
  <1>2. EndTask(e)
    BY Zenon DEF Shutdown, StopOf
  <1>3. crashed' = \E r \in Requests : /\ conn[r].state # "absent" /\ ~conn[r].cancelled
                                       /\ conn[r].state = "Polling"
                                       /\ conn[r].socket = "deleted"
    BY DEF Shutdown
  <1>4. /\ Types /\ ConnInv /\ HandleInv /\ CallerInv /\ WaitersKnown /\ DtorInv
        /\ OrderlyInv /\ SocketInv
    BY DEF IInv
  <1>5. /\ ioq # <<>> /\ ioq[1].t = "shutdown" /\ 1 \in 1..Len(ioq)
        /\ conn \in [Requests -> Connection] /\ armed \in BOOLEAN
        /\ \A s \in Requests : conn[s] \in Connection /\ Rest(conn[s])
    BY <1>1, FirstTask, Zenon
  <1>6. ASSUME NEW s \in Requests PROVE Stops(conn[s], e[s]) /\ e[s] \in Connection
    <2>1. Stops(conn[s], StopOf(conn[s]))
      BY <1>5, StopStep, Zenon
    <2>2. QED
      BY <2>1, Zenon DEF Stops
  <1>7. e \in [Requests -> Connection]
    BY <1>6, Zenon
  <1> HIDE DEF e
  <1>8. ioq \in Seq(Tasks) /\ \A s \in Requests : Idle(e[s])
    BY <1>4, <1>6 DEF Types, Stops
  <1>9. Shifted(e) /\ conn' = [r \in Requests |-> [e[r] EXCEPT !.aborted = 0]]
    BY <1>2, <1>5, <1>7, <1>8, QueueStep, Zenon
  <1>10. /\ conn' \in [Requests -> Connection] /\ ConnInv' /\ ioq' \in Seq(Tasks)
         /\ \A s \in Requests : Kept(e[s], conn'[s]) /\ conn'[s].state = e[s].state
    BY <1>7, <1>8, <1>9, RestAll, Zenon DEF Shifted
  <1>11. \A s \in Requests :
           /\ conn'[s].life = conn[s].life
           /\ \/ /\ conn'[s].state = conn[s].state /\ conn'[s].promise = conn[s].promise
                 /\ conn'[s].state # "absent" => conn[s].cancelled
              \/ /\ conn'[s].state = "Cancelled" /\ conn[s].state = "Cancelled"
                 /\ conn'[s].promise = conn[s].promise
              \/ /\ conn'[s].state = "Cancelled" /\ conn[s].state # "absent"
                 /\ conn[s].promise = "nobody" /\ conn'[s].promise = "dtor"
    BY <1>6, <1>10 DEF Stops, Kept
  <1>12. HandleInv'
    <2>1. /\ LifeStep /\ \A s \in Requests : e[s].aborted # 0 => conn'[s].life = "handled"
      BY <1>5, <1>8, <1>10, <1>11 DEF LifeStep, Idle, Common, Kept
    <2>2. QED
      BY <1>4, <1>5, <1>8, <1>9, <2>1, HandleInvTask, Zenon
  <1>13. DtorInv'
    BY <1>4, <1>5, <1>8, <1>9, DtorInvTask
  <1>14. CallerInv' /\ WaitersKnown'
    <2>1. Known /\ ioq[1].t # "cancel"
      BY <1>5, <1>11 DEF Known
    <2>2. QED
      BY <1>1, <1>4, <1>5, <1>9, <1>11, <2>1, CallerKept, Zenon
  <1>15. crashed' \in BOOLEAN
    BY <1>3
  <1>16. Types'
    <2>1. caller' \in [Cancellers -> [at : Places, r : Requests \cup {"none"}]]
      BY <1>1, <1>4 DEF Types
    <2>2. armed' \in BOOLEAN /\ running' \in BOOLEAN /\ dtor' \in Phases
      BY <1>1, <1>5, Zenon DEF Phases
    <2>3. QED
      BY <1>10, <1>15, <2>1, <2>2 DEF Types
  <1>17. OrderlyInv'
    <2> SUFFICES ASSUME ~LateCalls PROVE OrderlyInv'
      BY DEF OrderlyInv
    <2>1. dtor = "shutdown"
      BY <1>4, <1>5 DEF DtorInv
    <2>2. Calling = {} /\ Calling' = {}
      BY <1>1, <1>4, <2>1 DEF OrderlyInv, Calling
    <2>3. /\ \A i, j \in 1..Len(ioq') : ioq'[i].t = "handle" /\ ioq'[j].t = "shutdown" => i < j
          /\ \A i \in 1..Len(ioq') : ioq'[i].t # "handle"
      <3>1. Stopped'
        BY <1>1 DEF Stopped
      <3>2. QED
        BY <1>4, <1>5, <1>8, <1>9, <3>1, OrderlyQueueTask
    <2>4. ASSUME NEW r \in Requests, conn'[r].state # "absent"
          PROVE  conn'[r].state = "Cancelled" /\ conn'[r].promise = "dtor"
      <3>1. conn[r].cancelled /\ conn[r].state # "absent" => conn[r].state = "Cancelled"
        BY <1>4, <2>2 DEF OrderlyInv
      <3>2. conn[r].promise \notin Cancellers
        BY <1>4, <2>2 DEF CallerInv, Waiting, Calling
      <3>3. conn'[r].state = "Cancelled"
        BY <1>11, <2>4, <3>1
      <3>4. conn[r].promise \in Who /\ (conn[r].state = "Cancelled" => conn[r].promise # "nobody")
        <4>1. conn[r] \in Connection /\ Rest(conn[r])
          BY <1>5
        <4>2. QED
          BY <4>1, FieldTypes DEF Rest, Idle
      <3>5. conn[r].state = "Cancelled" => conn[r].promise = "dtor"
        BY <3>2, <3>4 DEF Who
      <3>6. QED
        BY <1>11, <3>3, <3>5
    <2>5. dtor' \notin {"checking", "cleanup", "deleted"}
      BY <1>1
    <2>6. QED
      BY <2>2, <2>3, <2>4, <2>5 DEF OrderlyInv
  <1>18. SocketInv'
    <2> SUFFICES ASSUME ~CurlGaps, ~PollErrors PROVE SocketInv'
      BY DEF SocketInv
    <2>1. \A s \in Requests : SocketOk(conn[s]) /\ SocketOk(e[s])
      BY <1>4, <1>6 DEF SocketInv, Stops
    <2>2. ~crashed'
      BY <1>3, <2>1 DEF SocketOk
    <2>3. ASSUME NEW s \in Requests, NEW i \in 1..Len(ioq),
                 e[s].state # "absent", e[s].action = 0
          PROVE  ioq[i].t # "performOp" \/ ioq[i].r # s
      <3>1. conn[s].action = 0 /\ conn[s].state # "absent"
        BY <1>6, <2>3 DEF Stops
      <3>2. QED
        BY <1>4, <3>1 DEF SocketInv
    <2>4. QED
      BY <1>2, <1>5, <1>7, <1>8, <2>1, <2>2, <2>3, SocketTask
  <1>19. QED
    BY <1>4, <1>10, <1>12, <1>13, <1>14, <1>16, <1>17, <1>18, Zenon DEF IInv

----------------------------------------------------------------------------
(* The reactor and the other threads.                                      *)

\* A task that is posted comes last.
Posts(t) ==
  /\ ioq' \in Seq(Tasks) /\ Len(ioq') \in Nat
  /\ \A i \in 1..Len(ioq) : i \in 1..Len(ioq') /\ ioq'[i] = ioq[i]
  /\ \A i \in 1..Len(ioq') : \/ i \in 1..Len(ioq) /\ ioq'[i] = ioq[i]
                             \/ i = Len(ioq') /\ ioq'[i] = t
  /\ Len(ioq') = Len(ioq) + 1 /\ Len(ioq') \in 1..Len(ioq') /\ ioq'[Len(ioq')] = t

\* A task that is posted comes behind those that are queued.
LEMMA PostStep ==
  ASSUME ioq \in Seq(Tasks), NEW t \in Tasks, ioq' = Append(ioq, t)
  PROVE  Posts(t)
  BY DEF Posts

\* HandleInv when a task is posted.
LEMMA HandleInvPost ==
  ASSUME ioq \in Seq(Tasks), HandleInv, NEW t \in Tasks, Posts(t), t.t # "handle",
         t.t = "performOp" => conn[t.r].life = "handled",
         \A s \in Requests : conn'[s].life = conn[s].life
  PROVE  HandleInv'
  <1>0. Len(ioq) \in Nat /\ \A i \in 1..Len(ioq) : ioq[i] \in Tasks
    OBVIOUS
  <1>1. ASSUME NEW i \in 1..Len(ioq')
        PROVE  /\ ioq'[i].t = "handle" => conn'[ioq'[i].r].life = "submitted"
               /\ ioq'[i].t = "performOp" => conn'[ioq'[i].r].life = "handled"
    <2>1. ioq'[i] \in Tasks
      BY DEF Posts
    <2>2. ioq'[i].t \in {"handle", "performOp"} => conn'[ioq'[i].r].life = conn[ioq'[i].r].life
      BY <2>1, TaskShape, Zenon
    <2>3. QED
      BY <2>2 DEF HandleInv, Posts
  <1>2. ASSUME NEW i \in 1..Len(ioq'), NEW j \in 1..Len(ioq'), ioq'[i].t = "handle",
               ioq'[i].r = ioq'[j].r
        PROVE  /\ ioq'[j].t = "handle" => i = j
               /\ ioq'[j].t = "cancel" => i < j
    <2>1. i \in 1..Len(ioq) /\ ioq'[i] = ioq[i]
      BY <1>2 DEF Posts
    <2>2. CASE j \in 1..Len(ioq) /\ ioq'[j] = ioq[j]
      BY <1>2, <2>1, <2>2 DEF HandleInv
    <2>3. CASE j = Len(ioq') /\ ioq'[j] = t
      BY <1>0, <2>1, <2>3 DEF Posts
    <2>4. QED
      BY <2>2, <2>3, Zenon DEF Posts
  <1>3. ASSUME NEW r \in Requests, conn'[r].life = "submitted"
        PROVE  \E i \in 1..Len(ioq') : ioq'[i].t = "handle" /\ ioq'[i].r = r
    <2>1. PICK i \in 1..Len(ioq) : ioq[i].t = "handle" /\ ioq[i].r = r
      BY <1>3 DEF HandleInv
    <2>2. QED
      BY <2>1 DEF Posts
  <1>4. QED
    BY <1>1, <1>2, <1>3 DEF HandleInv

\* CallerInv and WaitersKnown when a task is posted that cancels nothing.
LEMMA CallerPost ==
  ASSUME Types, CallerInv, WaitersKnown, NEW t \in Tasks, Posts(t), t.t # "cancel",
         caller' = caller, Known, \A s \in Requests : conn'[s].promise = conn[s].promise
  PROVE  CallerInv' /\ WaitersKnown'
  <1>1. \A i \in 1..Len(ioq') : ioq'[i].t = "cancel" => i \in 1..Len(ioq) /\ ioq'[i] = ioq[i]
    BY DEF Posts
  <1>2. (\A i \in 1..Len(ioq) : ioq[i].t = "cancel" => Waiting(ioq[i].by, ioq[i].r))'
    BY <1>1 DEF CallerInv, Waiting
  <1>3. (\A i, j \in 1..Len(ioq) :
           ioq[i].t = "cancel" /\ ioq[j].t = "cancel" /\ ioq[i].by = ioq[j].by => i = j)'
    <2> SUFFICES ASSUME NEW i \in 1..Len(ioq'), NEW j \in 1..Len(ioq'), ioq'[i].t = "cancel",
                        ioq'[j].t = "cancel", ioq'[i].by = ioq'[j].by
                 PROVE  i = j
      OBVIOUS
    <2>1. i \in 1..Len(ioq) /\ ioq'[i] = ioq[i] /\ j \in 1..Len(ioq) /\ ioq'[j] = ioq[j]
      BY <1>1
    <2>2. QED
      BY <2>1 DEF CallerInv
  <1>4. (\A r \in Requests : conn[r].promise \in Cancellers => Waiting(conn[r].promise, r))'
    BY DEF CallerInv, Waiting
  <1>5. (\A r \in Requests, i \in 1..Len(ioq) :
           ioq[i].t = "cancel" => conn[r].promise # ioq[i].by)'
    BY <1>1 DEF CallerInv
  <1>6. (\A k \in Cancellers : caller[k].at \in {"flagged", "waiting"} =>
           caller[k].r \in Requests /\ conn[caller[k].r].life # "new")'
    BY Zenon DEF CallerInv, Known
  <1>7. CallerInv'
    BY <1>2, <1>3, <1>4, <1>5, <1>6, Zenon DEF CallerInv
  <1>8. ASSUME NEW k \in Cancellers, caller'[k].at = "waiting"
        PROVE  \/ \E r \in Requests : conn'[r].promise = k
               \/ \E i \in 1..Len(ioq') : ioq'[i].t = "cancel" /\ ioq'[i].by = k
    <2>1. CASE \E r \in Requests : conn[r].promise = k
      BY <2>1
    <2>2. CASE \E i \in 1..Len(ioq) : ioq[i].t = "cancel" /\ ioq[i].by = k
      BY <2>2 DEF Posts
    <2>3. QED
      BY <1>8, <2>1, <2>2, Zenon DEF WaitersKnown
  <1>9. QED
    BY <1>7, <1>8 DEF WaitersKnown

\* The destructor posts its tasks in the phases they belong to.
LEMMA DtorInvPost ==
  ASSUME DtorInv, NEW t \in Tasks, Posts(t),
         \/ t.t \notin {"shutdown", "check"} /\ dtor' = dtor
         \/ t.t = "shutdown" /\ dtor = "alive" /\ dtor' = "shutdown"
         \/ t.t = "check" /\ dtor = "futures" /\ dtor' = "checking"
  PROVE  DtorInv'
  <1>1. CASE t.t \notin {"shutdown", "check"} /\ dtor' = dtor
    <2>1. \A i \in 1..Len(ioq') : ioq'[i].t \in {"shutdown", "check"} =>
            i \in 1..Len(ioq) /\ ioq'[i] = ioq[i]
      BY <1>1 DEF Posts
    <2>2. ASSUME NEW i \in 1..Len(ioq'), NEW j \in 1..Len(ioq'), ioq'[i].t = ioq'[j].t,
                 ioq'[i].t \in {"shutdown", "check"}
          PROVE  i = j
      <3>1. i \in 1..Len(ioq) /\ ioq'[i] = ioq[i] /\ j \in 1..Len(ioq) /\ ioq'[j] = ioq[j]
        BY <2>1, <2>2
      <3>2. QED
        BY <2>2, <3>1 DEF DtorInv
    <2>3. QED
      BY <1>1, <2>1, <2>2 DEF DtorInv
  <1>2. CASE t.t # "check" /\ dtor = "alive" /\ dtor' = "shutdown"
    <2>1. \A i \in 1..Len(ioq') : ioq'[i].t \in {"shutdown", "check"} =>
            i = Len(ioq') /\ ioq'[i] = t
      BY <1>2 DEF Posts, DtorInv
    <2>2. QED
      BY <1>2, <2>1 DEF DtorInv
  <1>3. CASE t.t = "check" /\ dtor = "futures" /\ dtor' = "checking"
    <2>1. \A i \in 1..Len(ioq') : ioq'[i].t \in {"shutdown", "check"} =>
            i = Len(ioq') /\ ioq'[i] = t
      BY <1>3 DEF Posts, DtorInv
    <2>2. QED
      BY <1>3, <2>1 DEF DtorInv
  <1>4. QED
    BY <1>1, <1>2, <1>3

\* A step of another thread or of the reactor leaves what orderly destruction is about.
LEMMA OrderlyPost ==
  ASSUME OrderlyInv, NEW t \in Tasks, Posts(t), t.t \notin {"handle", "shutdown"},
         caller' = caller, dtor' = dtor,
         \A s \in Requests : /\ conn'[s].state = conn[s].state
                             /\ conn'[s].promise = conn[s].promise
                             /\ conn'[s].cancelled = conn[s].cancelled
  PROVE  OrderlyInv'
  <1> SUFFICES ASSUME ~LateCalls PROVE OrderlyInv'
    BY DEF OrderlyInv
  <1>1. \A i \in 1..Len(ioq') : ioq'[i].t \in {"handle", "shutdown"} =>
          i \in 1..Len(ioq) /\ ioq'[i] = ioq[i]
    BY DEF Posts
  <1>2. /\ \A i, j \in 1..Len(ioq') : ioq'[i].t = "handle" /\ ioq'[j].t = "shutdown" => i < j
        /\ Stopped => \A i \in 1..Len(ioq') : ioq'[i].t # "handle"
    BY <1>1, Zenon DEF OrderlyInv
  <1>3. Stopped' = Stopped /\ Calling' = Calling
    BY DEF Stopped, Calling
  <1>4. QED
    BY <1>2, <1>3, Zenon DEF OrderlyInv

\* The records after a step on one of them that leaves its promise and its life.
LEMMA OneRecord ==
  ASSUME conn \in [Requests -> Connection], ConnInv, NEW r \in Requests,
         NEW y \in Connection, Rest(y), conn' = [conn EXCEPT ![r] = y]
  PROVE  /\ conn' \in [Requests -> Connection] /\ ConnInv'
         /\ \A s \in Requests : conn'[s] = IF s = r THEN y ELSE conn[s]
  <1>1. /\ conn' \in [Requests -> Connection]
        /\ \A s \in Requests : conn'[s] = IF s = r THEN y ELSE conn[s]
    OBVIOUS
  <1>2. QED
    BY <1>1 DEF ConnInv

\* The end of a wait keeps the invariant.
LEMMA PollReadyStep ==
  ASSUME IInv, NEW r \in Requests, PollReady(r)
  PROVE  IInv'
  <1>1. /\ Types /\ ConnInv /\ HandleInv /\ CallerInv /\ WaitersKnown /\ DtorInv
        /\ OrderlyInv /\ SocketInv
    BY DEF IInv
  <1>2. conn \in [Requests -> Connection] /\ ioq \in Seq(Tasks)
    BY <1>1 DEF Types
  <1>3. conn[r] \in Connection /\ Rest(conn[r])
    BY <1>1, <1>2 DEF ConnInv
  <1>4. UNCHANGED <<armed, running, crashed, caller, dtor>>
    BY DEF PollReady
  <1>5. PICK y : /\ \/ conn[r].polls > 0 /\ y = [conn[r] EXCEPT !.polls = @ - 1]
                    \/ conn[r].stale > 0 /\ y = [conn[r] EXCEPT !.stale = @ - 1]
                 /\ conn' = [conn EXCEPT ![r] = y]
    BY Zenon DEF PollReady
  <1>7. PICK ec \in Outcomes : ioq' = Append(ioq, PollTask(r, ec))
    BY Zenon DEF PollReady, Outcomes
  <1>8. /\ y \in Connection /\ Rest(y) /\ Kept(conn[r], y) /\ y.state = conn[r].state
        /\ y.action = conn[r].action /\ conn[r].life = "handled"
        /\ SocketOk(conn[r]) => SocketOk(y)
        /\ SocketOk(conn[r]) => conn[r].state = "absent" \/ conn[r].action # 0
    BY <1>3, <1>5, WaitStep, Zenon
  <1>9. /\ conn' \in [Requests -> Connection] /\ ConnInv'
        /\ \A s \in Requests : conn'[s] = IF s = r THEN y ELSE conn[s]
    BY <1>1, <1>2, <1>5, <1>8, OneRecord, Zenon
  <1>10. \A s \in Requests :
           /\ conn'[s].life = conn[s].life /\ conn'[s].promise = conn[s].promise
           /\ conn'[s].state = conn[s].state /\ conn'[s].action = conn[s].action
           /\ conn'[s].cancelled = conn[s].cancelled
    BY <1>8, <1>9, Zenon DEF Kept
  <1> DEFINE t == PollTask(r, ec)
  <1>11. t \in Tasks /\ t.t = "performOp" /\ t.r = r
    <2>1. t \in Tasks
      BY NewTask, Zenon
    <2>2. QED
      BY <2>1 DEF PollTask
  <1>12. Posts(t)
    BY <1>2, <1>7, <1>11, PostStep
  <1> HIDE DEF t
  <1>13. HandleInv'
    BY <1>1, <1>2, <1>8, <1>10, <1>11, <1>12, HandleInvPost, Zenon
  <1>14. CallerInv' /\ WaitersKnown'
    <2>1. Known
      BY <1>10 DEF Known
    <2>2. QED
      BY <1>1, <1>4, <1>10, <1>11, <1>12, <2>1, CallerPost, Zenon
  <1>15. DtorInv'
    BY <1>1, <1>4, <1>11, <1>12, DtorInvPost
  <1>16. OrderlyInv'
    BY <1>1, <1>4, <1>10, <1>11, <1>12, OrderlyPost, Zenon
  <1>17. SocketInv'
    <2> SUFFICES ASSUME ~CurlGaps, ~PollErrors PROVE SocketInv'
      BY DEF SocketInv
    <2>1. ~crashed' /\ \A s \in Requests : SocketOk(conn[s]) /\ SocketOk(conn'[s])
      BY <1>1, <1>4, <1>8, <1>9, Zenon DEF SocketInv
    <2>2. ASSUME NEW s \in Requests, NEW i \in 1..Len(ioq'),
                 conn'[s].state # "absent", conn'[s].action = 0
          PROVE  ioq'[i].t # "performOp" \/ ioq'[i].r # s
      <3>1. s # r /\ conn[s].state # "absent" /\ conn[s].action = 0
        BY <1>8, <1>10, <2>1, <2>2
      <3>2. QED
        BY <1>1, <1>11, <1>12, <3>1, Zenon DEF SocketInv, Posts
    <2>3. QED
      BY <2>1, <2>2, Zenon DEF SocketInv
  <1>18. Types'
    BY <1>1, <1>4, <1>9, <1>12, Zenon DEF Types, Posts
  <1>19. QED
    BY <1>9, <1>13, <1>14, <1>15, <1>16, <1>17, <1>18, Zenon DEF IInv

\* A task of the timer or of the destructor is posted.
LEMMA ManagerPost ==
  ASSUME IInv, NEW t \in Tasks, t.t \in {"timer", "shutdown", "check"},
         ioq' = Append(ioq, t), UNCHANGED <<conn, running, crashed, caller>>
  PROVE  /\ Posts(t) /\ ConnInv' /\ HandleInv' /\ CallerInv' /\ WaitersKnown' /\ SocketInv'
         /\ ioq' \in Seq(Tasks)
  <1>1. /\ Types /\ ConnInv /\ HandleInv /\ CallerInv /\ WaitersKnown /\ SocketInv
        /\ ioq \in Seq(Tasks)
    BY DEF IInv, Types
  <1>2. Posts(t) /\ ioq' \in Seq(Tasks)
    BY <1>1, PostStep
  <1>3. HandleInv'
    BY <1>1, <1>2, HandleInvPost
  <1>4. CallerInv' /\ WaitersKnown'
    BY <1>1, <1>2, CallerPost, Zenon DEF Known
  <1>5. ConnInv' /\ SocketInv'
    BY <1>1, <1>2 DEF ConnInv, SocketInv, Posts
  <1>6. QED
    BY <1>2, <1>3, <1>4, <1>5, Zenon

\* The expiration of the timer keeps the invariant.
LEMMA TimerFiresStep ==
  ASSUME IInv, TimerFires
  PROVE  IInv'
  <1> DEFINE t == Task("timer", "none")
  <1>1. /\ armed' = FALSE /\ ioq' = Append(ioq, t)
        /\ UNCHANGED <<conn, running, crashed, caller, dtor>>
    BY DEF TimerFires
  <1>2. t \in Tasks /\ t.t = "timer"
    BY NewTask DEF Task
  <1> HIDE DEF t
  <1>3. /\ Posts(t) /\ ConnInv' /\ HandleInv' /\ CallerInv' /\ WaitersKnown' /\ SocketInv'
        /\ ioq' \in Seq(Tasks)
    BY <1>1, <1>2, ManagerPost
  <1>4. DtorInv'
    BY <1>1, <1>2, <1>3, DtorInvPost DEF IInv
  <1>5. OrderlyInv'
    BY <1>1, <1>2, <1>3, OrderlyPost DEF IInv
  <1>6. Types'
    BY <1>1, <1>3, Zenon DEF IInv, Types
  <1>7. QED
    BY <1>3, <1>4, <1>5, <1>6, Zenon DEF IInv

\* The beginning of the destructor keeps the invariant.
LEMMA DestroyStep ==
  ASSUME IInv, Destroy
  PROVE  IInv'
  <1> DEFINE t == Task("shutdown", "none")
  <1>1. /\ dtor = "alive" /\ (LateCalls \/ Calling = {}) /\ dtor' = "shutdown"
        /\ ioq' = Append(ioq, t) /\ UNCHANGED <<conn, armed, running, crashed, caller>>
    BY DEF Destroy
  <1>2. t \in Tasks /\ t.t = "shutdown"
    BY NewTask DEF Task
  <1> HIDE DEF t
  <1>3. /\ Posts(t) /\ ConnInv' /\ HandleInv' /\ CallerInv' /\ WaitersKnown' /\ SocketInv'
        /\ ioq' \in Seq(Tasks)
    BY <1>1, <1>2, ManagerPost
  <1>4. DtorInv'
    BY <1>1, <1>2, <1>3, DtorInvPost DEF IInv
  <1>5. OrderlyInv'
    <2> SUFFICES ASSUME ~LateCalls PROVE OrderlyInv'
      BY DEF OrderlyInv
    <2>1. Calling' = {} /\ ~Stopped'
      BY <1>1 DEF Calling, Stopped
    <2>2. ASSUME NEW i \in 1..Len(ioq'), NEW j \in 1..Len(ioq'),
                 ioq'[i].t = "handle", ioq'[j].t = "shutdown"
          PROVE  i < j
      <3>1. i \in 1..Len(ioq) /\ Len(ioq) \in Nat
        BY <1>2, <1>3, <2>2 DEF Posts, IInv, Types
      <3>2. j = Len(ioq')
        BY <1>1, <1>3, <2>2, Zenon DEF Posts, IInv, DtorInv
      <3>3. Len(ioq') = Len(ioq) + 1
        BY <1>3 DEF Posts
      <3>4. QED
        BY <3>1, <3>2, <3>3
    <2>3. OrderlyInv
      BY DEF IInv
    <2>4. \A r \in Requests : conn[r].cancelled /\ conn[r].state # "absent" =>
            conn[r].state = "Cancelled"
      BY <1>1, <2>3, Zenon DEF OrderlyInv
    <2>5. dtor' \notin {"checking", "cleanup", "deleted"}
      BY <1>1
    <2>6. QED
      BY <1>1, <2>1, <2>2, <2>4, <2>5 DEF OrderlyInv
  <1>6. Types'
    <2>1. dtor' \in Phases
      BY <1>1 DEF Phases
    <2>2. QED
      BY <1>1, <1>3, <2>1, Zenon DEF IInv, Types
  <1>7. QED
    BY <1>3, <1>4, <1>5, <1>6 DEF IInv

\* The end of the destructor's wait keeps the invariant.
LEMMA FuturesSetStep ==
  ASSUME IInv, FuturesSet
  PROVE  IInv'
  <1> DEFINE t == Task("check", "none")
  <1>1. /\ dtor = "futures" /\ dtor' = "checking" /\ ioq' = Append(ioq, t)
        /\ \A r \in Requests : conn[r].promise # "dtor"
        /\ UNCHANGED <<conn, armed, running, crashed, caller>>
    BY DEF FuturesSet
  <1>2. t \in Tasks /\ t.t = "check"
    BY NewTask DEF Task
  <1> HIDE DEF t
  <1>3. /\ Posts(t) /\ ConnInv' /\ HandleInv' /\ CallerInv' /\ WaitersKnown' /\ SocketInv'
        /\ ioq' \in Seq(Tasks)
    BY <1>1, <1>2, ManagerPost
  <1>4. DtorInv'
    BY <1>1, <1>2, <1>3, DtorInvPost DEF IInv
  <1>5. OrderlyInv'
    <2> SUFFICES ASSUME ~LateCalls PROVE OrderlyInv'
      BY DEF OrderlyInv
    <2>1. OrderlyInv /\ Stopped /\ Stopped'
      BY <1>1 DEF IInv, Stopped
    <2>2. Calling = {} /\ Calling' = {}
      BY <1>1, <2>1 DEF OrderlyInv, Calling
    <2>3. \A i \in 1..Len(ioq') : ioq'[i].t # "handle"
      BY <1>2, <1>3, <2>1 DEF OrderlyInv, Posts
    <2>4. \A r \in Requests : conn'[r].state = "absent"
      BY <1>1, <2>1 DEF OrderlyInv
    <2>5. QED
      BY <2>2, <2>3, <2>4 DEF OrderlyInv
  <1>6. Types'
    <2>1. dtor' \in Phases
      BY <1>1 DEF Phases
    <2>2. QED
      BY <1>1, <1>3, <2>1, Zenon DEF IInv, Types
  <1>7. QED
    BY <1>3, <1>4, <1>5, <1>6 DEF IInv

\* The end of the destructor keeps the invariant.
LEMMA CleanupStep ==
  ASSUME IInv, Cleanup
  PROVE  IInv'
  <1>1. /\ dtor = "cleanup" /\ dtor' = "deleted" /\ armed' = FALSE
        /\ UNCHANGED <<conn, ioq, running, crashed, caller>>
    BY Zenon DEF Cleanup
  <1>2. ConnInv' /\ HandleInv' /\ CallerInv' /\ WaitersKnown' /\ SocketInv'
    <2>1. ConnInv' /\ HandleInv'
      BY <1>1, Zenon DEF IInv, ConnInv, HandleInv
    <2>2. CallerInv'
      BY <1>1, Zenon DEF IInv, CallerInv, Waiting
    <2>3. WaitersKnown' /\ SocketInv'
      BY <1>1, Zenon DEF IInv, WaitersKnown, SocketInv
    <2>4. QED
      BY <2>1, <2>2, <2>3, Zenon
  <1>3. DtorInv'
    BY <1>1, Zenon DEF IInv, DtorInv
  <1>4. OrderlyInv'
    <2>1. OrderlyInv /\ Stopped /\ Stopped' /\ Calling' = Calling
      BY <1>1 DEF IInv, Stopped, Calling
    <2>2. QED
      BY <1>1, <2>1 DEF OrderlyInv
  <1>5. Types'
    <2>1. dtor' \in Phases
      BY <1>1 DEF Phases
    <2>2. QED
      BY <1>1, <2>1, Zenon DEF IInv, Types
  <1>6. QED
    BY <1>2, <1>3, <1>4, <1>5 DEF IInv

\* HttpClient::handle_request keeps the invariant.
LEMMA HandleRequestCall ==
  ASSUME IInv, NEW r \in Requests, handle_request(r)
  PROVE  IInv'
  <1> DEFINE t == Task("handle", r)
             y == [conn[r] EXCEPT !.life = "submitted"]
  <1>1. /\ Types /\ ConnInv /\ HandleInv /\ CallerInv /\ WaitersKnown /\ DtorInv
        /\ OrderlyInv /\ SocketInv
    BY DEF IInv
  <1>2. /\ conn[r].life = "new" /\ (~LateCalls => dtor = "alive")
        /\ conn' = [conn EXCEPT ![r] = y] /\ ioq' = Append(ioq, t)
        /\ UNCHANGED <<armed, running, crashed, caller, dtor>>
    BY Zenon DEF handle_request
  <1>3. /\ conn \in [Requests -> Connection] /\ ioq \in Seq(Tasks) /\ Len(ioq) \in Nat
        /\ \A i \in 1..Len(ioq) : ioq[i] \in Tasks
    BY <1>1 DEF Types
  <1>4. conn[r] \in Connection /\ Rest(conn[r])
    BY <1>1, <1>3 DEF ConnInv
  <1>5. /\ y \in Connection /\ Rest(y) /\ y.life = "submitted" /\ y.promise = conn[r].promise
        /\ y.cancelled = conn[r].cancelled /\ y.state = conn[r].state
        /\ y.state = "absent"
    <2>1. /\ conn[r] \in Connection /\ Rest(conn[r]) /\ conn[r].life = "new"
          /\ y = [conn[r] EXCEPT !.life = "submitted"]
      BY <1>2, <1>4
    <2> HIDE DEF y
    <2>2. QED
      BY <2>1, SubmitStep
  <1>6. t \in Tasks /\ t.t = "handle" /\ t.r = r
    BY NewTask, Zenon DEF Task
  <1> HIDE DEF t, y
  <1>7. Posts(t)
    BY <1>2, <1>3, <1>6, PostStep
  <1>8. /\ conn' \in [Requests -> Connection] /\ ConnInv'
        /\ \A s \in Requests : conn'[s] = IF s = r THEN y ELSE conn[s]
    BY <1>1, <1>2, <1>3, <1>4, <1>5, OneRecord, Zenon
  <1>9. \A s \in Requests :
          /\ conn'[s].promise = conn[s].promise /\ conn'[s].state = conn[s].state
          /\ conn'[s].cancelled = conn[s].cancelled
          /\ s # r => conn'[s] = conn[s]
    BY <1>5, <1>8, Zenon
  <1>10. conn'[r].life = "submitted" /\ conn'[r].state = "absent"
    BY <1>5, <1>8
  <1>11. HandleInv'
    <2>1. ASSUME NEW i \in 1..Len(ioq)
          PROVE  ioq[i].t \in {"handle", "performOp"} => ioq[i].r \in Requests \ {r}
      <3>1. ioq[i].t \in {"handle", "performOp"} =>
              ioq[i].r \in Requests /\ conn[ioq[i].r].life # "new"
        BY <1>1, <1>3, TaskShape, Zenon DEF HandleInv
      <3>2. QED
        BY <1>2, <3>1
    <2>2. ASSUME NEW i \in 1..Len(ioq)
          PROVE  ioq[i].t = "cancel" => ioq[i].r # r
      <3>1. ioq[i].t = "cancel" => /\ ioq[i].by \in Cancellers
                                   /\ Waiting(ioq[i].by, ioq[i].r)
        BY <1>1, <1>3, TaskShape, Zenon DEF CallerInv
      <3>2. ioq[i].t = "cancel" => conn[ioq[i].r].life # "new"
        BY <1>1, <3>1 DEF CallerInv, Waiting
      <3>3. QED
        BY <1>2, <3>2
    <2>3. ASSUME NEW i \in 1..Len(ioq')
          PROVE  /\ ioq'[i].t = "handle" => conn'[ioq'[i].r].life = "submitted"
                 /\ ioq'[i].t = "performOp" => conn'[ioq'[i].r].life = "handled"
      <3>1. CASE i \in 1..Len(ioq) /\ ioq'[i] = ioq[i]
        <4>1. ioq'[i].t \in {"handle", "performOp"} => conn'[ioq'[i].r] = conn[ioq'[i].r]
          BY <1>9, <2>1, <3>1
        <4>2. QED
          BY <1>1, <3>1, <4>1 DEF HandleInv
      <3>2. CASE ioq'[i] = t
        BY <1>6, <1>10, <3>2
      <3>3. QED
        BY <1>7, <3>1, <3>2, Zenon DEF Posts
    <2>4. ASSUME NEW i \in 1..Len(ioq'), NEW j \in 1..Len(ioq'), ioq'[i].t = "handle",
                 ioq'[i].r = ioq'[j].r
          PROVE  /\ ioq'[j].t = "handle" => i = j
                 /\ ioq'[j].t = "cancel" => i < j
      <3>1. CASE i \in 1..Len(ioq) /\ j \in 1..Len(ioq)
        <4>1. ioq'[i] = ioq[i] /\ ioq'[j] = ioq[j]
          BY <1>7, <3>1 DEF Posts
        <4>2. QED
          BY <1>1, <2>4, <3>1, <4>1 DEF HandleInv
      <3>2. CASE i \notin 1..Len(ioq)
        <4>1. i = Len(ioq') /\ ioq'[i].r = r
          BY <1>6, <1>7, <3>2 DEF Posts
        <4>2. ioq'[j].t \in {"handle", "cancel"} => j = Len(ioq') /\ ioq'[j].t = "handle"
          BY <1>6, <1>7, <2>1, <2>2, <2>4, <4>1, Zenon DEF Posts
        <4>3. QED
          BY <4>1, <4>2
      <3>3. CASE i \in 1..Len(ioq) /\ j \notin 1..Len(ioq)
        <4>1. ioq'[i] = ioq[i] /\ ioq'[j].r = r
          BY <1>6, <1>7, <3>3 DEF Posts
        <4>2. QED
          BY <2>1, <2>4, <3>3, <4>1
      <3>4. QED
        BY <3>1, <3>2, <3>3
    <2>5. ASSUME NEW s \in Requests, conn'[s].life = "submitted"
          PROVE  \E i \in 1..Len(ioq') : ioq'[i].t = "handle" /\ ioq'[i].r = s
      <3>1. CASE s = r
        BY <1>6, <1>7, <3>1 DEF Posts
      <3>2. CASE s # r
        <4>1. PICK i \in 1..Len(ioq) : ioq[i].t = "handle" /\ ioq[i].r = s
          BY <1>1, <1>9, <2>5, <3>2 DEF HandleInv
        <4>2. QED
          BY <1>7, <4>1 DEF Posts
      <3>3. QED
        BY <3>1, <3>2
    <2>6. QED
      BY <2>3, <2>4, <2>5 DEF HandleInv
  <1>12. CallerInv' /\ WaitersKnown'
    <2>1. Known
      BY <1>9, <1>10, Zenon DEF Known
    <2>2. QED
      BY <1>1, <1>2, <1>6, <1>7, <1>9, <2>1, CallerPost
  <1>13. DtorInv'
    BY <1>1, <1>2, <1>6, <1>7, DtorInvPost
  <1>14. OrderlyInv'
    <2> SUFFICES ASSUME ~LateCalls PROVE OrderlyInv'
      BY Zenon DEF OrderlyInv
    <2>1. \A i \in 1..Len(ioq') : ioq'[i].t # "shutdown"
      BY <1>1, <1>2, <1>6, <1>7 DEF Posts, DtorInv
    <2>2. dtor' = "alive" /\ ~Stopped' /\ Calling' = Calling
      BY <1>2 DEF Stopped, Calling
    <2>3. \A s \in Requests : conn[s].cancelled /\ conn[s].state # "absent" =>
            conn[s].state = "Cancelled" \/ \E k \in Calling : caller[k].r = s
      BY <1>1, Zenon DEF OrderlyInv
    <2>4. \A s \in Requests : conn'[s].cancelled /\ conn'[s].state # "absent" =>
            conn'[s].state = "Cancelled" \/ \E k \in Calling' : caller'[k].r = s
      <3> SUFFICES ASSUME NEW s \in Requests, conn'[s].cancelled, conn'[s].state # "absent"
                   PROVE  conn'[s].state = "Cancelled" \/ \E k \in Calling : caller[k].r = s
        BY <1>2, <2>2, Zenon
      <3>1. conn'[s].state = conn[s].state /\ conn'[s].cancelled = conn[s].cancelled
        BY <1>9, Zenon
      <3>2. QED
        BY <2>3, <3>1, Zenon
    <2>5. QED
      BY <2>1, <2>2, <2>4, Zenon DEF OrderlyInv
  <1>15. SocketInv'
    <2> SUFFICES ASSUME ~CurlGaps, ~PollErrors PROVE SocketInv'
      BY DEF SocketInv
    <2>1. \A s \in Requests : SocketOk(conn'[s])
      BY <1>1, <1>9, <1>10 DEF SocketInv, SocketOk
    <2>2. \A s \in Requests, i \in 1..Len(ioq') :
            conn'[s].state # "absent" /\ conn'[s].action = 0 =>
              ioq'[i].t # "performOp" \/ ioq'[i].r # s
      BY <1>1, <1>6, <1>7, <1>9, <1>10 DEF SocketInv, Posts
    <2>3. QED
      BY <1>1, <1>2, <2>1, <2>2, Zenon DEF SocketInv
  <1>16. Types'
    BY <1>1, <1>2, <1>7, <1>8, Zenon DEF Types, Posts
  <1>17. QED
    BY <1>8, <1>11, <1>12, <1>13, <1>14, <1>15, <1>16 DEF IInv

\* What moves no request on and posts no task keeps the queue of requests.
LEMMA SameLives ==
  ASSUME ioq \in Seq(Tasks), HandleInv, ioq' = ioq,
         \A s \in Requests : conn'[s].life = conn[s].life
  PROVE  HandleInv'
  <1>1. \A i \in 1..Len(ioq) : ioq[i].t \in {"handle", "performOp"} => ioq[i].r \in Requests
    <2>1. \A i \in 1..Len(ioq) : ioq[i] \in Tasks
      OBVIOUS
    <2>2. QED
      BY <2>1, TaskShape, Zenon
  <1>2. \A i \in 1..Len(ioq') : ioq'[i].t = "handle" => conn'[ioq'[i].r].life = "submitted"
    <2> SUFFICES ASSUME NEW i \in 1..Len(ioq), ioq[i].t = "handle"
                 PROVE  conn'[ioq[i].r].life = "submitted"
      BY Zenon
    <2>1. ioq[i].r \in Requests /\ conn[ioq[i].r].life = "submitted"
      BY <1>1, Zenon DEF HandleInv
    <2>2. QED
      BY <2>1, Zenon
  <1>3. \A s \in Requests : conn'[s].life = "submitted" =>
          \E i \in 1..Len(ioq') : ioq'[i].t = "handle" /\ ioq'[i].r = s
    BY Zenon DEF HandleInv
  <1>4. \A i \in 1..Len(ioq') : ioq'[i].t = "performOp" => conn'[ioq'[i].r].life = "handled"
    <2> SUFFICES ASSUME NEW i \in 1..Len(ioq), ioq[i].t = "performOp"
                 PROVE  conn'[ioq[i].r].life = "handled"
      BY Zenon
    <2>1. ioq[i].r \in Requests /\ conn[ioq[i].r].life = "handled"
      BY <1>1, Zenon DEF HandleInv
    <2>2. QED
      BY <2>1, Zenon
  <1>5. \A i, j \in 1..Len(ioq') :
          ioq'[i].t = "handle" /\ ioq'[j].t = "handle" /\ ioq'[i].r = ioq'[j].r => i = j
    <2>1. \A i, j \in 1..Len(ioq) :
            ioq[i].t = "handle" /\ ioq[j].t = "handle" /\ ioq[i].r = ioq[j].r => i = j
      BY Zenon DEF HandleInv
    <2>2. QED
      BY <2>1, Zenon
  <1>6. \A i, j \in 1..Len(ioq') :
          ioq'[i].t = "handle" /\ ioq'[j].t = "cancel" /\ ioq'[i].r = ioq'[j].r => i < j
    <2>1. \A i, j \in 1..Len(ioq) :
            ioq[i].t = "handle" /\ ioq[j].t = "cancel" /\ ioq[i].r = ioq[j].r => i < j
      BY Zenon DEF HandleInv
    <2>2. QED
      BY <2>1, Zenon
  <1>7. QED
    BY <1>2, <1>3, <1>4, <1>5, <1>6, Zenon DEF HandleInv

\* What keeps the waits as libcurl left them keeps the sockets open.
LEMMA SameSockets ==
  ASSUME SocketInv, UNCHANGED <<ioq, crashed>>,
         \A s \in Requests :
           /\ conn'[s].state = conn[s].state /\ conn'[s].action = conn[s].action
           /\ SocketOk(conn[s]) => SocketOk(conn'[s])
  PROVE  SocketInv'
  <1> SUFFICES ASSUME ~CurlGaps, ~PollErrors PROVE SocketInv'
    BY Zenon DEF SocketInv
  <1>1. ~crashed' /\ \A s \in Requests : SocketOk(conn'[s])
    BY Zenon DEF SocketInv
  <1>2. \A s \in Requests, i \in 1..Len(ioq') :
          conn'[s].state # "absent" /\ conn'[s].action = 0 =>
            ioq'[i].t # "performOp" \/ ioq'[i].r # s
    BY Zenon DEF SocketInv
  <1>3. QED
    BY <1>1, <1>2, Zenon DEF SocketInv, SocketOk

\* A step that leaves the queue, the callers and the destructor as they are.
LEMMA QuietStep ==
  ASSUME IInv, conn' \in [Requests -> Connection], ConnInv',
         UNCHANGED <<ioq, armed, running, crashed, caller, dtor>>,
         \A s \in Requests :
           /\ conn'[s].life = conn[s].life /\ conn'[s].promise = conn[s].promise
           /\ conn'[s].cancelled = conn[s].cancelled /\ conn'[s].state = conn[s].state
           /\ conn'[s].action = conn[s].action
           /\ SocketOk(conn[s]) => SocketOk(conn'[s])
  PROVE  IInv'
  <1>1. /\ Types /\ HandleInv /\ CallerInv /\ WaitersKnown /\ DtorInv
        /\ OrderlyInv /\ SocketInv
    BY DEF IInv
  <1>2. ioq \in Seq(Tasks)
    BY <1>1, Zenon DEF Types
  <1>3. HandleInv'
    BY <1>1, <1>2, SameLives, Zenon
  <1>4. CallerInv'
    <2>1. \A s \in Requests : conn'[s].promise \in Cancellers =>
            caller'[conn'[s].promise].at = "waiting" /\ caller'[conn'[s].promise].r = s
      <3> SUFFICES ASSUME NEW s \in Requests, conn'[s].promise \in Cancellers
                   PROVE  caller'[conn'[s].promise].at = "waiting"
                          /\ caller'[conn'[s].promise].r = s
        BY Zenon
      <3>1. conn'[s].promise = conn[s].promise /\ caller' = caller
        BY Zenon
      <3>2. Waiting(conn[s].promise, s)
        BY <1>1, <3>1, Zenon DEF CallerInv
      <3>3. QED
        BY <3>1, <3>2, Zenon DEF Waiting
    <2>2. \A s \in Requests, i \in 1..Len(ioq') :
            ioq'[i].t = "cancel" => conn'[s].promise # ioq'[i].by
      <3> SUFFICES ASSUME NEW s \in Requests, NEW i \in 1..Len(ioq), ioq[i].t = "cancel"
                   PROVE  conn'[s].promise # ioq[i].by
        BY Zenon
      <3>1. conn[s].promise # ioq[i].by
        BY <1>1, Zenon DEF CallerInv
      <3>2. QED
        BY <3>1, Zenon
    <2>3. \A k \in Cancellers : caller'[k].at \in {"flagged", "waiting"} =>
            caller'[k].r \in Requests /\ conn'[caller'[k].r].life # "new"
      BY <1>1, Zenon DEF CallerInv
    <2>4. QED
      BY <1>1, <2>1, <2>2, <2>3, Zenon DEF CallerInv, Waiting
  <1>5. WaitersKnown'
    <2> SUFFICES ASSUME NEW k \in Cancellers, caller[k].at = "waiting"
                 PROVE  \/ \E s \in Requests : conn'[s].promise = k
                        \/ \E i \in 1..Len(ioq) : ioq[i].t = "cancel" /\ ioq[i].by = k
      BY Zenon DEF WaitersKnown
    <2>1. \/ \E s \in Requests : conn[s].promise = k
          \/ \E i \in 1..Len(ioq) : ioq[i].t = "cancel" /\ ioq[i].by = k
      BY <1>1, Zenon DEF WaitersKnown
    <2>2. QED
      BY <2>1, Zenon
  <1>6. DtorInv' /\ SocketInv'
    <2>1. DtorInv'
      BY <1>1, Zenon DEF DtorInv
    <2>2. SocketInv'
      BY <1>1, SameSockets, Zenon
    <2>3. QED
      BY <2>1, <2>2
  <1>7. OrderlyInv'
    BY <1>1 DEF OrderlyInv, Calling, Stopped
  <1>8. Types'
    BY <1>1, Zenon DEF Types
  <1>9. QED
    BY <1>3, <1>4, <1>5, <1>6, <1>7, <1>8, Zenon DEF IInv

\* A call of the completion handler keeps the invariant.
LEMMA DeliverCall ==
  ASSUME IInv, NEW r \in Requests, Deliver(r)
  PROVE  IInv'
  <1> DEFINE y == [conn[r] EXCEPT !.posted = FALSE]
  <1>1. /\ Types /\ ConnInv /\ HandleInv /\ CallerInv /\ WaitersKnown /\ DtorInv
        /\ OrderlyInv /\ SocketInv
    BY DEF IInv
  <1>2. /\ conn' = [conn EXCEPT ![r] = y]
        /\ UNCHANGED <<ioq, armed, running, crashed, caller, dtor>>
    BY Zenon DEF Deliver
  <1>3. conn \in [Requests -> Connection]
    BY <1>1 DEF Types
  <1>4. conn[r] \in Connection /\ Rest(conn[r])
    BY <1>1, <1>3 DEF ConnInv
  <1>5. /\ y \in Connection /\ Rest(y) /\ y.life = conn[r].life /\ y.promise = conn[r].promise
        /\ y.cancelled = conn[r].cancelled /\ y.state = conn[r].state
        /\ y.action = conn[r].action /\ (SocketOk(conn[r]) => SocketOk(y))
    <2>1. y = [conn[r] EXCEPT !.posted = FALSE]
      OBVIOUS
    <2> HIDE DEF y
    <2>2. QED
      BY <1>4, <2>1, DeliverStep
  <1> HIDE DEF y
  <1>6. /\ conn' \in [Requests -> Connection] /\ ConnInv'
        /\ \A s \in Requests : conn'[s] = IF s = r THEN y ELSE conn[s]
    BY <1>1, <1>2, <1>3, <1>5, OneRecord, Zenon
  <1>7. \A s \in Requests :
          /\ conn'[s].life = conn[s].life /\ conn'[s].promise = conn[s].promise
          /\ conn'[s].cancelled = conn[s].cancelled /\ conn'[s].state = conn[s].state
          /\ conn'[s].action = conn[s].action
          /\ SocketOk(conn[s]) => SocketOk(conn'[s])
    BY <1>5, <1>6
  <1>8. QED
    BY <1>1, <1>2, <1>6, <1>7, QuietStep, Zenon

\* cancelConnection, when it posts its task, keeps the invariant.
LEMMA CancelConnectionCall ==
  ASSUME IInv, NEW k \in Cancellers, cancelConnection(k)
  PROVE  IInv'
  <1> DEFINE r == caller[k].r
             t == CancelTask(r, k)
  <1>1. /\ Types /\ ConnInv /\ HandleInv /\ CallerInv /\ WaitersKnown /\ DtorInv
        /\ OrderlyInv /\ SocketInv
    BY DEF IInv
  <1>2. /\ caller[k].at = "flagged" /\ ioq' = Append(ioq, t)
        /\ caller' = [caller EXCEPT ![k].at = "waiting"]
        /\ UNCHANGED <<conn, armed, running, crashed, dtor>>
    BY DEF cancelConnection
  <1>3. /\ conn \in [Requests -> Connection] /\ ioq \in Seq(Tasks) /\ Len(ioq) \in Nat
        /\ \A i \in 1..Len(ioq) : ioq[i] \in Tasks
        /\ caller \in [Cancellers -> [at : Places, r : Requests \cup {"none"}]]
    BY <1>1 DEF Types
  <1>4. r \in Requests /\ conn[r].life # "new"
    BY <1>1, <1>2 DEF CallerInv
  <1>5. t \in Tasks /\ t.t = "cancel" /\ t.r = r /\ t.by = k
    <2>1. t \in Tasks
      BY <1>4, NewTask, Zenon
    <2>2. QED
      BY <2>1 DEF CancelTask
  <1>6. /\ caller' \in [Cancellers -> [at : Places, r : Requests \cup {"none"}]]
        /\ caller'[k].at = "waiting" /\ caller'[k].r = r
        /\ \A j \in Cancellers \ {k} : caller'[j] = caller[j]
    <2>1. "waiting" \in Places
      BY DEF Places
    <2>2. QED
      BY <1>2, <1>3, <2>1
  <1> HIDE DEF t, r
  <1>7. Posts(t)
    BY <1>2, <1>3, <1>5, PostStep
  <1>8. HandleInv'
    BY <1>1, <1>2, <1>3, <1>5, <1>7, HandleInvPost
  <1>9. \A i \in 1..Len(ioq) : ioq[i].t = "cancel" => ioq[i].by \in Cancellers \ {k}
    BY <1>1, <1>2, <1>3, TaskShape DEF CallerInv, Waiting
  <1>10. \A s \in Requests : conn[s].promise # k
    BY <1>1, <1>2 DEF CallerInv, Waiting
  <1>11. CallerInv'
    <2>1. ASSUME NEW i \in 1..Len(ioq'), ioq'[i].t = "cancel"
          PROVE  /\ caller'[ioq'[i].by].at = "waiting" /\ caller'[ioq'[i].by].r = ioq'[i].r
                 /\ \A s \in Requests : conn'[s].promise # ioq'[i].by
      <3>1. CASE i \in 1..Len(ioq) /\ ioq'[i] = ioq[i]
        <4>1. /\ ioq[i].by \in Cancellers \ {k} /\ Waiting(ioq[i].by, ioq[i].r)
              /\ \A s \in Requests : conn[s].promise # ioq[i].by
          BY <1>1, <1>9, <2>1, <3>1, Zenon DEF CallerInv
        <4>2. QED
          BY <1>2, <1>6, <3>1, <4>1 DEF Waiting
      <3>2. CASE ioq'[i] = t
        BY <1>2, <1>5, <1>6, <1>10, <3>2
      <3>3. QED
        BY <1>7, <3>1, <3>2, Zenon DEF Posts
    <2>2. ASSUME NEW i \in 1..Len(ioq'), NEW j \in 1..Len(ioq'),
                 ioq'[i].t = "cancel", ioq'[j].t = "cancel", ioq'[i].by = ioq'[j].by
          PROVE  i = j
      <3>1. CASE i \in 1..Len(ioq) /\ j \in 1..Len(ioq)
        <4>1. ioq'[i] = ioq[i] /\ ioq'[j] = ioq[j]
          BY <1>7, <3>1 DEF Posts
        <4>2. QED
          BY <1>1, <2>2, <3>1, <4>1, Zenon DEF CallerInv
      <3>2. \A n \in 1..Len(ioq') : ioq'[n].t = "cancel" =>
              (ioq'[n].by = k <=> n = Len(ioq')) /\ (n \in 1..Len(ioq) \/ n = Len(ioq'))
        <4> SUFFICES ASSUME NEW n \in 1..Len(ioq'), ioq'[n].t = "cancel"
                     PROVE  /\ ioq'[n].by = k <=> n = Len(ioq')
                            /\ n \in 1..Len(ioq) \/ n = Len(ioq')
          OBVIOUS
        <4>1. CASE n \in 1..Len(ioq) /\ ioq'[n] = ioq[n]
          <5>1. n # Len(ioq')
            BY <1>3, <1>7, <4>1 DEF Posts
          <5>2. ioq[n].by # k
            BY <1>9, <4>1
          <5>3. QED
            BY <4>1, <5>1, <5>2
        <4>2. CASE n = Len(ioq') /\ ioq'[n] = t
          BY <1>5, <4>2
        <4>3. QED
          BY <1>7, <4>1, <4>2 DEF Posts
      <3>3. QED
        BY <2>2, <3>1, <3>2
    <2>3. ASSUME NEW s \in Requests, conn'[s].promise \in Cancellers
          PROVE  caller'[conn'[s].promise].at = "waiting" /\ caller'[conn'[s].promise].r = s
      <3>1. Waiting(conn[s].promise, s) /\ conn[s].promise # k
        BY <1>1, <1>2, <1>10, <2>3 DEF CallerInv
      <3>2. QED
        BY <1>2, <1>6, <2>3, <3>1 DEF Waiting
    <2>4. ASSUME NEW j \in Cancellers, caller'[j].at \in {"flagged", "waiting"}
          PROVE  caller'[j].r \in Requests /\ conn'[caller'[j].r].life # "new"
      BY <1>1, <1>2, <1>4, <1>6, <2>4 DEF CallerInv
    <2>5. QED
      BY <2>1, <2>2, <2>3, <2>4, Zenon DEF CallerInv, Waiting
  <1>12. WaitersKnown'
    <2> SUFFICES ASSUME NEW j \in Cancellers, caller'[j].at = "waiting"
                 PROVE  \/ \E s \in Requests : conn'[s].promise = j
                        \/ \E i \in 1..Len(ioq') : ioq'[i].t = "cancel" /\ ioq'[i].by = j
      BY DEF WaitersKnown
    <2>1. CASE j = k
      BY <1>5, <1>7, <2>1 DEF Posts
    <2>2. CASE j # k
      <3>1. \/ \E s \in Requests : conn[s].promise = j
            \/ \E i \in 1..Len(ioq) : ioq[i].t = "cancel" /\ ioq[i].by = j
        BY <1>1, <1>6, <2>2 DEF WaitersKnown
      <3>2. QED
        BY <1>2, <1>7, <3>1 DEF Posts
    <2>3. QED
      BY <2>1, <2>2
  <1>13. DtorInv'
    BY <1>1, <1>2, <1>5, <1>7, DtorInvPost, Zenon
  <1>14. OrderlyInv'
    <2> SUFFICES ASSUME ~LateCalls PROVE OrderlyInv'
      BY DEF OrderlyInv
    <2>1. dtor = "alive" /\ dtor' = "alive" /\ ~Stopped'
      BY <1>1, <1>2 DEF OrderlyInv, Calling, Stopped
    <2>2. \A i \in 1..Len(ioq') : ioq'[i].t # "shutdown"
      BY <1>1, <1>5, <1>7, <2>1 DEF DtorInv, Posts
    <2>3. ASSUME NEW s \in Requests, conn'[s].cancelled, conn'[s].state # "absent",
                 conn'[s].state # "Cancelled"
          PROVE  \E j \in Calling' : caller'[j].r = s
      <3>1. PICK j \in Calling : caller[j].r = s
        BY <1>1, <1>2, <2>3, Zenon DEF OrderlyInv
      <3>2. j \in Calling' /\ caller'[j].r = s
        BY <1>6, <3>1 DEF Calling, r
      <3>3. QED
        BY <3>2
    <2>4. QED
      BY <2>1, <2>2, <2>3 DEF OrderlyInv
  <1>15. SocketInv'
    BY <1>1, <1>2, <1>5, <1>7 DEF SocketInv, Posts
  <1>16. Types'
    BY <1>1, <1>2, <1>6, <1>7, Zenon DEF Types, Posts
  <1>17. ConnInv'
    BY <1>1, <1>2 DEF ConnInv
  <1>18. QED
    BY <1>8, <1>11, <1>12, <1>13, <1>14, <1>15, <1>16, <1>17, Zenon DEF IInv

\* Whoever still holds a Connection got it from a request that was submitted.
LEMMA ReferencedKnown ==
  ASSUME IInv, NEW r \in Requests, Referenced(r)
  PROVE  conn[r].life # "new"
  <1>1. /\ conn \in [Requests -> Connection] /\ ioq \in Seq(Tasks) /\ ConnInv
        /\ HandleInv /\ CallerInv
    BY DEF IInv, Types
  <1>2. conn[r] \in Connection /\ Rest(conn[r])
    BY <1>1 DEF ConnInv
  <1>3. CASE conn[r].state # "absent" \/ conn[r].posted
    BY <1>2, <1>3, Zenon DEF Rest, Idle, Common
  <1>4. CASE conn[r].polls + conn[r].stale > 0
    <2>1. ~(conn[r].polls = 0 /\ conn[r].stale = 0)
      BY <1>4
    <2>2. QED
      BY <1>2, <2>1 DEF Rest, Idle, Common
  <1>5. CASE \E i \in 1..Len(ioq) : ioq[i].r = r
    <2>1. PICK i \in 1..Len(ioq) : ioq[i].r = r
      BY <1>5
    <2>2. ioq[i] \in Tasks
      BY <1>1
    <2>3. /\ ioq[i].t \in {"handle", "performOp", "cancel"}
          /\ ioq[i].t = "cancel" => ioq[i].by \in Cancellers
      BY <2>1, <2>2, TaskShape, Zenon
    <2>4. CASE ioq[i].t = "cancel"
      <3>1. ioq[i].by \in Cancellers /\ Waiting(ioq[i].by, r)
        BY <1>1, <2>1, <2>3, <2>4, Zenon DEF CallerInv
      <3>2. QED
        BY <1>1, <3>1, Zenon DEF CallerInv, Waiting
    <2>5. CASE ioq[i].t \in {"handle", "performOp"}
      BY <1>1, <2>1, <2>5 DEF HandleInv
    <2>6. QED
      BY <2>3, <2>4, <2>5
  <1>6. QED
    BY <1>3, <1>4, <1>5 DEF Referenced

\* cancelOperation, when it sets the flag, keeps the invariant.
LEMMA CancelOperationCall ==
  ASSUME IInv, NEW k \in Cancellers, NEW r \in Requests, cancelOperation(k, r)
  PROVE  IInv'
  <1> DEFINE y == [conn[r] EXCEPT !.cancelled = TRUE]
  <1>1. /\ Types /\ ConnInv /\ HandleInv /\ CallerInv /\ WaitersKnown /\ DtorInv
        /\ OrderlyInv /\ SocketInv
    BY DEF IInv
  <1>2. /\ caller[k].at = "idle" /\ Referenced(r) /\ (~LateCalls => dtor = "alive")
        /\ conn' = [conn EXCEPT ![r] = y]
        /\ caller' = [caller EXCEPT ![k] = [at |-> "flagged", r |-> r]]
        /\ UNCHANGED <<ioq, armed, running, crashed, dtor>>
    BY Zenon DEF cancelOperation
  <1>3. /\ conn \in [Requests -> Connection] /\ ioq \in Seq(Tasks)
        /\ \A i \in 1..Len(ioq) : ioq[i] \in Tasks
        /\ caller \in [Cancellers -> [at : Places, r : Requests \cup {"none"}]]
    BY <1>1 DEF Types
  <1>4. conn[r] \in Connection /\ Rest(conn[r]) /\ conn[r].life # "new"
    BY <1>1, <1>2, <1>3, ReferencedKnown DEF ConnInv
  <1>5. /\ y \in Connection /\ Rest(y) /\ y.life = conn[r].life /\ y.promise = conn[r].promise
        /\ y.state = conn[r].state /\ y.action = conn[r].action
        /\ y.polls = conn[r].polls /\ y.stale = conn[r].stale /\ y.socket = conn[r].socket
        /\ y.aborted = conn[r].aborted
    BY <1>4, FlagStep
  <1> HIDE DEF y
  <1>6. /\ conn' \in [Requests -> Connection] /\ ConnInv'
        /\ \A s \in Requests : conn'[s] = IF s = r THEN y ELSE conn[s]
    BY <1>1, <1>2, <1>3, <1>5, OneRecord, Zenon
  <1>7. \A s \in Requests :
          /\ conn'[s].life = conn[s].life /\ conn'[s].promise = conn[s].promise
          /\ conn'[s].state = conn[s].state /\ conn'[s].action = conn[s].action
          /\ s # r => conn'[s].cancelled = conn[s].cancelled
          /\ SocketOk(conn[s]) => SocketOk(conn'[s])
    BY <1>5, <1>6, Zenon DEF SocketOk
  <1>8. /\ caller' \in [Cancellers -> [at : Places, r : Requests \cup {"none"}]]
        /\ caller'[k].at = "flagged" /\ caller'[k].r = r
        /\ \A j \in Cancellers \ {k} : caller'[j] = caller[j]
    <2>1. [at |-> "flagged", r |-> r] \in [at : Places, r : Requests \cup {"none"}]
      BY DEF Places
    <2>2. QED
      BY <1>2, <1>3, <2>1
  <1>9. \A i \in 1..Len(ioq) : ioq[i].t \in {"handle", "performOp"} => ioq[i].r \in Requests
    BY <1>3, TaskShape, Zenon
  <1>10. HandleInv'
    BY <1>1, <1>2, <1>3, <1>7, SameLives, Zenon
  <1>11. \A i \in 1..Len(ioq) : ioq[i].t = "cancel" => ioq[i].by \in Cancellers \ {k}
    BY <1>1, <1>2, <1>3, TaskShape, Zenon DEF CallerInv, Waiting
  <1>12. \A s \in Requests : conn[s].promise # k
    BY <1>1, <1>2, Zenon DEF CallerInv, Waiting
  <1>13. CallerInv'
    <2>1. (\A i \in 1..Len(ioq) : ioq[i].t = "cancel" => Waiting(ioq[i].by, ioq[i].r))'
      BY <1>1, <1>2, <1>8, <1>11, Zenon DEF CallerInv, Waiting
    <2>2. (\A s \in Requests : conn[s].promise \in Cancellers => Waiting(conn[s].promise, s))'
      BY <1>1, <1>7, <1>8, <1>12 DEF CallerInv, Waiting
    <2>3. (\A s \in Requests, i \in 1..Len(ioq) :
             ioq[i].t = "cancel" => conn[s].promise # ioq[i].by)'
      <3> SUFFICES ASSUME NEW s \in Requests, NEW i \in 1..Len(ioq), ioq[i].t = "cancel"
                   PROVE  conn'[s].promise # ioq[i].by
        BY <1>2, Zenon
      <3>1. conn[s].promise # ioq[i].by
        BY <1>1, Zenon DEF CallerInv
      <3>2. QED
        BY <1>7, <3>1, Zenon
    <2>4. (\A i, j \in 1..Len(ioq) :
             ioq[i].t = "cancel" /\ ioq[j].t = "cancel" /\ ioq[i].by = ioq[j].by => i = j)'
      BY <1>1, <1>2, Zenon DEF CallerInv
    <2>5. (\A j \in Cancellers : caller[j].at \in {"flagged", "waiting"} =>
             caller[j].r \in Requests /\ conn[caller[j].r].life # "new")'
      <3> SUFFICES ASSUME NEW j \in Cancellers, caller'[j].at \in {"flagged", "waiting"}
                   PROVE  caller'[j].r \in Requests /\ conn'[caller'[j].r].life # "new"
        BY Zenon
      <3>1. CASE j = k
        BY <1>4, <1>7, <1>8, <3>1, Zenon
      <3>2. CASE j # k
        <4>1. caller'[j] = caller[j]
          BY <1>8, <3>2, Zenon
        <4>2. caller[j].r \in Requests /\ conn[caller[j].r].life # "new"
          BY <1>1, <4>1, Zenon DEF CallerInv
        <4>3. QED
          BY <1>7, <4>1, <4>2, Zenon
      <3>3. QED
        BY <3>1, <3>2, Zenon
    <2>6. QED
      BY <2>1, <2>2, <2>3, <2>4, <2>5, Zenon DEF CallerInv
  <1>14. WaitersKnown'
    BY <1>1, <1>2, <1>7, <1>8 DEF WaitersKnown
  <1>15. DtorInv' /\ SocketInv'
    <2>1. DtorInv'
      BY <1>1, <1>2, Zenon DEF DtorInv
    <2>2. SocketInv'
      BY <1>1, <1>2, <1>7, SameSockets, Zenon
    <2>3. QED
      BY <2>1, <2>2
  <1>16. OrderlyInv'
    <2> SUFFICES ASSUME ~LateCalls PROVE OrderlyInv'
      BY Zenon DEF OrderlyInv
    <2>1. dtor = "alive" /\ dtor' = "alive" /\ ~Stopped'
      BY <1>2 DEF Stopped
    <2>2. ASSUME NEW s \in Requests, conn'[s].cancelled, conn'[s].state # "absent",
                 conn'[s].state # "Cancelled"
          PROVE  \E j \in Calling' : caller'[j].r = s
      <3>1. CASE s = r
        BY <1>8, <3>1, Zenon DEF Calling
      <3>2. CASE s # r
        <4>1. PICK j \in Calling : caller[j].r = s
          BY <1>1, <1>7, <2>2, <3>2, Zenon DEF OrderlyInv
        <4>2. j \in Cancellers \ {k}
          BY <1>2, <4>1 DEF Calling
        <4>3. QED
          BY <1>8, <4>1, <4>2, Zenon DEF Calling
      <3>3. QED
        BY <3>1, <3>2
    <2>3. \A i, j \in 1..Len(ioq') : ioq'[i].t = "handle" /\ ioq'[j].t = "shutdown" => i < j
      BY <1>1, <1>2, Zenon DEF OrderlyInv
    <2>4. QED
      BY <2>1, <2>2, <2>3, Zenon DEF OrderlyInv
  <1>17. Types'
    BY <1>1, <1>2, <1>6, <1>8, Zenon DEF Types
  <1>18. QED
    BY <1>6, <1>10, <1>13, <1>14, <1>15, <1>16, <1>17, Zenon DEF IInv

----------------------------------------------------------------------------
(* The invariant, and the theorems.                                        *)

\* A client that was just constructed.
LEMMA InitInv == Init => IInv
  <1> SUFFICES ASSUME Init PROVE IInv
    OBVIOUS
  <1>1. NewConnection \in Connection
    <2>1. /\ 0 \in 0..2 /\ 0 \in Nat /\ TRUE \in BOOLEAN /\ FALSE \in BOOLEAN
          /\ "nobody" \in Who /\ "absent" \in States
      BY DEF Who, States
    <2>2. QED
      BY <2>1, Zenon DEF NewConnection, Connection
  <1>2. Rest(NewConnection) /\ SocketOk(NewConnection)
    BY Zenon DEF NewConnection, Rest, Idle, Common, SocketOk
  <1>3. /\ conn \in [Requests -> Connection]
        /\ \A r \in Requests : conn[r] = NewConnection
    BY <1>1 DEF Init
  <1>4. \A r \in Requests :
          conn[r].life = "new" /\ conn[r].state = "absent" /\ conn[r].promise = "nobody"
    <2>1. /\ NewConnection.life = "new" /\ NewConnection.state = "absent"
          /\ NewConnection.promise = "nobody"
      BY DEF NewConnection
    <2>2. QED
      BY <1>3, <2>1, Zenon
  <1>5. ioq = <<>> /\ ioq \in Seq(Tasks) /\ Len(ioq) = 0 /\ 1..Len(ioq) = {}
    BY DEF Init
  <1>6. /\ caller \in [Cancellers -> [at : Places, r : Requests \cup {"none"}]]
        /\ \A k \in Cancellers : caller[k].at = "idle"
    BY DEF Init, Places
  <1>7. Types
    BY <1>3, <1>5, <1>6, Zenon DEF Types, Init, Phases
  <1>8. ConnInv
    BY <1>2, <1>3, Zenon DEF ConnInv
  <1>9. HandleInv
    BY <1>4, <1>5, Zenon DEF HandleInv
  <1>10. CallerInv /\ WaitersKnown
    BY <1>4, <1>5, <1>6, WhoCancels, Zenon DEF CallerInv, WaitersKnown
  <1>11. DtorInv
    BY <1>5 DEF DtorInv
  <1>12. OrderlyInv
    BY <1>4, <1>5 DEF OrderlyInv, Stopped, Init
  <1>13. SocketInv
    BY <1>2, <1>3, <1>4, <1>5, Zenon DEF SocketInv, Init
  <1>14. QED
    BY <1>7, <1>8, <1>9, <1>10, <1>11, <1>12, <1>13, Zenon DEF IInv

\* A task of the io thread keeps the invariant.
LEMMA IoTaskStep ==
  ASSUME IInv, IoTask
  PROVE  IInv'
  BY HandleStep, HandleRequestStep, TimerStep, PollFailedStep, PollUntrackedStep,
     LastCheckStep, DeadSocketStep, PerformOpStep, CancelTaskStep, ShutdownStep, Zenon
  DEF IoTask

\* Every step of the client keeps the invariant.
LEMMA NextInv == IInv /\ [Next]_vars => IInv'
  <1> SUFFICES ASSUME IInv, [Next]_vars PROVE IInv'
    OBVIOUS
  <1>1. CASE UNCHANGED vars
    <2>1. UNCHANGED <<conn, ioq, armed, running, crashed, caller, dtor>>
      BY <1>1, Zenon DEF vars
    <2>2. Types' /\ SocketInv'
      BY <2>1, Zenon DEF IInv, Types, SocketInv, SocketOk
    <2>3. QED
      BY <2>1, <2>2, SameParts, Zenon DEF IInv
  <1>2. CASE IoTask
    BY <1>2, IoTaskStep
  <1>3. CASE TimerFires \/ Destroy \/ FuturesSet \/ Cleanup
    BY <1>3, TimerFiresStep, DestroyStep, FuturesSetStep, CleanupStep, Zenon
  <1>4. CASE \E r \in Requests : PollReady(r) \/ handle_request(r) \/ Deliver(r)
    BY <1>4, PollReadyStep, HandleRequestCall, DeliverCall, Zenon
  <1>5. CASE \E k \in Cancellers :
               cancelConnection(k) \/ \E r \in Requests : cancelOperation(k, r)
    BY <1>5, CancelConnectionCall, CancelOperationCall, Zenon
  <1>6. QED
    BY <1>1, <1>2, <1>3, <1>4, <1>5, Zenon DEF Next, Gone

\* The inductive invariant, for any requests, threads and bounds, and whatever
\* libcurl, the sockets and the threads that cancel do.
THEOREM ClientInvariance == Spec => []IInv
  <1>1. QED
    BY InitInv, NextInv, PTL DEF Spec

\* performOp, which overwrites the state of a connection, loses no cancellation: the
\* two maps of the manager agree whenever the io thread is between two tasks.
THEOREM MapsAgree == Spec => []CancelledAgree
  <1>1. IInv => CancelledAgree
    BY DEF IInv, ConnInv, Rest, Idle, CancelledAgree
  <1>2. QED
    BY <1>1, ClientInvariance, PTL

\* Where the waits of asio end without errors, a request the manager took on is in
\* current_connections until its result is notified, and then no longer.
THEOREM NotifiedLeaves == ASSUME ~PollErrors PROVE Spec => []ManagedUntilNotified
  <1>1. IInv => ManagedUntilNotified
    BY Zenon DEF IInv, ConnInv, Rest, Idle, Common, ManagedUntilNotified
  <1>2. QED
    BY <1>1, ClientInvariance, PTL

\* A thread inside cancelOperation always waits for a task that is queued or for a
\* promise the manager holds.
THEOREM CancelAnswered == Spec => []WaitersKnown
  <1>1. IInv => WaitersKnown
    BY DEF IInv
  <1>2. QED
    BY <1>1, ClientInvariance, PTL

\* Where libcurl has a socket for each transfer it works on and the waits end
\* without errors, no task touches a socket that is deleted, although libcurl
\* closes and replaces sockets behind connections that wait on them.
THEOREM SocketsStayLive == ASSUME ~CurlGaps, ~PollErrors PROVE Spec => []SocketsLive
  <1>1. IInv => SocketsLive
    BY DEF IInv, SocketInv, SocketsLive
  <1>2. QED
    BY <1>1, ClientInvariance, PTL
=============================================================================
