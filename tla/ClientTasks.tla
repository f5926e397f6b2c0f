----------------------------- MODULE ClientTasks -----------------------------
(***************************************************************************)
(* The inductive invariant IInv of ClientManager, for any number of        *)
(* requests, of threads that cancel them and of waits; what a task of the  *)
(* io thread does to each of its parts; and that the tasks that drive the  *)
(* transfers keep it.                                                      *)
(***************************************************************************)
EXTENDS ClientSteps

Places == {"idle", "flagged", "waiting", "threw"}
Phases == {"alive", "shutdown", "futures", "checking", "cleanup", "deleted"}

Types ==
  /\ conn \in [Requests -> Connection]
  /\ ioq \in Seq(Tasks)
  /\ caller \in [Cancellers -> [at : Places, r : Requests \cup {"none"}]]
  /\ dtor \in Phases
  /\ armed \in BOOLEAN /\ running \in BOOLEAN /\ crashed \in BOOLEAN

ConnInv == \A r \in Requests : Rest(conn[r])

----------------------------------------------------------------------------
(* The queue, and who waits for what is in it.                             *)

\* A request is submitted while its handle task is queued, ahead of any task
\* that cancels it; only requests the manager has taken on are polled.
HandleInv ==
  /\ \A i \in 1..Len(ioq) : ioq[i].t = "handle" => conn[ioq[i].r].life = "submitted"
  /\ \A i, j \in 1..Len(ioq) :
       ioq[i].t = "handle" /\ ioq[j].t = "handle" /\ ioq[i].r = ioq[j].r => i = j
  /\ \A r \in Requests : conn[r].life = "submitted" =>
       \E i \in 1..Len(ioq) : ioq[i].t = "handle" /\ ioq[i].r = r
  /\ \A i, j \in 1..Len(ioq) :
       ioq[i].t = "handle" /\ ioq[j].t = "cancel" /\ ioq[i].r = ioq[j].r => i < j
  /\ \A i \in 1..Len(ioq) : ioq[i].t = "performOp" => conn[ioq[i].r].life = "handled"

Waiting(k, r) == caller[k].at = "waiting" /\ caller[k].r = r

\* A task that cancels, and a promise, belong to one thread that waits for them.
CallerInv ==
  /\ \A i \in 1..Len(ioq) : ioq[i].t = "cancel" => Waiting(ioq[i].by, ioq[i].r)
  /\ \A i, j \in 1..Len(ioq) :
       ioq[i].t = "cancel" /\ ioq[j].t = "cancel" /\ ioq[i].by = ioq[j].by => i = j
  /\ \A r \in Requests : conn[r].promise \in Cancellers => Waiting(conn[r].promise, r)
  /\ \A r \in Requests, i \in 1..Len(ioq) :
       ioq[i].t = "cancel" => conn[r].promise # ioq[i].by
  /\ \A k \in Cancellers : caller[k].at \in {"flagged", "waiting"} =>
       caller[k].r \in Requests /\ conn[caller[k].r].life # "new"

\* The destructor has one task in the queue, while it waits for it.
DtorInv ==
  /\ \A i \in 1..Len(ioq) : ioq[i].t = "shutdown" => dtor = "shutdown"
  /\ \A i \in 1..Len(ioq) : ioq[i].t = "check" => dtor = "checking"
  /\ \A i, j \in 1..Len(ioq) :
       ioq[i].t = ioq[j].t /\ ioq[i].t \in {"shutdown", "check"} => i = j

\* When nobody uses the client while it is being destroyed: no thread is inside
\* cancelOperation then, what was submitted is handled before the manager stops,
\* and what it still works on then is what the destructor cancelled.
Stopped == dtor \notin {"alive", "shutdown"}

OrderlyInv ==
  ~LateCalls =>
    /\ dtor # "alive" => Calling = {}
    /\ \A i, j \in 1..Len(ioq) : ioq[i].t = "handle" /\ ioq[j].t = "shutdown" => i < j
    /\ Stopped => \A i \in 1..Len(ioq) : ioq[i].t # "handle"
    /\ \A r \in Requests : conn[r].cancelled /\ conn[r].state # "absent" =>
         \/ conn[r].state = "Cancelled"
         \/ \E k \in Calling : caller[k].r = r
    /\ Stopped => \A r \in Requests : conn[r].state # "absent" => conn[r].promise = "dtor"
    /\ dtor \in {"checking", "cleanup", "deleted"} =>
         \A r \in Requests : conn[r].state = "absent"

\* When libcurl has a socket for each transfer it works on and waits end without
\* errors: a connection that polls has an open socket.
SocketInv ==
  ~CurlGaps /\ ~PollErrors =>
    /\ ~crashed
    /\ \A r \in Requests : SocketOk(conn[r])
    /\ \A r \in Requests, i \in 1..Len(ioq) :
         conn[r].state # "absent" /\ conn[r].action = 0 =>
           ioq[i].t # "performOp" \/ ioq[i].r # r

IInv ==
  /\ Types /\ ConnInv /\ HandleInv /\ CallerInv /\ WaitersKnown /\ DtorInv
  /\ OrderlyInv /\ SocketInv

----------------------------------------------------------------------------
(* The queue invariants across a task.                                     *)

\* The task that runs is the first of the queue.
LEMMA HeadTask ==
  ASSUME ioq \in Seq(Tasks), ioq # <<>>
  PROVE  Len(ioq) \in Nat /\ 1 \in 1..Len(ioq) /\ Head(ioq) = ioq[1] /\ ioq[1] \in Tasks
  OBVIOUS

\* A handle task settles whether its request is taken on; no other task does.
LifeStep ==
  \A s \in Requests :
    /\ ioq[1].t = "handle" /\ ioq[1].r = s => conn'[s].life \in {"handled", "dropped"}
    /\ ioq[1].t # "handle" \/ ioq[1].r # s => conn'[s].life = conn[s].life

\* HandleInv across a task.
LEMMA HandleInvTask ==
  ASSUME ioq \in Seq(Tasks), ioq # <<>>, HandleInv, NEW c, Shifted(c), LifeStep,
         \A s \in Requests : c[s].aborted # 0 => conn'[s].life = "handled"
  PROVE  HandleInv'
  <1>0. /\ Len(ioq) \in Nat /\ 1 \in 1..Len(ioq)
        /\ \A i \in 1..Len(ioq) : ioq[i] \in Tasks
    OBVIOUS
  <1>1. ioq' \in Seq(Tasks) /\ Len(ioq') \in Nat
    BY DEF Shifted
  <1>2. \A i \in 1..Len(ioq') : ioq'[i].t # "performOp" =>
          i + 1 \in 2..Len(ioq) /\ i + 1 \in 1..Len(ioq) /\ ioq'[i] = ioq[i + 1]
    BY <1>0, <1>1 DEF Shifted
  <1>3. \A i \in 1..Len(ioq') : ioq'[i].t = "performOp" => conn'[ioq'[i].r].life = "handled"
    <2> SUFFICES ASSUME NEW i \in 1..Len(ioq'), ioq'[i].t = "performOp"
                 PROVE  conn'[ioq'[i].r].life = "handled"
      OBVIOUS
    <2>1. CASE i + 1 \in 2..Len(ioq) /\ ioq'[i] = ioq[i + 1]
      <3>1. i + 1 \in 1..Len(ioq) /\ ioq[i + 1].t = "performOp"
        BY <1>0, <2>1
      <3>2. ioq[i + 1].r \in Requests /\ conn[ioq[i + 1].r].life = "handled"
        BY <1>0, <3>1, TaskShape DEF HandleInv
      <3>3. ioq[1].t # "handle" \/ ioq[1].r # ioq[i + 1].r
        BY <1>0, <3>1, <3>2 DEF HandleInv
      <3>4. QED
        BY <2>1, <3>2, <3>3 DEF LifeStep
    <2>2. CASE ioq'[i].r \in Requests /\ c[ioq'[i].r].aborted # 0
      BY <2>2
    <2>3. QED
      BY <2>1, <2>2 DEF Shifted
  <1>4. \A i \in 1..Len(ioq') : ioq'[i].t = "handle" => conn'[ioq'[i].r].life = "submitted"
    <2> SUFFICES ASSUME NEW i \in 1..Len(ioq'), ioq'[i].t = "handle"
                 PROVE  conn'[ioq'[i].r].life = "submitted"
      OBVIOUS
    <2>1. i + 1 \in 2..Len(ioq) /\ i + 1 \in 1..Len(ioq) /\ ioq'[i] = ioq[i + 1]
      BY <1>2
    <2>2. ioq[i + 1].r \in Requests /\ conn[ioq[i + 1].r].life = "submitted"
      BY <1>0, <2>1, TaskShape DEF HandleInv
    <2>3. ioq[1].t # "handle" \/ ioq[1].r # ioq[i + 1].r
      BY <1>0, <2>1 DEF HandleInv
    <2>4. QED
      BY <2>1, <2>2, <2>3 DEF LifeStep
  <1>5. \A i, j \in 1..Len(ioq') :
          ioq'[i].t = "handle" /\ ioq'[j].t = "handle" /\ ioq'[i].r = ioq'[j].r => i = j
    <2> SUFFICES ASSUME NEW i \in 1..Len(ioq'), NEW j \in 1..Len(ioq'),
                        ioq'[i].t = "handle", ioq'[j].t = "handle", ioq'[i].r = ioq'[j].r
                 PROVE  i = j
      OBVIOUS
    <2>1. i + 1 \in 1..Len(ioq) /\ ioq[i + 1].t = "handle" /\ ioq[i + 1].r = ioq'[i].r
      BY <1>2
    <2>2. j + 1 \in 1..Len(ioq) /\ ioq[j + 1].t = "handle" /\ ioq[j + 1].r = ioq'[j].r
      BY <1>2
    <2>3. i + 1 = j + 1
      BY <2>1, <2>2 DEF HandleInv
    <2>4. QED
      BY <2>3, <1>1
  <1>6. \A i, j \in 1..Len(ioq') :
          ioq'[i].t = "handle" /\ ioq'[j].t = "cancel" /\ ioq'[i].r = ioq'[j].r => i < j
    <2> SUFFICES ASSUME NEW i \in 1..Len(ioq'), NEW j \in 1..Len(ioq'),
                        ioq'[i].t = "handle", ioq'[j].t = "cancel", ioq'[i].r = ioq'[j].r
                 PROVE  i < j
      OBVIOUS
    <2>1. i + 1 \in 1..Len(ioq) /\ ioq[i + 1].t = "handle" /\ ioq[i + 1].r = ioq'[i].r
      BY <1>2
    <2>2. j + 1 \in 1..Len(ioq) /\ ioq[j + 1].t = "cancel" /\ ioq[j + 1].r = ioq'[j].r
      BY <1>2
    <2>3. i + 1 < j + 1
      BY <2>1, <2>2 DEF HandleInv
    <2>4. QED
      BY <2>3, <1>1
  <1>7. \A r \in Requests : conn'[r].life = "submitted" =>
          \E i \in 1..Len(ioq') : ioq'[i].t = "handle" /\ ioq'[i].r = r
    <2> SUFFICES ASSUME NEW r \in Requests, conn'[r].life = "submitted"
                 PROVE  \E i \in 1..Len(ioq') : ioq'[i].t = "handle" /\ ioq'[i].r = r
      OBVIOUS
    <2>1. conn[r].life = "submitted" /\ (ioq[1].t # "handle" \/ ioq[1].r # r)
      BY DEF LifeStep
    <2>2. PICK i \in 1..Len(ioq) : ioq[i].t = "handle" /\ ioq[i].r = r
      BY <2>1 DEF HandleInv
    <2>3. i \in 2..Len(ioq)
      BY <1>0, <2>1, <2>2
    <2>4. QED
      BY <2>2, <2>3 DEF Shifted
  <1>8. QED
    BY <1>3, <1>4, <1>5, <1>6, <1>7 DEF HandleInv

\* The tasks of the destructor come and go one at a time.
LEMMA DtorInvTask ==
  ASSUME ioq \in Seq(Tasks), ioq # <<>>, DtorInv, NEW c, Shifted(c),
         ioq[1].t \in {"shutdown", "check"} \/ dtor' = dtor
  PROVE  DtorInv'
  <1>0. Len(ioq) \in Nat /\ 1 \in 1..Len(ioq)
    OBVIOUS
  <1>1. ioq' \in Seq(Tasks) /\ Len(ioq') \in Nat
    BY DEF Shifted
  <1>2. \A i \in 1..Len(ioq') : ioq'[i].t \in {"shutdown", "check"} =>
          i + 1 \in 2..Len(ioq) /\ i + 1 \in 1..Len(ioq) /\ ioq'[i] = ioq[i + 1]
    BY <1>0, <1>1 DEF Shifted
  <1>3. CASE ioq[1].t \in {"shutdown", "check"}
    <2>1. \A i \in 2..Len(ioq) : ioq[i].t \notin {"shutdown", "check"}
      BY <1>0, <1>3 DEF DtorInv
    <2>2. \A i \in 1..Len(ioq') : ioq'[i].t \notin {"shutdown", "check"}
      BY <1>2, <2>1
    <2>3. QED
      BY <2>2 DEF DtorInv
  <1>4. CASE dtor' = dtor
    <2>1. ASSUME NEW i \in 1..Len(ioq') 
          PROVE  /\ ioq'[i].t = "shutdown" => dtor' = "shutdown"
                 /\ ioq'[i].t = "check" => dtor' = "checking"
      BY <1>2, <1>4 DEF DtorInv
    <2>2. ASSUME NEW i \in 1..Len(ioq'), NEW j \in 1..Len(ioq'),
                 ioq'[i].t = ioq'[j].t, ioq'[i].t \in {"shutdown", "check"}
          PROVE  i = j
      <3>1. i + 1 \in 1..Len(ioq) /\ ioq[i + 1].t = ioq'[i].t
        BY <1>2, <2>2
      <3>2. j + 1 \in 1..Len(ioq) /\ ioq[j + 1].t = ioq'[j].t
        BY <1>2, <2>2
      <3>3. i + 1 = j + 1
        BY <2>2, <3>1, <3>2 DEF DtorInv
      <3>4. QED
        BY <3>3, <1>1
    <2>3. QED
      BY <2>1, <2>2 DEF DtorInv
  <1>5. QED
    BY <1>3, <1>4

\* No task submits a request.
LEMMA OrderlyQueueTask ==
  ASSUME ioq \in Seq(Tasks), ioq # <<>>, OrderlyInv, ~LateCalls, NEW c, Shifted(c),
         ioq[1].t = "shutdown" \/ (Stopped' => Stopped)
  PROVE  /\ \A i, j \in 1..Len(ioq') : ioq'[i].t = "handle" /\ ioq'[j].t = "shutdown" => i < j
         /\ Stopped' => \A i \in 1..Len(ioq') : ioq'[i].t # "handle"
  <1>0. Len(ioq) \in Nat /\ 1 \in 1..Len(ioq)
    OBVIOUS
  <1>1. ioq' \in Seq(Tasks) /\ Len(ioq') \in Nat
    BY DEF Shifted
  <1>2. \A i \in 1..Len(ioq') : ioq'[i].t # "performOp" =>
          i + 1 \in 2..Len(ioq) /\ i + 1 \in 1..Len(ioq) /\ ioq'[i] = ioq[i + 1]
    BY <1>0, <1>1 DEF Shifted
  <1>3. \A i, j \in 1..Len(ioq) : ioq[i].t = "handle" /\ ioq[j].t = "shutdown" => i < j
    BY DEF OrderlyInv
  <1>4. Stopped => \A i \in 1..Len(ioq) : ioq[i].t # "handle"
    BY DEF OrderlyInv
  <1>5. ASSUME NEW i \in 1..Len(ioq'), NEW j \in 1..Len(ioq'),
               ioq'[i].t = "handle", ioq'[j].t = "shutdown"
        PROVE  i < j
    <2>1. i + 1 \in 1..Len(ioq) /\ ioq[i + 1].t = "handle"
      BY <1>2, <1>5
    <2>2. j + 1 \in 1..Len(ioq) /\ ioq[j + 1].t = "shutdown"
      BY <1>2, <1>5
    <2>3. i + 1 < j + 1
      BY <1>3, <2>1, <2>2
    <2>4. QED
      BY <2>3, <1>1
  <1>6. ASSUME Stopped', NEW i \in 1..Len(ioq'), ioq'[i].t = "handle" PROVE FALSE
    <2>1. i + 1 \in 2..Len(ioq) /\ i + 1 \in 1..Len(ioq) /\ ioq[i + 1].t = "handle"
      BY <1>2, <1>6
    <2>2. CASE ioq[1].t = "shutdown"
      BY <1>0, <1>3, <2>1, <2>2
    <2>3. CASE Stopped
      BY <1>4, <2>1, <2>3
    <2>4. QED
      BY <1>6, <2>2, <2>3
  <1>7. QED
    BY <1>5, <1>6

\* Nothing goes from new to taken on and back.
Known == \A s \in Requests : conn[s].life # "new" => conn'[s].life # "new"

\* A task that releases no caller: it keeps the promises, or the destructor adds its own.
LEMMA CallerKept ==
  ASSUME Types, CallerInv, WaitersKnown, ioq # <<>>, NEW c, Shifted(c),
         ioq[1].t # "cancel", caller' = caller, Known,
         \A s \in Requests : \/ conn'[s].promise = conn[s].promise
                             \/ conn[s].promise = "nobody" /\ conn'[s].promise = "dtor"
  PROVE  CallerInv' /\ WaitersKnown'
  <1>0. /\ ioq \in Seq(Tasks) /\ Len(ioq) \in Nat /\ 1 \in 1..Len(ioq)
        /\ \A i \in 1..Len(ioq) : ioq[i] \in Tasks
    BY DEF Types
  <1>1. ioq' \in Seq(Tasks) /\ Len(ioq') \in Nat
    BY DEF Shifted
  <1>2. \A i \in 1..Len(ioq') : ioq'[i].t # "performOp" =>
          i + 1 \in 2..Len(ioq) /\ i + 1 \in 1..Len(ioq) /\ ioq'[i] = ioq[i + 1]
    BY <1>0, <1>1 DEF Shifted
  <1>3. "dtor" \notin Cancellers /\ "nobody" \notin Cancellers
    BY WhoCancels
  <1>4. ASSUME NEW i \in 1..Len(ioq'), ioq'[i].t = "cancel"
        PROVE  /\ caller'[ioq'[i].by].at = "waiting" /\ caller'[ioq'[i].by].r = ioq'[i].r
               /\ \A r \in Requests : conn'[r].promise # ioq'[i].by
    <2>1. i + 1 \in 1..Len(ioq) /\ ioq'[i] = ioq[i + 1] /\ ioq[i + 1].t = "cancel"
      BY <1>2, <1>4
    <2>2. ioq[i + 1].by \in Cancellers
      BY <1>0, <2>1, TaskShape
    <2>3. /\ Waiting(ioq[i + 1].by, ioq[i + 1].r)
          /\ \A r \in Requests : conn[r].promise # ioq[i + 1].by
      BY <2>1 DEF CallerInv
    <2>4. QED
      BY <1>3, <2>1, <2>2, <2>3 DEF Waiting
  <1>5. ASSUME NEW i \in 1..Len(ioq'), NEW j \in 1..Len(ioq'),
               ioq'[i].t = "cancel", ioq'[j].t = "cancel", ioq'[i].by = ioq'[j].by
        PROVE  i = j
    <2>1. i + 1 \in 1..Len(ioq) /\ ioq'[i] = ioq[i + 1]
      BY <1>2, <1>5
    <2>2. j + 1 \in 1..Len(ioq) /\ ioq'[j] = ioq[j + 1]
      BY <1>2, <1>5
    <2>3. i + 1 = j + 1
      BY <1>5, <2>1, <2>2 DEF CallerInv
    <2>4. QED
      BY <2>3, <1>1
  <1>6. ASSUME NEW r \in Requests, conn'[r].promise \in Cancellers
        PROVE  caller'[conn'[r].promise].at = "waiting" /\ caller'[conn'[r].promise].r = r
    BY <1>3, <1>6 DEF CallerInv, Waiting
  <1>7. \A k \in Cancellers : caller'[k].at \in {"flagged", "waiting"} =>
          caller'[k].r \in Requests /\ conn'[caller'[k].r].life # "new"
    BY DEF CallerInv, Known
  <1>8. CallerInv'
    BY <1>4, <1>5, <1>6, <1>7 DEF CallerInv, Waiting
  <1>9. ASSUME NEW k \in Cancellers, caller'[k].at = "waiting"
        PROVE  \/ \E r \in Requests : conn'[r].promise = k
               \/ \E i \in 1..Len(ioq') : ioq'[i].t = "cancel" /\ ioq'[i].by = k
    <2>1. CASE \E r \in Requests : conn[r].promise = k
      BY <1>3, <2>1
    <2>2. CASE \E i \in 1..Len(ioq) : ioq[i].t = "cancel" /\ ioq[i].by = k
      <3>1. PICK i \in 1..Len(ioq) : ioq[i].t = "cancel" /\ ioq[i].by = k
        BY <2>2
      <3>2. i \in 2..Len(ioq)
        BY <1>0, <3>1
      <3>3. QED
        BY <3>1, <3>2 DEF Shifted
    <2>3. QED
      BY <1>9, <2>1, <2>2 DEF WaitersKnown
  <1>10. QED
    BY <1>8, <1>9 DEF WaitersKnown

\* A task that ends with checkHandles: no promise is left, and those who waited for
\* one have returned.
LEMMA CallerReleased ==
  ASSUME Types, CallerInv, WaitersKnown, ioq # <<>>, NEW c, Shifted(c),
         ioq[1].t # "cancel", caller' = Released, Known,
         \A s \in Requests : conn'[s].promise = "nobody"
  PROVE  /\ CallerInv' /\ WaitersKnown'
         /\ caller' \in [Cancellers -> [at : Places, r : Requests \cup {"none"}]]
         /\ \A k \in Cancellers :
              \/ caller'[k] = caller[k] /\ \A r \in Requests : conn[r].promise # k
              \/ /\ caller'[k] = [at |-> "idle", r |-> "none"]
                 /\ \E r \in Requests : conn[r].promise = k /\ Waiting(k, r)
  <1>0. /\ ioq \in Seq(Tasks) /\ Len(ioq) \in Nat /\ 1 \in 1..Len(ioq)
        /\ \A i \in 1..Len(ioq) : ioq[i] \in Tasks
        /\ caller \in [Cancellers -> [at : Places, r : Requests \cup {"none"}]]
    BY DEF Types
  <1>1. ioq' \in Seq(Tasks) /\ Len(ioq') \in Nat
    BY DEF Shifted
  <1>2. \A i \in 1..Len(ioq') : ioq'[i].t # "performOp" =>
          i + 1 \in 2..Len(ioq) /\ i + 1 \in 1..Len(ioq) /\ ioq'[i] = ioq[i + 1]
    BY <1>0, <1>1 DEF Shifted
  <1>3. "nobody" \notin Cancellers
    BY WhoCancels
  <1>4. \A k \in Cancellers :
          \/ caller'[k] = caller[k] /\ \A r \in Requests : conn[r].promise # k
          \/ /\ caller'[k] = [at |-> "idle", r |-> "none"]
             /\ \E r \in Requests : conn[r].promise = k /\ Waiting(k, r)
    BY Zenon DEF Released, CallerInv
  <1>5. caller' \in [Cancellers -> [at : Places, r : Requests \cup {"none"}]]
    <2>1. [at |-> "idle", r |-> "none"] \in [at : Places, r : Requests \cup {"none"}]
      BY DEF Places
    <2>2. QED
      BY <1>0, <2>1, Zenon DEF Released
  <1>6. ASSUME NEW i \in 1..Len(ioq'), ioq'[i].t = "cancel"
        PROVE  /\ ioq'[i].by \in Cancellers
               /\ caller'[ioq'[i].by].at = "waiting" /\ caller'[ioq'[i].by].r = ioq'[i].r
    <2>1. i + 1 \in 1..Len(ioq) /\ ioq'[i] = ioq[i + 1] /\ ioq[i + 1].t = "cancel"
      BY <1>2, <1>6
    <2>2. ioq[i + 1].by \in Cancellers
      BY <1>0, <2>1, TaskShape
    <2>3. /\ Waiting(ioq[i + 1].by, ioq[i + 1].r)
          /\ \A r \in Requests : conn[r].promise # ioq[i + 1].by
      BY <2>1 DEF CallerInv
    <2>4. caller'[ioq[i + 1].by] = caller[ioq[i + 1].by]
      BY <1>4, <2>2, <2>3
    <2>5. QED
      BY <2>1, <2>2, <2>3, <2>4 DEF Waiting
  <1>7. ASSUME NEW i \in 1..Len(ioq'), NEW j \in 1..Len(ioq'),
               ioq'[i].t = "cancel", ioq'[j].t = "cancel", ioq'[i].by = ioq'[j].by
        PROVE  i = j
    <2>1. i + 1 \in 1..Len(ioq) /\ ioq'[i] = ioq[i + 1]
      BY <1>2, <1>7
    <2>2. j + 1 \in 1..Len(ioq) /\ ioq'[j] = ioq[j + 1]
      BY <1>2, <1>7
    <2>3. i + 1 = j + 1
      BY <1>7, <2>1, <2>2 DEF CallerInv
    <2>4. QED
      BY <2>3, <1>1
  <1>8. \A k \in Cancellers : caller'[k].at \in {"flagged", "waiting"} =>
          caller'[k] = caller[k] /\ \A r \in Requests : conn[r].promise # k
    BY <1>4
  <1>9. \A k \in Cancellers : caller'[k].at \in {"flagged", "waiting"} =>
          caller'[k].r \in Requests /\ conn'[caller'[k].r].life # "new"
    BY <1>8 DEF CallerInv, Known
  <1>10. CallerInv'
    BY <1>3, <1>6, <1>7, <1>9 DEF CallerInv, Waiting
  <1>11. ASSUME NEW k \in Cancellers, caller'[k].at = "waiting"
         PROVE  \E i \in 1..Len(ioq') : ioq'[i].t = "cancel" /\ ioq'[i].by = k
    <2>1. PICK i \in 1..Len(ioq) : ioq[i].t = "cancel" /\ ioq[i].by = k
      BY <1>8, <1>11 DEF WaitersKnown
    <2>2. i \in 2..Len(ioq)
      BY <1>0, <2>1
    <2>3. QED
      BY <2>1, <2>2 DEF Shifted
  <1>12. WaitersKnown'
    BY <1>11 DEF WaitersKnown
  <1>13. QED
    BY <1>4, <1>5, <1>10, <1>12

----------------------------------------------------------------------------
(* The connections across a task.                                          *)

\* The end of a task leaves every connection at rest.
LEMMA RestAll ==
  ASSUME NEW e \in [Requests -> Connection], \A s \in Requests : Idle(e[s]),
         conn' = [r \in Requests |-> [e[r] EXCEPT !.aborted = 0]]
  PROVE  /\ conn' \in [Requests -> Connection] /\ ConnInv'
         /\ \A s \in Requests :
              /\ Kept(e[s], conn'[s]) /\ conn'[s].aborted = 0
              /\ conn'[s].state = e[s].state /\ conn'[s].easy = e[s].easy
              /\ conn'[s].action = e[s].action /\ conn'[s].socket = e[s].socket
              /\ conn'[s].polls = e[s].polls /\ conn'[s].stale = e[s].stale
  <1>1. ASSUME NEW s \in Requests
        PROVE  /\ conn'[s] \in Connection /\ Rest(conn'[s])
               /\ Kept(e[s], conn'[s]) /\ conn'[s].aborted = 0
               /\ conn'[s].state = e[s].state /\ conn'[s].easy = e[s].easy
               /\ conn'[s].action = e[s].action /\ conn'[s].socket = e[s].socket
               /\ conn'[s].polls = e[s].polls /\ conn'[s].stale = e[s].stale
    <2>1. e[s] \in Connection /\ Idle(e[s]) /\ conn'[s] = [e[s] EXCEPT !.aborted = 0]
      BY Zenon
    <2>2. QED
      BY <2>1, RestStep DEF Rest
  <1>2. conn' \in [Requests -> Connection]
    BY <1>1, Zenon
  <1>3. QED
    BY <1>1, <1>2, Zenon DEF ConnInv

\* Sockets: what holds of the records holds at the end of the task.
LEMMA SocketTask ==
  ASSUME ioq \in Seq(Tasks), ioq # <<>>, ~CurlGaps, ~PollErrors, ~crashed',
         NEW e \in [Requests -> Connection], \A s \in Requests : Idle(e[s]),
         EndTask(e), \A s \in Requests : SocketOk(e[s]),
         \A s \in Requests, i \in 1..Len(ioq) :
           e[s].state # "absent" /\ e[s].action = 0 =>
             ioq[i].t # "performOp" \/ ioq[i].r # s
  PROVE  SocketInv'
  <1>1. Shifted(e) /\ conn' = [r \in Requests |-> [e[r] EXCEPT !.aborted = 0]]
    BY QueueStep
  <1>2. Len(ioq) \in Nat /\ ioq' \in Seq(Tasks) /\ Len(ioq') \in Nat
    BY <1>1 DEF Shifted
  <1>3. \A s \in Requests :
          /\ conn'[s].aborted = 0 /\ conn'[s].state = e[s].state
          /\ conn'[s].action = e[s].action /\ conn'[s].socket = e[s].socket
          /\ conn'[s].polls = e[s].polls /\ conn'[s].stale = e[s].stale
    BY <1>1, RestAll, Zenon
  <1>4. \A s \in Requests : SocketOk(conn'[s])
    BY <1>3 DEF SocketOk
  <1>5. ASSUME NEW s \in Requests, NEW i \in 1..Len(ioq'),
               conn'[s].state # "absent", conn'[s].action = 0
        PROVE  ioq'[i].t # "performOp" \/ ioq'[i].r # s
    <2>1. e[s].state # "absent" /\ e[s].action = 0 /\ e[s].aborted = 0
      BY <1>3, <1>5 DEF SocketOk
    <2>2. CASE i + 1 \in 2..Len(ioq) /\ ioq'[i] = ioq[i + 1]
      <3>1. i + 1 \in 1..Len(ioq)
        BY <1>2, <2>2
      <3>2. QED
        BY <2>1, <2>2, <3>1
    <2>3. CASE e[ioq'[i].r].aborted # 0
      BY <2>1, <2>3
    <2>4. QED
      BY <1>1, <2>2, <2>3 DEF Shifted
  <1>6. QED
    BY <1>4, <1>5 DEF SocketInv

\* The destruction goes on in the order of its phases.
PhaseKept ==
  /\ dtor' # "alive" => dtor # "alive"
  /\ Stopped' => Stopped
  /\ dtor' \in {"checking", "cleanup", "deleted"} => dtor \in {"checking", "cleanup", "deleted"}

\* Orderly destruction, across a task that does not stop the manager.
LEMMA OrderlyTask ==
  ASSUME Types, OrderlyInv, ioq # <<>>, NEW c, Shifted(c), PhaseKept,
         caller' \in [Cancellers -> [at : Places, r : Requests \cup {"none"}]],
         \A k \in Cancellers :
           \/ caller'[k] = caller[k]
           \/ /\ caller'[k].at \in {"idle", "threw"}
              /\ \A r \in Requests : conn'[r].state \notin {"absent", "Cancelled"} =>
                                       caller[k].r # r,
         \A r \in Requests : conn'[r].state # "absent" =>
           \/ conn'[r].state = "Cancelled" \/ ~conn'[r].cancelled
           \/ /\ conn[r].state \notin {"absent", "Cancelled"}
              /\ conn'[r].cancelled = conn[r].cancelled,
         ~LateCalls /\ Stopped => \A r \in Requests : conn'[r].state # "absent" =>
           conn[r].state # "absent" /\ conn'[r].promise = conn[r].promise
  PROVE  OrderlyInv'
  <1> SUFFICES ASSUME ~LateCalls PROVE OrderlyInv'
    BY DEF OrderlyInv
  <1>0. ioq \in Seq(Tasks)
    BY DEF Types
  <1>1. /\ \A i, j \in 1..Len(ioq') : ioq'[i].t = "handle" /\ ioq'[j].t = "shutdown" => i < j
        /\ Stopped' => \A i \in 1..Len(ioq') : ioq'[i].t # "handle"
    BY <1>0, OrderlyQueueTask DEF PhaseKept
  <1>2. dtor' # "alive" => Calling' = {}
    BY DEF OrderlyInv, Calling, PhaseKept
  <1>3. ASSUME NEW r \in Requests, conn'[r].cancelled, conn'[r].state # "absent",
               conn'[r].state # "Cancelled"
        PROVE  \E k \in Calling' : caller'[k].r = r
    <2>1. conn[r].state \notin {"absent", "Cancelled"} /\ conn[r].cancelled
      BY <1>3
    <2>2. PICK k \in Calling : caller[k].r = r
      BY <2>1 DEF OrderlyInv
    <2>3. k \in Cancellers /\ caller'[k] = caller[k]
      BY <1>3, <2>2 DEF Calling
    <2>4. QED
      BY <2>2, <2>3 DEF Calling
  <1>4. Stopped' => \A r \in Requests : conn'[r].state # "absent" => conn'[r].promise = "dtor"
    BY DEF OrderlyInv, PhaseKept
  <1>5. dtor' \in {"checking", "cleanup", "deleted"} =>
          \A r \in Requests : conn'[r].state = "absent"
    <2>1. dtor \in {"checking", "cleanup", "deleted"} =>
            Stopped /\ \A r \in Requests : conn[r].state = "absent"
      BY DEF OrderlyInv, Stopped
    <2>2. QED
      BY <2>1 DEF PhaseKept
  <1>6. QED
    BY <1>1, <1>2, <1>3, <1>4, <1>5 DEF OrderlyInv

----------------------------------------------------------------------------
(* Whole tasks.                                                            *)

\* A task that takes on no request leaves alone what is submitted.
ThisRequest(s) == ioq[1].t = "handle" /\ ioq[1].r = s

\* While a handle task is the first one, its request is not polled.
LEMMA HandledLater ==
  ASSUME Types, HandleInv, ioq # <<>>, NEW s \in Requests, ThisRequest(s)
  PROVE  /\ conn[s].life = "submitted"
         /\ \A i \in 1..Len(ioq) : ioq[i].t # "performOp" \/ ioq[i].r # s
  <1>1. 1 \in 1..Len(ioq)
    BY DEF Types
  <1>2. conn[s].life = "submitted"
    BY <1>1 DEF HandleInv, ThisRequest
  <1>3. QED
    BY <1>2 DEF HandleInv

\* The end of a task that neither cancels nor stops: what is left to show are the
\* callers, and what is particular to orderly destruction and to sockets.
LEMMA EndsTask ==
  ASSUME Types, HandleInv, DtorInv, ioq # <<>>, ioq[1].t # "shutdown",
         NEW e \in [Requests -> Connection], \A s \in Requests : Idle(e[s]), EndTask(e),
         \A s \in Requests : IF ThisRequest(s) THEN e[s].life \in {"handled", "dropped"}
                             ELSE e[s].life = conn[s].life,
         dtor' = dtor \/ (ioq[1].t = "check" /\ dtor' = "cleanup")
  PROVE  /\ Shifted(e) /\ conn' = [r \in Requests |-> [e[r] EXCEPT !.aborted = 0]]
         /\ conn' \in [Requests -> Connection] /\ ioq' \in Seq(Tasks) /\ dtor' \in Phases
         /\ ConnInv' /\ HandleInv' /\ DtorInv' /\ Known /\ PhaseKept
         /\ \A s \in Requests :
              /\ conn'[s].state = e[s].state /\ conn'[s].promise = e[s].promise
              /\ conn'[s].cancelled = e[s].cancelled
  <1>0. ioq \in Seq(Tasks) /\ dtor \in Phases /\ 1 \in 1..Len(ioq)
    BY DEF Types
  <1>1. Shifted(e) /\ conn' = [r \in Requests |-> [e[r] EXCEPT !.aborted = 0]]
    BY <1>0, QueueStep
  <1>2. /\ conn' \in [Requests -> Connection] /\ ConnInv'
        /\ \A s \in Requests :
             Kept(e[s], conn'[s]) /\ conn'[s].state = e[s].state
    BY <1>1, RestAll, Zenon
  <1>3. /\ LifeStep
        /\ \A s \in Requests : e[s].aborted # 0 => conn'[s].life = "handled"
    BY <1>2 DEF LifeStep, Kept, Idle, Common, ThisRequest
  <1>4. HandleInv'
    BY <1>0, <1>1, <1>3, HandleInvTask, Zenon
  <1>5. Known
    BY <1>3 DEF LifeStep, Known
  <1>6. DtorInv'
    BY <1>0, <1>1, DtorInvTask
  <1>7. ioq[1].t = "check" => dtor = "checking"
    BY <1>0 DEF DtorInv
  <1>8. PhaseKept /\ dtor' \in Phases
    BY <1>0, <1>7 DEF PhaseKept, Stopped, Phases
  <1>9. ioq' \in Seq(Tasks)
    BY <1>1 DEF Shifted
  <1>10. QED
    BY <1>1, <1>2, <1>4, <1>5, <1>6, <1>8, <1>9 DEF Kept

\* A task that touches no connection but the one it may take on.
LEMMA PlainTask ==
  ASSUME IInv, ioq # <<>>, ioq[1].t \notin {"cancel", "shutdown"},
         NEW e \in [Requests -> Connection], EndTask(e),
         \A s \in Requests :
           IF ThisRequest(s)
           THEN /\ Idle(e[s]) /\ e[s].life \in {"handled", "dropped"}
                /\ e[s].promise = conn[s].promise /\ SocketOk(e[s])
                /\ e[s].state # "absent" => ~e[s].cancelled
           ELSE e[s] = conn[s],
         caller' = caller, dtor' = dtor, crashed' = crashed,
         armed' \in BOOLEAN, running' \in BOOLEAN
  PROVE  IInv'
  <1> USE DEF IInv
  <1>1. /\ Types /\ ConnInv /\ HandleInv /\ CallerInv /\ WaitersKnown /\ DtorInv
        /\ OrderlyInv /\ SocketInv
    OBVIOUS
  <1>2. \A s \in Requests : Idle(e[s]) /\ e[s].promise = conn[s].promise
    BY <1>1 DEF ConnInv, Rest
  <1>3. /\ Shifted(e) /\ conn' = [r \in Requests |-> [e[r] EXCEPT !.aborted = 0]]
        /\ conn' \in [Requests -> Connection] /\ ioq' \in Seq(Tasks) /\ dtor' \in Phases
        /\ ConnInv' /\ HandleInv' /\ DtorInv' /\ Known /\ PhaseKept
        /\ \A s \in Requests :
             /\ conn'[s].state = e[s].state /\ conn'[s].promise = e[s].promise
             /\ conn'[s].cancelled = e[s].cancelled
    BY <1>1, <1>2, EndsTask
  <1>4. CallerInv' /\ WaitersKnown'
    BY <1>1, <1>2, <1>3, CallerKept
  <1>5. Types'
    BY <1>1, <1>3 DEF Types
  <1>6. OrderlyInv'
    <2>1. \A r \in Requests : conn'[r].state # "absent" =>
            \/ conn'[r].state = "Cancelled" \/ ~conn'[r].cancelled
            \/ /\ conn[r].state \notin {"absent", "Cancelled"}
               /\ conn'[r].cancelled = conn[r].cancelled
      BY <1>3
    <2>2. ~LateCalls /\ Stopped => \A r \in Requests : conn'[r].state # "absent" =>
            conn[r].state # "absent" /\ conn'[r].promise = conn[r].promise
      <3>1. 1 \in 1..Len(ioq)
        BY <1>1 DEF Types
      <3>2. ~LateCalls /\ Stopped => ioq[1].t # "handle"
        BY <1>1, <3>1 DEF OrderlyInv
      <3>3. QED
        BY <1>3, <3>2 DEF ThisRequest
    <2>3. caller' \in [Cancellers -> [at : Places, r : Requests \cup {"none"}]]
      BY <1>1 DEF Types
    <2>4. QED
      BY <1>1, <1>3, <2>1, <2>2, <2>3, OrderlyTask
  <1>7. SocketInv'
    <2> SUFFICES ASSUME ~CurlGaps, ~PollErrors PROVE SocketInv'
      BY DEF SocketInv
    <2>1. ~crashed'
      BY <1>1 DEF SocketInv
    <2>2. \A s \in Requests : SocketOk(e[s])
      BY <1>1 DEF SocketInv
    <2>3. ASSUME NEW s \in Requests, NEW i \in 1..Len(ioq),
                 e[s].state # "absent", e[s].action = 0
          PROVE  ioq[i].t # "performOp" \/ ioq[i].r # s
      <3>1. CASE ThisRequest(s)
        BY <1>1, <3>1, HandledLater
      <3>2. CASE ~ThisRequest(s)
        BY <1>1, <2>3, <3>2 DEF SocketInv
      <3>3. QED
        BY <3>1, <3>2
    <2>4. ioq \in Seq(Tasks)
      BY <1>1 DEF Types
    <2>5. QED
      BY <1>2, <2>1, <2>2, <2>3, <2>4, SocketTask, Zenon
  <1>8. QED
    BY <1>3, <1>4, <1>5, <1>6, <1>7

\* The connections when a task calls libcurl, or comes to checkHandles.
Base(b) ==
  \A s \in Requests :
    /\ b[s] \in Connection /\ Busy(b[s]) /\ b[s].promise = conn[s].promise
    /\ IF ThisRequest(s)
       THEN b[s].life = "handled" /\ ~b[s].cancelled
       ELSE /\ b[s].life = conn[s].life /\ b[s].cancelled = conn[s].cancelled
            /\ b[s].state = "absent" <=> conn[s].state = "absent"
            /\ b[s].action = conn[s].action

\* A task that ends with checkHandles.
LEMMA CheckedTask ==
  ASSUME IInv, ioq # <<>>, ioq[1].t \notin {"cancel", "shutdown"},
         NEW b, Base(b), NEW e \in [Requests -> Connection], EndTask(e),
         \A s \in Requests : Passes(b[s], e[s]),
         caller' = Released, dtor' = dtor \/ (ioq[1].t = "check" /\ dtor' = "cleanup"),
         armed' \in BOOLEAN, running' \in BOOLEAN, crashed' \in BOOLEAN,
         ~CurlGaps /\ ~PollErrors => ~crashed' /\ \A s \in Requests : SocketOk(b[s])
  PROVE  IInv'
  <1> USE DEF IInv
  <1>1. /\ Types /\ ConnInv /\ HandleInv /\ CallerInv /\ WaitersKnown /\ DtorInv
        /\ OrderlyInv /\ SocketInv
    OBVIOUS
  <1>2. \A s \in Requests :
          /\ Idle(e[s]) /\ e[s].promise = "nobody" /\ e[s].cancelled = b[s].cancelled
          /\ IF ThisRequest(s) THEN e[s].life \in {"handled", "dropped"}
             ELSE e[s].life = conn[s].life
          /\ e[s].state # "absent" =>
               b[s].state # "absent" /\ conn[s].promise = "nobody" /\ Goes(b[s], e[s])
    BY DEF Passes, Base
  <1>3. /\ Shifted(e) /\ conn' = [r \in Requests |-> [e[r] EXCEPT !.aborted = 0]]
        /\ conn' \in [Requests -> Connection] /\ ioq' \in Seq(Tasks) /\ dtor' \in Phases
        /\ ConnInv' /\ HandleInv' /\ DtorInv' /\ Known /\ PhaseKept
        /\ \A s \in Requests :
             /\ conn'[s].state = e[s].state /\ conn'[s].promise = e[s].promise
             /\ conn'[s].cancelled = e[s].cancelled
    BY <1>1, <1>2, EndsTask
  <1>4. /\ CallerInv' /\ WaitersKnown'
        /\ caller' \in [Cancellers -> [at : Places, r : Requests \cup {"none"}]]
        /\ \A k \in Cancellers :
             \/ caller'[k] = caller[k] /\ \A r \in Requests : conn[r].promise # k
             \/ /\ caller'[k] = [at |-> "idle", r |-> "none"]
                /\ \E r \in Requests : conn[r].promise = k /\ Waiting(k, r)
    <2>1. \A s \in Requests : conn'[s].promise = "nobody"
      BY <1>2, <1>3
    <2>2. QED
      BY <1>1, <1>3, <2>1, CallerReleased
  <1>5. Types'
    BY <1>3, <1>4 DEF Types
  <1>6. OrderlyInv'
    <2>1. ASSUME NEW r \in Requests, conn'[r].state # "absent"
          PROVE  /\ \/ ~conn'[r].cancelled
                    \/ /\ conn[r].state \notin {"absent", "Cancelled"}
                       /\ conn'[r].cancelled = conn[r].cancelled
                 /\ conn'[r].promise = conn[r].promise
                 /\ ThisRequest(r) \/ conn[r].state # "absent"
      <3>1. b[r].state # "absent" /\ conn[r].promise = "nobody" /\ conn'[r].promise = "nobody"
        BY <1>2, <1>3, <2>1
      <3>2. conn[r].state # "Cancelled"
        BY <1>1, <3>1 DEF ConnInv, Rest, Idle
      <3>3. conn'[r].cancelled = b[r].cancelled
        BY <1>2, <1>3
      <3>4. QED
        BY <3>1, <3>2, <3>3 DEF Base
    <2>2. ~LateCalls /\ Stopped => \A r \in Requests : conn'[r].state # "absent" =>
            conn[r].state # "absent" /\ conn'[r].promise = conn[r].promise
      <3>1. 1 \in 1..Len(ioq)
        BY <1>1 DEF Types
      <3>2. ~LateCalls /\ Stopped => ioq[1].t # "handle"
        BY <1>1, <3>1 DEF OrderlyInv
      <3>3. QED
        BY <2>1, <3>2 DEF ThisRequest
    <2>3. ASSUME NEW k \in Cancellers
          PROVE  \/ caller'[k] = caller[k]
                 \/ /\ caller'[k].at \in {"idle", "threw"}
                    /\ \A r \in Requests : conn'[r].state \notin {"absent", "Cancelled"} =>
                                             caller[k].r # r
      <3> SUFFICES ASSUME caller'[k] # caller[k]
                   PROVE  /\ caller'[k].at \in {"idle", "threw"}
                          /\ \A r \in Requests :
                               conn'[r].state \notin {"absent", "Cancelled"} => caller[k].r # r
        OBVIOUS
      <3>1. PICK r \in Requests : conn[r].promise = k /\ Waiting(k, r)
        BY <1>4
      <3>2. caller[k].r = r /\ k # "nobody"
        BY <3>1, WhoCancels DEF Waiting
      <3>3. conn'[r].state = "absent"
        BY <1>2, <1>3, <3>1, <3>2, Zenon
      <3>4. caller'[k].at = "idle"
        BY <1>4
      <3>5. QED
        BY <3>2, <3>3, <3>4
    <2>4. QED
      BY <1>1, <1>3, <1>4, <2>1, <2>2, <2>3, OrderlyTask, Zenon
  <1>7. SocketInv'
    <2> SUFFICES ASSUME ~CurlGaps, ~PollErrors PROVE SocketInv'
      BY DEF SocketInv
    <2>1. ASSUME NEW s \in Requests PROVE SocketOk(e[s])
      <3>1. SocketOk(b[s]) /\ Passes(b[s], e[s])
        OBVIOUS
      <3>2. QED
        BY <3>1, SocketPass
    <2>2. ASSUME NEW s \in Requests, NEW i \in 1..Len(ioq),
                 e[s].state # "absent", e[s].action = 0
          PROVE  ioq[i].t # "performOp" \/ ioq[i].r # s
      <3>1. b[s].state # "absent" /\ b[s].action = 0
        BY <1>2, <2>2 DEF Goes
      <3>2. CASE ThisRequest(s)
        BY <1>1, <3>2, HandledLater
      <3>3. CASE ~ThisRequest(s)
        <4>1. conn[s].state # "absent" /\ conn[s].action = 0
          BY <3>1, <3>3 DEF Base
        <4>2. QED
          BY <1>1, <4>1 DEF SocketInv
      <3>4. QED
        BY <3>2, <3>3, Zenon
    <2>3. ioq \in Seq(Tasks)
      BY <1>1 DEF Types
    <2>4. QED
      BY <1>2, <2>1, <2>2, <2>3, SocketTask, Zenon
  <1>8. QED
    BY <1>3, <1>4, <1>5, <1>6, <1>7

----------------------------------------------------------------------------
(* The tasks of the io thread, one by one.                                 *)

\* The task that runs is the first of the queue.
LEMMA FirstTask ==
  ASSUME IInv, NEW t, First(t)
  PROVE  /\ ioq # <<>> /\ Head(ioq) = ioq[1] /\ ioq[1].t = t /\ ioq[1] \in Tasks
         /\ conn \in [Requests -> Connection] /\ 1 \in 1..Len(ioq)
         /\ armed \in BOOLEAN /\ running \in BOOLEAN /\ crashed \in BOOLEAN
         /\ \A s \in Requests : conn[s] \in Connection /\ Rest(conn[s]) /\ Busy(conn[s])
  <1>1. ioq # <<>> /\ ioq \in Seq(Tasks) /\ Head(ioq).t = t
    BY DEF First, IInv, Types
  <1>2. Head(ioq) = ioq[1] /\ ioq[1] \in Tasks /\ 1 \in 1..Len(ioq)
    BY <1>1, HeadTask
  <1>3. /\ conn \in [Requests -> Connection]
        /\ armed \in BOOLEAN /\ running \in BOOLEAN /\ crashed \in BOOLEAN
    BY DEF IInv, Types
  <1>4. \A s \in Requests : conn[s] \in Connection /\ Rest(conn[s])
    BY <1>3 DEF IInv, ConnInv
  <1>5. \A s \in Requests : Busy(conn[s])
    BY <1>4 DEF Rest, Idle, Busy
  <1>6. QED
    BY <1>1, <1>2, <1>3, <1>4, <1>5, Zenon

\* A handle task finds its request submitted.
LEMMA FirstHandle ==
  ASSUME IInv, First("handle")
  PROVE  /\ Head(ioq).r \in Requests /\ conn[Head(ioq).r] \in Connection
         /\ Rest(conn[Head(ioq).r]) /\ conn[Head(ioq).r].life = "submitted"
         /\ \A s \in Requests : ThisRequest(s) <=> s = Head(ioq).r
  <1>1. Head(ioq) = ioq[1] /\ ioq[1].t = "handle" /\ ioq[1] \in Tasks /\ 1 \in 1..Len(ioq)
    BY FirstTask, Zenon
  <1>2. ioq[1].r \in Requests
    BY <1>1, TaskShape
  <1>3. conn[ioq[1].r].life = "submitted"
    BY <1>1 DEF IInv, HandleInv
  <1>4. conn[ioq[1].r] \in Connection /\ Rest(conn[ioq[1].r])
    BY <1>2, FirstTask, Zenon
  <1>5. QED
    BY <1>1, <1>2, <1>3, <1>4 DEF ThisRequest

\* A handle task that does not call libcurl.
LEMMA SettledTask ==
  ASSUME IInv, First("handle"), NEW y, Settled(conn[Head(ioq).r], y),
         EndTask([conn EXCEPT ![Head(ioq).r] = y]),
         caller' = caller, dtor' = dtor, crashed' = crashed,
         armed' \in BOOLEAN, running' \in BOOLEAN
  PROVE  IInv'
  <1> DEFINE r == Head(ioq).r
             e == [conn EXCEPT ![r] = y]
  <1>1. /\ ioq # <<>> /\ ioq[1].t = "handle" /\ conn \in [Requests -> Connection]
        /\ r \in Requests /\ \A s \in Requests : ThisRequest(s) <=> s = r
    BY FirstTask, FirstHandle, Zenon
  <1>2. y \in Connection
    BY Zenon DEF Settled
  <1>3. /\ e \in [Requests -> Connection]
        /\ \A s \in Requests : e[s] = IF s = r THEN y ELSE conn[s]
    BY <1>1, <1>2, Zenon
  <1>4. EndTask(e)
    OBVIOUS
  <1>5. Settled(conn[r], y)
    OBVIOUS
  <1> HIDE DEF e, r
  <1>6. \A s \in Requests :
          IF ThisRequest(s)
          THEN /\ Idle(e[s]) /\ e[s].life \in {"handled", "dropped"}
               /\ e[s].promise = conn[s].promise /\ SocketOk(e[s])
               /\ e[s].state # "absent" => ~e[s].cancelled
          ELSE e[s] = conn[s]
    BY <1>1, <1>3, <1>5 DEF Settled
  <1>7. ioq[1].t \notin {"cancel", "shutdown"}
    BY <1>1
  <1>8. QED
    BY <1>1, <1>3, <1>4, <1>6, <1>7, PlainTask

\* handleRequest keeps the invariant when it refuses a request or cannot set it up.
LEMMA HandleStep ==
  ASSUME IInv, HandleRefused \/ HandleUnconfigured \/ HandleNotAdded
  PROVE  IInv'
  <1> DEFINE r == Head(ioq).r
  <1>1. /\ First("handle") /\ caller' = caller /\ dtor' = dtor /\ crashed' = crashed
        /\ armed' = armed /\ running' = running
    BY DEF HandleRefused, HandleUnconfigured, HandleNotAdded
  <1>2. /\ r \in Requests /\ conn[r] \in Connection /\ Rest(conn[r])
        /\ conn[r].life = "submitted"
    BY <1>1, FirstHandle, Zenon
  <1>3. armed' \in BOOLEAN /\ running' \in BOOLEAN
    BY <1>1 DEF IInv, Types
  <1> DEFINE y == [conn[r] EXCEPT !.life = "dropped"]
             z == complete(configureRequest(conn[r]))
  <1>4. Settled(conn[r], y) /\ complete(y) = y
    BY <1>2, DroppedStep, Zenon
  <1>5. Settled(conn[r], z)
    BY <1>2, ConfiguredStep, Zenon
  <1>6. EndTask([conn EXCEPT ![r] = y]) \/ EndTask([conn EXCEPT ![r] = z])
    <2>1. CASE HandleRefused
      BY <2>1 DEF HandleRefused
    <2>2. CASE HandleUnconfigured
      <3>1. EndTask([conn EXCEPT ![r] = complete(y)])
        BY <2>2 DEF HandleUnconfigured
      <3>2. QED
        BY <3>1, <1>4, Zenon
    <2>3. CASE HandleNotAdded
      BY <2>3 DEF HandleNotAdded
    <2>4. QED
      BY <2>1, <2>2, <2>3
  <1> HIDE DEF y, z, r
  <1>7. QED
    BY <1>1, <1>3, <1>4, <1>5, <1>6, SettledTask, Zenon DEF r

\* The timer of libcurl is armed or not.
LEMMA TimerType ==
  ASSUME armed \in BOOLEAN, NEW c, curl_timer_cb(c)
  PROVE  armed' \in BOOLEAN
  BY Zenon DEF curl_timer_cb

\* A task that drives the transfers of b and then calls checkHandles.
LEMMA DrivenTask ==
  ASSUME IInv, ioq # <<>>, ioq[1].t \notin {"cancel", "shutdown"},
         NEW b \in [Requests -> Connection], Base(b),
         NEW d \in AllDriven(b), EndTask(checkHandles(d)), caller' = Released,
         dtor' = dtor, armed' \in BOOLEAN, running' \in BOOLEAN, crashed' \in BOOLEAN,
         ~CurlGaps /\ ~PollErrors => ~crashed' /\ \A s \in Requests : SocketOk(b[s])
  PROVE  IInv'
  <1>1. \A s \in Requests : Busy(b[s])
    BY DEF Base
  <1> DEFINE e == checkHandles(d)
  <1>2. e \in [Requests -> Connection] /\ \A s \in Requests : Passes(b[s], e[s])
    BY <1>1, DrivenChecked, Zenon
  <1> HIDE DEF e
  <1>3. EndTask(e)
    BY DEF e
  <1>4. QED
    BY <1>2, <1>3, CheckedTask, Zenon

\* Nothing is changed before libcurl is called.
LEMMA BaseConn ==
  ASSUME IInv, NEW t, First(t), t # "handle"
  PROVE  /\ Base(conn) /\ conn \in [Requests -> Connection]
         /\ ~CurlGaps /\ ~PollErrors => ~crashed /\ \A s \in Requests : SocketOk(conn[s])
  <1>1. /\ conn \in [Requests -> Connection] /\ ioq[1].t = t
        /\ \A s \in Requests : conn[s] \in Connection /\ Busy(conn[s])
    BY FirstTask, Zenon
  <1>2. Base(conn)
    BY <1>1 DEF Base, ThisRequest
  <1>3. ~CurlGaps /\ ~PollErrors => ~crashed /\ \A s \in Requests : SocketOk(conn[s])
    BY DEF IInv, SocketInv
  <1>4. QED
    BY <1>1, <1>2, <1>3

\* handleRequest keeps the invariant when it takes a request on.
LEMMA HandleRequestStep ==
  ASSUME IInv, handleRequest
  PROVE  IInv'
  <1> DEFINE r == Head(ioq).r
             y == [configureRequest(conn[r]) EXCEPT !.state = "Default", !.easy = "connecting"]
             b == Added(r)
  <1>1. /\ First("handle") /\ running' = running /\ crashed' = crashed /\ dtor' = dtor
        /\ \/ EndTask(b) /\ armed' = TRUE /\ caller' = caller
           \/ \E e \in AllDriven(b) : /\ EndTask(checkHandles(e))
                                      /\ curl_timer_cb(checkHandles(e))
                                      /\ caller' = Released
    BY DEF handleRequest
  <1>2. /\ ioq # <<>> /\ ioq[1].t = "handle" /\ conn \in [Requests -> Connection]
        /\ armed \in BOOLEAN /\ running \in BOOLEAN /\ crashed \in BOOLEAN
        /\ \A s \in Requests : conn[s] \in Connection /\ Rest(conn[s]) /\ Busy(conn[s])
    BY <1>1, FirstTask, Zenon
  <1>3. /\ r \in Requests /\ conn[r] \in Connection /\ Rest(conn[r])
        /\ conn[r].life = "submitted" /\ \A s \in Requests : ThisRequest(s) <=> s = r
    BY <1>1, FirstHandle, Zenon
  <1>4. /\ Settled(conn[r], y) /\ Busy(y) /\ y.life = "handled" /\ ~y.cancelled
    BY <1>3, AddedStep, Zenon
  <1>5. y \in Connection /\ y.promise = conn[r].promise /\ SocketOk(y)
    BY <1>4 DEF Settled
  <1>6. b = [conn EXCEPT ![r] = y]
    BY DEF Added
  <1> HIDE DEF b, y, r
  <1>7. b \in [Requests -> Connection] /\ \A s \in Requests : b[s] = IF s = r THEN y ELSE conn[s]
    BY <1>2, <1>3, <1>5, <1>6
  <1>8. CASE EndTask(b) /\ armed' = TRUE /\ caller' = caller
    <2>1. EndTask([conn EXCEPT ![Head(ioq).r] = y]) /\ Settled(conn[Head(ioq).r], y)
      BY <1>4, <1>6, <1>8 DEF r
    <2>2. armed' \in BOOLEAN /\ running' \in BOOLEAN
      BY <1>1, <1>2, <1>8
    <2>3. QED
      BY <1>1, <1>8, <2>1, <2>2, SettledTask, Zenon
  <1>9. ASSUME NEW e \in AllDriven(b), EndTask(checkHandles(e)),
               curl_timer_cb(checkHandles(e)), caller' = Released
        PROVE  IInv'
    <2>1. Base(b)
      BY <1>2, <1>3, <1>4, <1>5, <1>7, Zenon DEF Base
    <2>2. ~CurlGaps /\ ~PollErrors => ~crashed' /\ \A s \in Requests : SocketOk(b[s])
      BY <1>1, <1>5, <1>7 DEF IInv, SocketInv
    <2>3. armed' \in BOOLEAN
      BY <1>2, <1>9, TimerType, Zenon
    <2>4. running' \in BOOLEAN /\ crashed' \in BOOLEAN /\ ioq[1].t \notin {"cancel", "shutdown"}
      BY <1>1, <1>2
    <2>5. QED
      BY <1>1, <1>2, <1>7, <1>9, <2>1, <2>2, <2>3, <2>4, DrivenTask, Zenon
  <1>10. QED
    BY <1>1, <1>8, <1>9, Zenon

\* The timer's task keeps the invariant.
LEMMA TimerStep ==
  ASSUME IInv, timer_cb
  PROVE  IInv'
  <1>1. /\ First("timer") /\ running' = running /\ crashed' = crashed /\ dtor' = dtor
        /\ caller' = Released
    BY DEF timer_cb
  <1>2. PICK d \in AllDriven(conn) :
          EndTask(checkHandles(d)) /\ curl_timer_cb(checkHandles(d))
    BY DEF timer_cb
  <1>3. /\ ioq # <<>> /\ ioq[1].t = "timer"
        /\ armed \in BOOLEAN /\ running \in BOOLEAN /\ crashed \in BOOLEAN
    BY <1>1, FirstTask, Zenon
  <1>4. /\ Base(conn) /\ conn \in [Requests -> Connection]
        /\ ~CurlGaps /\ ~PollErrors => ~crashed /\ \A s \in Requests : SocketOk(conn[s])
    BY <1>1, BaseConn
  <1>5. armed' \in BOOLEAN
    BY <1>2, <1>3, TimerType, Zenon
  <1>6. /\ running' \in BOOLEAN /\ crashed' \in BOOLEAN
        /\ ioq[1].t \notin {"cancel", "shutdown"}
        /\ ~CurlGaps /\ ~PollErrors => ~crashed' /\ \A s \in Requests : SocketOk(conn[s])
    BY <1>1, <1>3, <1>4
  <1>7. QED
    BY <1>1, <1>2, <1>3, <1>4, <1>5, <1>6, DrivenTask, Zenon

\* A task that only calls checkHandles, with the connections of b.
LEMMA CheckTask ==
  ASSUME IInv, NEW t \in {"performOp", "check"}, First(t),
         NEW b \in [Requests -> Connection], Base(b), EndTask(checkHandles(b)),
         caller' = Released, dtor' = dtor \/ (t = "check" /\ dtor' = "cleanup"),
         armed' = armed, running' = running, crashed' = crashed,
         ~CurlGaps /\ ~PollErrors => ~crashed /\ \A s \in Requests : SocketOk(b[s])
  PROVE  IInv'
  <1>1. \A s \in Requests : Busy(b[s])
    BY DEF Base
  <1>2. /\ ioq # <<>> /\ ioq[1].t = t
        /\ armed \in BOOLEAN /\ running \in BOOLEAN /\ crashed \in BOOLEAN
    BY FirstTask, Zenon
  <1> DEFINE e == checkHandles(b)
  <1>3. e \in [Requests -> Connection] /\ \A s \in Requests : Passes(b[s], e[s])
    BY <1>1, OnlyChecked, Zenon
  <1> HIDE DEF e
  <1>4. EndTask(e)
    BY DEF e
  <1>5. /\ ioq[1].t \notin {"cancel", "shutdown"}
        /\ dtor' = dtor \/ (ioq[1].t = "check" /\ dtor' = "cleanup")
        /\ armed' \in BOOLEAN /\ running' \in BOOLEAN /\ crashed' \in BOOLEAN
    BY <1>2
  <1>6. QED
    BY <1>2, <1>3, <1>4, <1>5, CheckedTask, Zenon

\* A wait that failed with an error completes its connection, whatever its state.
LEMMA FailedStep ==
  ASSUME NEW x \in Connection, Busy(x), x.life = "handled", PollErrors
  PROVE  /\ complete(x) \in Connection /\ Busy(complete(x))
         /\ complete(x).promise = x.promise /\ complete(x).life = x.life
         /\ complete(x).cancelled = x.cancelled /\ complete(x).state = x.state
         /\ complete(x).action = x.action
  <1> DEFINE y == complete(x)
  <1>1. /\ y \in Connection /\ y.notified /\ y.life = x.life /\ y.state = x.state
        /\ y.easy = x.easy /\ y.cancelled = x.cancelled /\ y.promise = x.promise
        /\ y.action = x.action
    BY CompleteStep
  <1> HIDE DEF y
  <1>2. Busy(y)
    BY <1>1 DEF Busy, Common
  <1>3. QED
    BY <1>1, <1>2 DEF y

\* A performOp task is for a connection that was taken on.
LEMMA FirstPoll ==
  ASSUME IInv, First("performOp")
  PROVE  /\ Head(ioq).r \in Requests /\ conn[Head(ioq).r].life = "handled"
         /\ Head(ioq).ec \in Outcomes /\ Head(ioq) = ioq[1] /\ ioq[1].t = "performOp"
         /\ ~CurlGaps /\ ~PollErrors /\ conn[Head(ioq).r].state # "absent" =>
              conn[Head(ioq).r].action # 0
  <1>1. Head(ioq) = ioq[1] /\ ioq[1].t = "performOp" /\ ioq[1] \in Tasks /\ 1 \in 1..Len(ioq)
    BY FirstTask, Zenon
  <1>2. ioq[1].r \in Requests /\ ioq[1].ec \in Outcomes
    BY <1>1, TaskShape
  <1>3. conn[ioq[1].r].life = "handled"
    BY <1>1 DEF IInv, HandleInv
  <1>4. ~CurlGaps /\ ~PollErrors /\ conn[ioq[1].r].state # "absent" => conn[ioq[1].r].action # 0
    BY <1>1, <1>2 DEF IInv, SocketInv
  <1>5. QED
    BY <1>1, <1>2, <1>3, <1>4

\* performOp of a wait that failed keeps the invariant.
LEMMA PollFailedStep ==
  ASSUME IInv, PollFailed
  PROVE  IInv'
  <1> DEFINE r == Head(ioq).r
             b == IF Head(ioq).ec = "aborted" THEN conn ELSE [conn EXCEPT ![r] = complete(@)]
  <1>1. /\ First("performOp") /\ Head(ioq).ec # "ok" /\ EndTask(checkHandles(b))
        /\ caller' = Released /\ armed' = armed /\ running' = running
        /\ crashed' = crashed /\ dtor' = dtor
    BY Zenon DEF PollFailed
  <1>2. /\ conn \in [Requests -> Connection] /\ Base(conn)
        /\ ~CurlGaps /\ ~PollErrors => ~crashed /\ \A s \in Requests : SocketOk(conn[s])
    BY <1>1, BaseConn
  <1>3. /\ r \in Requests /\ conn[r].life = "handled" /\ Head(ioq).ec \in Outcomes
        /\ Head(ioq) = ioq[1] /\ ioq[1].t = "performOp"
    BY <1>1, FirstPoll, Zenon
  <1>4. /\ Base(b) /\ b \in [Requests -> Connection]
        /\ ~CurlGaps /\ ~PollErrors => ~crashed /\ \A s \in Requests : SocketOk(b[s])
    <2>1. CASE Head(ioq).ec = "aborted"
      BY <1>2, <2>1
    <2>2. CASE Head(ioq).ec # "aborted"
      <3>1. PollErrors
        BY <1>1, <1>3, <2>2 DEF Outcomes
      <3> DEFINE y == complete(conn[r])
      <3>2. conn[r] \in Connection /\ Busy(conn[r])
        BY <1>2, <1>3 DEF Base
      <3>3. /\ y \in Connection /\ Busy(y)
            /\ y.promise = conn[r].promise /\ y.life = conn[r].life
            /\ y.cancelled = conn[r].cancelled /\ y.state = conn[r].state
            /\ y.action = conn[r].action
        BY <1>3, <3>1, <3>2, FailedStep, Zenon
      <3>4. b = [conn EXCEPT ![r] = y]
        BY <2>2
      <3> HIDE DEF y, b, r
      <3>5. /\ b \in [Requests -> Connection]
            /\ \A s \in Requests : b[s] = IF s = r THEN y ELSE conn[s]
        BY <1>2, <1>3, <3>3, <3>4, Zenon
      <3>6. Base(b)
        BY <1>2, <1>3, <3>3, <3>5, Zenon DEF Base, ThisRequest
      <3>7. QED
        BY <3>1, <3>5, <3>6
    <2>3. QED
      BY <2>1, <2>2
  <1> HIDE DEF b, r
  <1>5. QED
    BY <1>1, <1>4, CheckTask

\* performOp keeps the invariant when its connection is no longer tracked.
LEMMA PollUntrackedStep ==
  ASSUME IInv, PollUntracked
  PROVE  IInv'
  <1>1. /\ First("performOp") /\ EndTask(conn) /\ caller' = caller /\ armed' = armed
        /\ running' = running /\ crashed' = crashed /\ dtor' = dtor
    BY DEF PollUntracked
  <1>2. /\ ioq # <<>> /\ ioq[1].t = "performOp" /\ conn \in [Requests -> Connection]
        /\ armed \in BOOLEAN /\ running \in BOOLEAN
    BY <1>1, FirstTask, Zenon
  <1>3. \A s \in Requests : ~ThisRequest(s)
    BY <1>2 DEF ThisRequest
  <1>4. ioq[1].t \notin {"cancel", "shutdown"} /\ armed' \in BOOLEAN /\ running' \in BOOLEAN
    BY <1>1, <1>2
  <1>5. QED
    BY <1>1, <1>2, <1>3, <1>4, PlainTask, Zenon

\* The last task of the destructor keeps the invariant.
LEMMA LastCheckStep ==
  ASSUME IInv, LastCheck
  PROVE  IInv'
  <1>1. /\ First("check") /\ EndTask(checkHandles(conn)) /\ caller' = Released
        /\ dtor' = "cleanup" /\ armed' = armed /\ running' = running /\ crashed' = crashed
    BY DEF LastCheck
  <1>2. /\ conn \in [Requests -> Connection] /\ Base(conn)
        /\ ~CurlGaps /\ ~PollErrors => ~crashed /\ \A s \in Requests : SocketOk(conn[s])
    BY <1>1, BaseConn
  <1>3. QED
    BY <1>1, <1>2, CheckTask

\* What does not touch the connections, the queue and the threads keeps these parts.
LEMMA SameParts ==
  ASSUME IInv, UNCHANGED <<conn, ioq, caller, dtor>>
  PROVE  /\ ConnInv' /\ HandleInv' /\ CallerInv' /\ WaitersKnown' /\ DtorInv'
         /\ OrderlyInv'
  <1>1. ConnInv'
    BY Zenon DEF IInv, ConnInv
  <1>2. HandleInv'
    BY Zenon DEF IInv, HandleInv
  <1>3. CallerInv'
    BY Zenon DEF IInv, CallerInv, Waiting
  <1>4. WaitersKnown'
    BY Zenon DEF IInv, WaitersKnown
  <1>5. DtorInv'
    BY Zenon DEF IInv, DtorInv
  <1>6. OrderlyInv'
    <2>1. Stopped' = Stopped /\ Calling' = Calling
      BY Zenon DEF Stopped, Calling
    <2>2. QED
      BY <2>1, Zenon DEF IInv, OrderlyInv
  <1>7. QED
    BY <1>1, <1>2, <1>3, <1>4, <1>5, <1>6

\* Without gaps and errors a connection whose wait has ended has its socket.
LEMMA DeadSocketStep ==
  ASSUME IInv, PerformOpOnDeadSocket
  PROVE  IInv'
  <1>1. /\ First("performOp") /\ conn[Head(ioq).r].state # "absent"
        /\ conn[Head(ioq).r].socket # "open" /\ crashed' = TRUE
        /\ UNCHANGED <<conn, ioq, armed, running, caller, dtor>>
    BY DEF PerformOpOnDeadSocket
  <1>2. CurlGaps \/ PollErrors
    <2>1. Head(ioq).r \in Requests
      BY <1>1, FirstPoll, Zenon
    <2>2. ~CurlGaps /\ ~PollErrors => conn[Head(ioq).r].action # 0
      BY <1>1, FirstPoll, Zenon
    <2>3. QED
      BY <1>1, <2>1, <2>2 DEF IInv, SocketInv, SocketOk
  <1>3. SocketInv'
    BY <1>2 DEF SocketInv
  <1>4. Types'
    BY <1>1, Zenon DEF IInv, Types
  <1>5. ConnInv' /\ HandleInv' /\ CallerInv' /\ WaitersKnown' /\ DtorInv' /\ OrderlyInv'
    BY <1>1, SameParts, Zenon
  <1>6. QED
    BY <1>3, <1>4, <1>5 DEF IInv

\* performOp of a socket that is ready keeps the invariant.
LEMMA PerformOpStep ==
  ASSUME IInv, performOp
  PROVE  IInv'
  <1> DEFINE r == Head(ioq).r
             y == [conn[r] EXCEPT !.state = "PerformIo"]
             b == [conn EXCEPT ![r].state = "PerformIo"]
  <1>1. /\ First("performOp") /\ conn[r].state # "absent" /\ caller' = Released
        /\ running' = running /\ dtor' = dtor
    BY DEF performOp
  <1>2. /\ ioq # <<>> /\ ioq[1].t = "performOp" /\ conn \in [Requests -> Connection]
        /\ armed \in BOOLEAN /\ running \in BOOLEAN /\ crashed \in BOOLEAN
    BY <1>1, FirstTask, Zenon
  <1>3. /\ r \in Requests /\ Head(ioq) = ioq[1]
        /\ ~CurlGaps /\ ~PollErrors => conn[r].action # 0
    BY <1>1, FirstPoll, Zenon
  <1>4. conn[r] \in Connection /\ Rest(conn[r])
    BY <1>1, <1>3, FirstTask, Zenon
  <1>5. /\ y \in Connection /\ Busy(y) /\ Kept(conn[r], y) /\ y.state = "PerformIo"
        /\ y.action = conn[r].action
        /\ conn[r].action # 0 /\ SocketOk(conn[r]) => SocketOk(y)
    BY <1>1, <1>4, PerformStep, Zenon
  <1>6. b = [conn EXCEPT ![r] = y]
    OBVIOUS
  <1>7. PICK d \in AllDriven(b) :
          LET c == checkHandles(d)
              again == c[r].action # 0 /\ c[r].state # "absent"
          IN IF \A s \in Requests : d[s].easy \notin Unfinished
             THEN EndTask(c) /\ armed' = FALSE /\ UNCHANGED crashed
             ELSE /\ curl_timer_cb(c)
                  /\ crashed' = (again /\ c[r].socket # "open")
                  /\ LET e == [c EXCEPT ![r] = poll([@ EXCEPT !.state = "Default"])]
                     IN IF again THEN WaitsBound(e) /\ EndTask(e) ELSE EndTask(c)
    BY Zenon DEF performOp
  <1> HIDE DEF b, y
  <1>8. b \in [Requests -> Connection] /\ \A s \in Requests : b[s] = IF s = r THEN y ELSE conn[s]
    BY <1>2, <1>3, <1>5, <1>6, Zenon
  <1>9. Base(b)
    <2>1. Base(conn)
      BY <1>1, BaseConn, Zenon
    <2>2. QED
      BY <1>1, <1>2, <1>5, <1>8, <2>1, Zenon DEF Base, ThisRequest, Kept
  <1>10. ~CurlGaps /\ ~PollErrors => ~crashed /\ \A s \in Requests : SocketOk(b[s])
    BY <1>3, <1>5, <1>8 DEF IInv, SocketInv
  <1> DEFINE c == checkHandles(d)
             again == c[r].action # 0 /\ c[r].state # "absent"
             z == poll([c[r] EXCEPT !.state = "Default"])
             e == [c EXCEPT ![r] = z]
  <1>11. c \in [Requests -> Connection] /\ \A s \in Requests : Passes(b[s], c[s])
    <2>1. \A s \in Requests : Busy(b[s])
      BY <1>9 DEF Base
    <2>2. QED
      BY <1>8, <2>1, DrivenChecked, Zenon
  <1>12. \/ EndTask(c) /\ armed' = FALSE /\ crashed' = crashed
         \/ /\ curl_timer_cb(c) /\ crashed' = (again /\ c[r].socket # "open")
            /\ (~again /\ EndTask(c)) \/ (again /\ EndTask(e))
    BY <1>7, Zenon
  <1> HIDE DEF c
  <1>13. armed' \in BOOLEAN /\ crashed' \in BOOLEAN /\ running' \in BOOLEAN
         /\ ioq[1].t \notin {"cancel", "shutdown"}
    BY <1>1, <1>2, <1>12, TimerType, Zenon
  <1>14. ~CurlGaps /\ ~PollErrors => ~crashed' /\ \A s \in Requests : SocketOk(b[s])
    <2> SUFFICES ASSUME ~CurlGaps, ~PollErrors PROVE ~crashed'
      BY <1>10, Zenon
    <2>1. SocketOk(b[r]) /\ Passes(b[r], c[r])
      BY <1>3, <1>10, <1>11, Zenon
    <2>2. SocketOk(c[r])
      BY <2>1, SocketPass, Zenon
    <2>3. again => c[r].socket = "open"
      BY <2>2 DEF SocketOk
    <2>4. QED
      BY <1>10, <1>12, <2>3, Zenon
  <1>15. CASE EndTask(c)
    BY <1>1, <1>2, <1>9, <1>11, <1>13, <1>14, <1>15, CheckedTask, Zenon
  <1>16. CASE again /\ EndTask(e)
    <2>1. c[r] \in Connection /\ Passes(b[r], c[r])
      BY <1>3, <1>11
    <2>2. Passes(b[r], z)
      BY <1>16, <2>1, AgainStep, Zenon
    <2>3. z \in Connection
      BY <2>2, Zenon DEF Passes
    <2> HIDE DEF z
    <2>4. /\ e \in [Requests -> Connection]
          /\ \A s \in Requests : e[s] = IF s = r THEN z ELSE c[s]
      BY <1>3, <1>11, <2>3, Zenon
    <2> HIDE DEF e
    <2>5. \A s \in Requests : Passes(b[s], e[s])
      BY <1>11, <2>2, <2>4, Zenon
    <2>6. EndTask(e)
      BY <1>16
    <2>7. QED
      BY <1>1, <1>2, <1>9, <1>13, <1>14, <2>4, <2>5, <2>6, CheckedTask, Zenon
  <1>17. QED
    BY <1>12, <1>15, <1>16
==============================================================================
