-------------------------- MODULE HttpServerProofs --------------------------
(***************************************************************************)
(* Proofs that the invariant Inv of HttpServer is inductive, of the safety *)
(* properties that follow from it, that HttpServer implements              *)
(* ServerContract, and that stop() leaves no connection behind, for every  *)
(* set of connections, acceptors and handler threads.                      *)
(*                                                                         *)
(* The steps fall in three groups.  The steps of a connection's flow       *)
(* (FlowStep) touch one connection: four lemmas say what they leave alone  *)
(* and that they keep the invariant of that connection, and FlowInv draws  *)
(* the consequences for the whole state.  The steps of the accept handlers *)
(* and of the main thread are treated one by one.                          *)
(***************************************************************************)
EXTENDS HttpServer, FiniteSetTheorems, TLAPS

FlowStep(c) ==
  IoCompletes(c) \/ TlsClosed(c) \/ Unlock(c) \/ ConnStep(c) \/ HandlerStep(c)

Frame(c) ==
  /\ UNCHANGED mainVars
  /\ UNCHANGED accVars
  /\ UNCHANGED listVars \/ (Unlist(c) /\ pc[c] \in {"unlist", "dtorUnlist"})

Others(c) ==
  \A d \in Conns \ {c} :
    /\ pc'[d] = pc[d] /\ mutex'[d] = mutex[d]
    /\ isOwned'[d] = isOwned[d] /\ resume'[d] = resume[d]
    /\ shouldBeDeleted'[d] = shouldBeDeleted[d] /\ op'[d] = op[d]
    /\ tls'[d] = tls[d]

LocalStep(c) ==
  /\ Others(c)
  /\ ConnInv(c)'
  /\ pc[c] = "accept" => pc'[c] = "accept"
  /\ shouldBeDeleted[c] /\ c \in connections' => shouldBeDeleted'[c]

\* A flow leaves the main thread and the acceptors alone, and takes at most its own
\* connection off the list.
LEMMA FlowFrame ==
  ASSUME NEW c \in Conns, FlowStep(c)
  PROVE  Frame(c)
<1> USE DEF Frame
<1>1. CASE IoCompletes(c) BY <1>1 DEF IoCompletes
<1>2. CASE Unlock(c) BY <1>2 DEF Unlock
<1>3. CASE StartConnection(c) BY <1>3 DEF StartConnection
<1>4. CASE HandshakeDone(c) BY <1>4 DEF HandshakeDone
<1>5. CASE read_request(c) BY <1>5 DEF read_request, connection_notify_request
<1>6. CASE InvalidRequest(c) BY <1>6 DEF InvalidRequest
<1>7. CASE async_read_some(c) BY <1>7 DEF async_read_some, StartOp
<1>8. CASE ReadDone(c) BY <1>8 DEF ReadDone
<1>9. CASE SendBadRequest(c) BY <1>9 DEF SendBadRequest, sendResponse
<1>10. CASE async_write(c) BY <1>10 DEF async_write, StartOp
<1>11. CASE write_chunk(c) BY <1>11 DEF write_chunk
<1>12. CASE WriteDone(c) BY <1>12 DEF WriteDone, connection_recycle
<1>13. CASE async_read_body(c) BY <1>13 DEF async_read_body, StartOp
<1>14. CASE BodyDone(c) BY <1>14 DEF BodyDone
<1>15. CASE destroy(c) BY <1>15 DEF destroy, DestroyMark
<1>16. CASE DestroyUnlist(c) BY <1>16 DEF DestroyUnlist
<1>17. CASE release(c) BY <1>17 DEF release
<1>18. CASE DtorMark(c) BY <1>18 DEF DtorMark, DestroyMark
<1>19. CASE DtorUnlist(c) BY <1>19 DEF DtorUnlist
<1>20. CASE DtorDone(c) BY <1>20 DEF DtorDone
<1>21. ASSUME NEW t \in HandlerThreads, HandlerSend(c, t) PROVE Frame(c)
  BY <1>21 DEF HandlerSend, sendResponse
<1>22. ASSUME NEW t \in HandlerThreads, HandlerRelease(c, t) PROVE Frame(c)
  BY <1>22 DEF HandlerRelease
<1>23. ASSUME NEW t \in HandlerThreads, HandlerRead(c, t) PROVE Frame(c)
  BY <1>23 DEF HandlerRead
<1>24. ASSUME NEW t \in HandlerThreads, HandlerSource(c, t) PROVE Frame(c)
  BY <1>24 DEF HandlerSource
<1>25. CASE TlsClosed(c) BY <1>25 DEF TlsClosed
<1> QED BY <1>1, <1>2, <1>3, <1>4, <1>5, <1>6, <1>7, <1>8, <1>9, <1>10, <1>11,
     <1>12, <1>13, <1>14, <1>15, <1>16, <1>17, <1>18, <1>19, <1>20, <1>21,
     <1>22, <1>23, <1>24, <1>25, Zenon
    DEF FlowStep, ConnStep, HandlerStep, HandlerEnds

\* A flow keeps the types of pc, runner and mutex.
LEMMA FlowTypes ==
  ASSUME Inv, NEW c \in Conns, FlowStep(c)
  PROVE  FlowTypeOK'
<1>0. FlowTypeOK BY DEF Inv, TypeOK
<1> USE <1>0, ThreadsAssumption 
         DEF FlowTypeOK, Places, Waiting, Closing, ClosingLocked, Threads
<1>1. CASE IoCompletes(c) BY <1>1 DEF IoCompletes
<1>2. CASE Unlock(c) BY <1>2 DEF Unlock, flagVars
<1>3. CASE StartConnection(c) BY <1>3 DEF StartConnection, Goto, StartedOp
<1>4. CASE HandshakeDone(c) BY <1>4 DEF HandshakeDone, Goto
<1>5. CASE read_request(c) BY <1>5 DEF read_request, connection_notify_request, Goto
<1>6. CASE InvalidRequest(c) BY <1>6 DEF InvalidRequest, Goto
<1>7. CASE async_read_some(c)
  BY <1>7 DEF async_read_some, StartOp, Goto, StartedOp
<1>8. CASE ReadDone(c) BY <1>8 DEF ReadDone, Goto
<1>9. CASE SendBadRequest(c) BY <1>9 DEF SendBadRequest, sendResponse, Goto
<1>10. CASE async_write(c) BY <1>10 DEF async_write, StartOp, Goto, StartedOp
<1>11. CASE write_chunk(c) BY <1>11 DEF write_chunk, StartedOp
<1>12. CASE WriteDone(c) BY <1>12 DEF WriteDone, connection_recycle, Goto
<1>13. CASE async_read_body(c)
  BY <1>13 DEF async_read_body, StartOp, Goto, StartedOp
<1>14. CASE BodyDone(c) BY <1>14 DEF BodyDone, Goto
<1>15. CASE destroy(c)
  BY <1>15 DEF destroy, DestroyMark, markToBeDeleted, Goto
<1>16. CASE DestroyUnlist(c)
  BY <1>16 DEF DestroyUnlist, Unlist, Goto, flagVars
<1>17. CASE release(c) BY <1>17 DEF release, FreeMemory, Goto, flagVars
<1>18. CASE DtorMark(c)
  BY <1>18 DEF DtorMark, DestroyMark, markToBeDeleted, Goto
<1>19. CASE DtorUnlist(c) BY <1>19 DEF DtorUnlist, Unlist, Goto, flagVars
<1>20. CASE DtorDone(c) BY <1>20 DEF DtorDone, FreeMemory, Goto
<1>21. ASSUME NEW t \in HandlerThreads, HandlerSend(c, t) PROVE FlowTypeOK'
  BY <1>21 DEF HandlerSend, sendResponse, Goto
<1>22. ASSUME NEW t \in HandlerThreads, HandlerRelease(c, t) PROVE FlowTypeOK'
  BY <1>22 DEF HandlerRelease, Goto
<1>23. ASSUME NEW t \in HandlerThreads, HandlerRead(c, t) PROVE FlowTypeOK'
  BY <1>23 DEF HandlerRead, Goto
<1>24. ASSUME NEW t \in HandlerThreads, HandlerSource(c, t) PROVE FlowTypeOK'
  BY <1>24 DEF HandlerSource, Goto
<1>25. CASE TlsClosed(c) BY <1>25 DEF TlsClosed, Goto
<1> QED BY <1>1, <1>2, <1>3, <1>4, <1>5, <1>6, <1>7, <1>8, <1>9, <1>10, <1>11,
     <1>12, <1>13, <1>14, <1>15, <1>16, <1>17, <1>18, <1>19, <1>20, <1>21,
     <1>22, <1>23, <1>24, <1>25, Zenon
    DEF FlowStep, ConnStep, HandlerStep, HandlerEnds

\* The flags of a connection whose memory is returned are those of a new one.
LEMMA FreeTypes ==
  ASSUME FlagTypeOK, NEW c \in Conns, FreeMemory(c)
  PROVE  FlagTypeOK'
<1>1. isOwned' \in [Conns -> BOOLEAN] /\ shouldBeDeleted' \in [Conns -> BOOLEAN]
  BY DEF FlagTypeOK, FreeMemory
<1>2. op' \in [Conns -> OpStates] /\ hasData' \in [Conns -> BOOLEAN]
  BY DEF FlagTypeOK, FreeMemory, OpStates
<1>3. reply' \in [Conns -> Replies] /\ tls' \in [Conns -> TlsStates]
  BY DEF FlagTypeOK, FreeMemory, Replies, TlsStates
<1>4. resume' \in [Conns -> BOOLEAN]
  BY DEF FlagTypeOK, FreeMemory
<1> QED BY <1>1, <1>2, <1>3, <1>4 DEF FlagTypeOK

\* A flow keeps the types of the flags of its connection.
LEMMA FlagTypes ==
  ASSUME Inv, NEW c \in Conns, FlowStep(c)
  PROVE  FlagTypeOK'
<1>0. FlagTypeOK BY DEF Inv, TypeOK
<1> USE <1>0 DEF FlagTypeOK, OpStates, Replies, TlsStates
<1>1. CASE IoCompletes(c) BY <1>1 DEF IoCompletes
<1>2. CASE Unlock(c) BY <1>2 DEF Unlock, flagVars
<1>3. CASE StartConnection(c) BY <1>3, Zenon DEF StartConnection, Goto, StartedOp
<1>4. CASE HandshakeDone(c) BY <1>4 DEF HandshakeDone, Goto
<1>5. CASE read_request(c) BY <1>5, Zenon DEF read_request, connection_notify_request, Goto
<1>6. CASE InvalidRequest(c) BY <1>6, Zenon DEF InvalidRequest, Goto
<1>7. CASE async_read_some(c)
  BY <1>7 DEF async_read_some, StartOp, Goto, StartedOp
<1>8. CASE ReadDone(c) BY <1>8 DEF ReadDone, Goto
<1>9. CASE SendBadRequest(c) BY <1>9, Zenon DEF SendBadRequest, sendResponse, Goto
<1>10. CASE async_write(c) BY <1>10 DEF async_write, StartOp, Goto, StartedOp
<1>11. CASE write_chunk(c) BY <1>11 DEF write_chunk, StartedOp
<1>12. CASE WriteDone(c) BY <1>12 DEF WriteDone, connection_recycle, Goto
<1>13. CASE async_read_body(c)
  BY <1>13 DEF async_read_body, StartOp, Goto, StartedOp
<1>14. CASE BodyDone(c) BY <1>14, Zenon DEF BodyDone, Goto
<1>15. CASE destroy(c)
  BY <1>15 DEF destroy, DestroyMark, markToBeDeleted, Goto
<1>16. CASE DestroyUnlist(c)
  BY <1>16 DEF DestroyUnlist, Unlist, Goto, flagVars
<1>17. CASE release(c)
  <2>1. CASE isOwned[c] BY <1>17, <2>1 DEF release, flagVars
  <2>2. CASE ~isOwned[c]
    <3>1. FreeMemory(c) BY <1>17, <2>2 DEF release
    <3> HIDE <1>0 DEF FlagTypeOK
    <3> QED BY <1>0, <3>1, FreeTypes
  <2> QED BY <2>1, <2>2
<1>18. CASE DtorMark(c)
  BY <1>18 DEF DtorMark, DestroyMark, markToBeDeleted, Goto
<1>19. CASE DtorUnlist(c) BY <1>19 DEF DtorUnlist, Unlist, Goto, flagVars
<1>20. CASE DtorDone(c)
  <2>1. FreeMemory(c) BY <1>20 DEF DtorDone
  <2> HIDE <1>0 DEF FlagTypeOK
  <2> QED BY <1>0, <2>1, FreeTypes
<1>21. ASSUME NEW t \in HandlerThreads, HandlerSend(c, t) PROVE FlagTypeOK'
  BY <1>21, Zenon DEF HandlerSend, sendResponse, Goto
<1>22. ASSUME NEW t \in HandlerThreads, HandlerRelease(c, t) PROVE FlagTypeOK'
  BY <1>22 DEF HandlerRelease, Goto
<1>23. ASSUME NEW t \in HandlerThreads, HandlerRead(c, t) PROVE FlagTypeOK'
  BY <1>23 DEF HandlerRead, Goto
<1>24. ASSUME NEW t \in HandlerThreads, HandlerSource(c, t) PROVE FlagTypeOK'
  BY <1>24 DEF HandlerSource, Goto
<1>25. CASE TlsClosed(c) BY <1>25 DEF TlsClosed
<1> QED BY <1>1, <1>2, <1>3, <1>4, <1>5, <1>6, <1>7, <1>8, <1>9, <1>10, <1>11,
     <1>12, <1>13, <1>14, <1>15, <1>16, <1>17, <1>18, <1>19, <1>20, <1>21,
     <1>22, <1>23, <1>24, <1>25, Zenon
    DEF FlowStep, ConnStep, HandlerStep, HandlerEnds

\* A flow keeps the invariant of its own connection and touches no other one.
LEMMA FlowLocal ==
  ASSUME Inv, NEW c \in Conns, FlowStep(c)
  PROVE  LocalStep(c)
<1>0. /\ pc \in [Conns -> Places] /\ mutex \in [Conns -> Threads \cup {"none"}]
      /\ isOwned \in [Conns -> BOOLEAN] /\ shouldBeDeleted \in [Conns -> BOOLEAN]
      /\ op \in [Conns -> OpStates] /\ resume \in [Conns -> BOOLEAN]
      /\ tls \in [Conns -> TlsStates] /\ ConnInv(c)
  BY DEF Inv, TypeOK, FlowTypeOK, FlagTypeOK
<1> USE <1>0 DEF LocalStep, Others, ConnInv, UnlistedPlaces, UnlockedPlaces,
         ClosingLocked, listVars
<1>1. CASE IoCompletes(c) BY <1>1 DEF IoCompletes
<1>2. CASE Unlock(c) BY <1>2 DEF Unlock, flagVars
<1>3. CASE StartConnection(c) BY <1>3 DEF StartConnection, Goto, StartedOp
<1>4. CASE HandshakeDone(c) BY <1>4 DEF HandshakeDone, Goto
<1>5. CASE read_request(c)
  <2>1. /\ pc[c] = "readRequest" /\ connections' = connections /\ mutex' = mutex
        /\ shouldBeDeleted' = shouldBeDeleted /\ op' = op /\ tls' = tls
    BY <1>5 DEF read_request, connection_notify_request
  <2>2. CASE /\ Goto(c, "destroy", runner[c]) \/ Goto(c, "handler", "none")
             /\ isOwned' = [isOwned EXCEPT ![c] = FALSE] /\ resume' = resume
    BY <2>1, <2>2 DEF Goto
  <2>3. CASE /\ SourceCalled /\ Goto(c, "destroy", runner[c])
             /\ isOwned' = isOwned /\ resume' = [resume EXCEPT ![c] = TRUE]
    BY <2>1, <2>3 DEF Goto
  <2>4. CASE /\ Goto(c, "invalid", runner[c]) \/ Goto(c, "readInit", runner[c])
             /\ isOwned' = isOwned /\ resume' = resume
    BY <2>1, <2>4 DEF Goto
  <2> HIDE DEF LocalStep
  <2> QED BY <1>5, <2>2, <2>3, <2>4 DEF read_request, connection_notify_request
<1>6. CASE InvalidRequest(c) BY <1>6 DEF InvalidRequest, Goto
<1>7. CASE async_read_some(c)
  BY <1>7 DEF async_read_some, StartOp, Goto, StartedOp
<1>8. CASE ReadDone(c) BY <1>8 DEF ReadDone, Goto
<1>9. CASE SendBadRequest(c) BY <1>9 DEF SendBadRequest, sendResponse, Goto
<1>10. CASE async_write(c) BY <1>10 DEF async_write, StartOp, Goto, StartedOp
<1>11. CASE write_chunk(c) BY <1>11 DEF write_chunk, StartedOp
<1>12. CASE WriteDone(c) BY <1>12 DEF WriteDone, connection_recycle, Goto
<1>13. CASE async_read_body(c)
  BY <1>13 DEF async_read_body, StartOp, Goto, StartedOp
<1>14. CASE BodyDone(c) BY <1>14 DEF BodyDone, Goto
<1>15. CASE destroy(c)
  BY <1>15 DEF destroy, DestroyMark, markToBeDeleted, Goto
<1>16. CASE DestroyUnlist(c)
  BY <1>16 DEF DestroyUnlist, Unlist, Goto, flagVars
<1>17. CASE release(c)
  <2>1. CASE isOwned[c] BY <1>17, <2>1 DEF release, Goto, flagVars
  <2>2. CASE ~isOwned[c]
    <3>1. /\ pc' = [pc EXCEPT ![c] = IF resume[c] THEN "dangling" ELSE "none"]
          /\ isOwned' = [isOwned EXCEPT ![c] = FALSE]
          /\ shouldBeDeleted' = [shouldBeDeleted EXCEPT ![c] = FALSE]
          /\ op' = [op EXCEPT ![c] = "none"] /\ resume' = [resume EXCEPT ![c] = FALSE]
          /\ mutex' = mutex /\ connections' = connections /\ pc[c] = "release"
          /\ tls' = [tls EXCEPT ![c] = "no"]
      BY <1>17, <2>2 DEF release, FreeMemory, Goto
    <3> QED BY <3>1
  <2> QED BY <2>1, <2>2
<1>18. CASE DtorMark(c)
  BY <1>18 DEF DtorMark, DestroyMark, markToBeDeleted, Goto
<1>19. CASE DtorUnlist(c) BY <1>19 DEF DtorUnlist, Unlist, Goto, flagVars
<1>20. CASE DtorDone(c) BY <1>20 DEF DtorDone, FreeMemory, Goto
<1>21. ASSUME NEW t \in HandlerThreads, HandlerSend(c, t) PROVE LocalStep(c)
  BY <1>21 DEF HandlerSend, sendResponse, Goto
<1>22. ASSUME NEW t \in HandlerThreads, HandlerRelease(c, t) PROVE LocalStep(c)
  BY <1>22 DEF HandlerRelease, Goto
<1>23. ASSUME NEW t \in HandlerThreads, HandlerRead(c, t) PROVE LocalStep(c)
  BY <1>23 DEF HandlerRead, Goto
<1>24. ASSUME NEW t \in HandlerThreads, HandlerSource(c, t) PROVE LocalStep(c)
  BY <1>24 DEF HandlerSource, Goto
<1>25. CASE TlsClosed(c) BY <1>25 DEF TlsClosed, Goto
<1> QED BY <1>1, <1>2, <1>3, <1>4, <1>5, <1>6, <1>7, <1>8, <1>9, <1>10, <1>11,
     <1>12, <1>13, <1>14, <1>15, <1>16, <1>17, <1>18, <1>19, <1>20, <1>21,
     <1>22, <1>23, <1>24, <1>25, Zenon
    DEF FlowStep, ConnStep, HandlerStep, HandlerEnds

\* Taking a connection off the list keeps both counters in step with it.
LEMMA UnlistCount ==
  ASSUME Inv, NEW c \in Conns, Unlist(c), UNCHANGED <<mainVars, accVars>>
  PROVE  CountInv'
<1>1. IsFiniteSet(connections)
  BY FiniteAssumption, FS_Subset DEF Inv, TypeOK, MainTypeOK
<1>2. c \in connections =>
        Cardinality(connections \ {c}) = Cardinality(connections) - 1
  BY <1>1, FS_RemoveElement
<1>3. c \notin connections => connections \ {c} = connections
  OBVIOUS
<1>4. Cardinality(connections) \in Nat
  BY <1>1, FS_CardinalityType
<1>5. Cardinality(Marking) \in Nat
  BY FiniteAssumption, FS_Subset, FS_CardinalityType DEF Marking
<1>6. CountMatchesList'
  <2>1. Marking' = Marking BY DEF accVars, Marking
  <2>2. connectionCount = Cardinality(connections) + Cardinality(Marking)
    BY DEF Inv, CountInv, CountMatchesList
  <2>3. CASE c \in connections
    BY <1>2, <1>4, <1>5, <2>1, <2>2, <2>3 DEF CountMatchesList, Unlist
  <2>4. CASE c \notin connections
    BY <1>3, <1>4, <1>5, <2>1, <2>2, <2>4 DEF CountMatchesList, Unlist
  <2> QED BY <2>3, <2>4
<1> QED BY <1>6 DEF Inv, CountInv, AcceptorsQuiesced, Chained, mainVars, accVars

\* A step of a connection's flow preserves the invariant.
LEMMA FlowInv ==
  ASSUME Inv, NEW c \in Conns, FlowStep(c)
  PROVE  Inv'
<1>1. Frame(c) BY FlowFrame
<1>2. LocalStep(c) BY FlowLocal
<1>3. connections' \subseteq connections
  BY <1>1 DEF Frame, Unlist, listVars
<1>4. MainTypeOK'
  BY <1>1, <1>3 DEF Frame, Unlist, mainVars, listVars, Inv, TypeOK, MainTypeOK
<1>5. AccTypeOK'
  BY <1>1 DEF Frame, accVars, Inv, TypeOK, AccTypeOK
<1>6. TypeOK'
  BY <1>4, <1>5, FlowTypes, FlagTypes DEF TypeOK
<1>7. ASSUME NEW d \in Conns PROVE ConnInv(d)'
  <2>1. CASE d = c BY <2>1, <1>2 DEF LocalStep
  <2>2. CASE d # c
    BY <2>2, <1>2, <1>3 DEF LocalStep, Others, Inv, ConnInv
  <2> QED BY <2>1, <2>2
<1>8. AccInv'
  <2>1. accPc' = accPc /\ accConn' = accConn BY <1>1 DEF Frame, accVars
  <2>2. ASSUME NEW d \in Conns, pc[d] = "accept" PROVE pc'[d] = "accept"
    BY <1>2, <2>2 DEF LocalStep, Others
  <2> QED BY <1>3, <2>1, <2>2 DEF Inv, AccInv
<1>9. SweepInv'
  <2>1. main' = main /\ toSweep' = toSweep
    BY <1>1 DEF Frame, mainVars
  <2>2. toSweep' \subseteq connections'
    BY <1>1, <2>1 DEF Frame, Unlist, listVars, Inv, SweepInv
  <2>3. ASSUME NEW d \in connections', shouldBeDeleted[d] PROVE shouldBeDeleted'[d]
    BY <1>2, <1>3, <2>3 DEF LocalStep, Others, Inv, TypeOK, MainTypeOK
  <2> QED BY <1>3, <2>1, <2>2, <2>3 DEF Inv, SweepInv
<1>10. CountInv'
  <2>1. CASE Unlist(c) BY <1>1, <2>1, UnlistCount DEF Frame
  <2>2. CASE UNCHANGED listVars
    BY <1>1, <2>2 DEF Frame, mainVars, accVars, listVars, Inv, CountInv,
       AcceptorsQuiesced, CountMatchesList, Marking, Chained
  <2> QED BY <1>1, <2>1, <2>2 DEF Frame
<1> QED BY <1>6, <1>7, <1>8, <1>9, <1>10 DEF Inv

----------------------------------------------------------------------------
(* The accept handlers.                                                    *)

\* The sets behind the counters are finite.
LEMMA Finite ==
  ASSUME TypeOK
  PROVE  /\ IsFiniteSet(connections) /\ Cardinality(connections) \in Nat
         /\ IsFiniteSet(Marking) /\ Cardinality(Marking) \in Nat
         /\ IsFiniteSet(Chained) /\ Cardinality(Chained) \in Nat
<1>1. IsFiniteSet(connections)
  BY FiniteAssumption, FS_Subset DEF TypeOK, MainTypeOK
<1>2. IsFiniteSet(Marking) /\ IsFiniteSet(Chained)
  BY FiniteAssumption, FS_Subset DEF Marking, Chained
<1> QED BY <1>1, <1>2, FS_CardinalityType

\* The network completing an accept, and stopListeners closing an acceptor, change
\* nothing the invariant speaks of but types.
LEMMA AcceptOpInv ==
  ASSUME Inv, NEW a \in Acceptors, AcceptCompletes(a) \/ CloseListener(a)
  PROVE  Inv'
<1> USE DEF AcceptCompletes, CloseListener
<1>1. UNCHANGED <<mainVars, listVars, connVars, accPc, accConn>> OBVIOUS
<1>2. AccTypeOK' BY Zenon DEF Inv, TypeOK, AccTypeOK, OpStates
<1>3. TypeOK'
  BY <1>1, <1>2 DEF Inv, TypeOK, MainTypeOK, FlowTypeOK, FlagTypeOK, mainVars,
     listVars, connVars, flagVars
<1>4. (\A c \in Conns : ConnInv(c))'
  BY <1>1 DEF Inv, ConnInv, listVars, connVars, flagVars
<1>5. AccInv' BY <1>1 DEF Inv, AccInv, listVars, connVars
<1>6. SweepInv' BY <1>1 DEF Inv, SweepInv, mainVars, listVars, connVars, flagVars
<1>7. CountInv'
  BY <1>1 DEF Inv, CountInv, AcceptorsQuiesced, CountMatchesList, Marking, Chained,
     mainVars, listVars
<1> QED BY <1>3, <1>4, <1>5, <1>6, <1>7 DEF Inv

\* accept_callback hands its connection over to start or destroy.
LEMMA AcceptCallbackInv ==
  ASSUME Inv, NEW a \in Acceptors, accept_callback(a)
  PROVE  Inv'
<1> DEFINE c == accConn[a]
<1>1. c \in Conns /\ pc[c] = "accept" /\ accPc[a] = "accepting"
  BY DEF accept_callback, Inv, AccInv
<1>2. /\ pc' = [pc EXCEPT ![c] = pc'[c]] /\ pc'[c] \in {"start", "destroy"}
      /\ accPc' = [accPc EXCEPT ![a] = accPc'[a]]
      /\ accPc'[a] \in {"failing", "destroying", "starting"}
  BY <1>1 DEF accept_callback, Goto, Inv, TypeOK, AccTypeOK, FlowTypeOK
<1>3. UNCHANGED <<mainVars, listVars, accConn, mutex, isOwned, shouldBeDeleted, op,
                  tls>>
  BY DEF accept_callback
<1>4. TypeOK'
  <2>1. MainTypeOK'
    BY <1>3 DEF Inv, TypeOK, MainTypeOK, mainVars, listVars
  <2>2. AccTypeOK'
    BY DEF accept_callback, Inv, TypeOK, AccTypeOK, AccPlaces, OpStates
  <2>3. FlowTypeOK'
    BY <1>1 DEF accept_callback, Goto, Inv, TypeOK, FlowTypeOK, Places, Threads
  <2>4. FlagTypeOK'
    BY <1>1, Zenon DEF accept_callback, Inv, TypeOK, FlagTypeOK
  <2> QED BY <2>1, <2>2, <2>3, <2>4 DEF TypeOK
<1>5. ASSUME NEW d \in Conns PROVE ConnInv(d)'
  <2>1. (resume[d] \/ ~resume'[d] \/ SourceCalled) /\ (resume[d] => resume'[d])
    BY <1>1 DEF accept_callback, Inv, TypeOK, FlagTypeOK
  <2>2. CASE d = c
    BY <1>1, <1>2, <1>3, <2>1, <2>2
    DEF Inv, ConnInv, TypeOK, FlowTypeOK, UnlistedPlaces, UnlockedPlaces,
        ClosingLocked, listVars
  <2>3. CASE d # c
    BY <1>1, <1>2, <1>3, <2>1, <2>3
    DEF Inv, ConnInv, TypeOK, FlowTypeOK, UnlistedPlaces, UnlockedPlaces,
        ClosingLocked, listVars
  <2> QED BY <2>2, <2>3
<1>6. AccInv'
  <2>1. AccInv /\ accPc \in [Acceptors -> AccPlaces] /\ pc \in [Conns -> Places]
    BY DEF Inv, TypeOK, AccTypeOK, FlowTypeOK
  <2>2. /\ accConn' = accConn /\ connections' = connections
        /\ \A b \in Acceptors \ {a} : accPc'[b] = accPc[b]
        /\ \A d \in Conns \ {c} : pc'[d] = pc[d]
    BY <1>2, <1>3, <2>1 DEF listVars
  <2>3. \A b \in Acceptors : accPc'[b] \in {"mark", "accepting"} =>
          /\ b # a /\ accPc[b] = accPc'[b] /\ accConn[b] \in Conns /\ accConn[b] # c
    BY <1>1, <1>2, <2>1, <2>2 DEF AccInv
  <2>4. \A b \in Acceptors : accPc'[b] \notin {"unbound", "lost"} => accConn'[b] \in Conns
    BY <1>1, <2>1, <2>2 DEF AccInv
  <2>5. \A b \in Acceptors :
          /\ accPc'[b] \in {"mark", "accepting"} => pc'[accConn'[b]] = "accept"
          /\ accPc'[b] = "mark" => accConn'[b] \notin connections'
    BY <2>1, <2>2, <2>3 DEF AccInv
  <2>6. \A b, d \in Acceptors :
          /\ accPc'[b] \in {"mark", "accepting"} /\ accPc'[d] \in {"mark", "accepting"}
          /\ accConn'[b] = accConn'[d]
          => b = d
    BY <2>1, <2>2, <2>3 DEF AccInv
  <2> QED BY <2>4, <2>5, <2>6 DEF AccInv
<1>7. SweepInv'
  BY <1>3 DEF Inv, SweepInv, mainVars, listVars
<1>8. CountInv'
  <2>1. Marking' = Marking /\ Chained' = Chained
    BY <1>1, <1>2 DEF Marking, Chained, Inv, TypeOK, AccTypeOK
  <2>2. AcceptorsQuiesced'
    BY <1>1, <1>3 DEF Inv, CountInv, AcceptorsQuiesced, mainVars
  <2> QED BY <1>3, <2>1, <2>2 DEF Inv, CountInv, CountMatchesList, mainVars, listVars
<1> QED BY <1>4, <1>5, <1>6, <1>7, <1>8 DEF Inv

\* A failed accept ends the chain of its acceptor, which running_acceptors_ counts.
LEMMA AcceptorFailedInv ==
  ASSUME Inv, NEW a \in Acceptors, AcceptorFailed(a)
  PROVE  Inv'
<1>1. UNCHANGED <<running, main, toSweep, acceptors, listVars, connVars>>
  BY DEF AcceptorFailed
<1>2. /\ accPc[a] = "failing" /\ accPc' = [accPc EXCEPT ![a] = "unbound"]
      /\ accConn' = [accConn EXCEPT ![a] = NoConn]
      /\ runningAcceptors' = runningAcceptors - 1
  BY DEF AcceptorFailed
<1>3. TypeOK'
  <2>1. MainTypeOK'
    BY <1>1, <1>2 DEF Inv, TypeOK, MainTypeOK, listVars
  <2>2. AccTypeOK'
    BY <1>2 DEF AcceptorFailed, Inv, TypeOK, AccTypeOK, AccPlaces
  <2> QED
    BY <1>1, <2>1, <2>2 DEF Inv, TypeOK, FlowTypeOK, FlagTypeOK, connVars, flagVars
<1>4. (\A c \in Conns : ConnInv(c))'
  BY <1>1, Zenon DEF Inv, ConnInv, listVars, connVars, flagVars
<1>5. AccInv'
  BY <1>1, <1>2 DEF Inv, AccInv, TypeOK, AccTypeOK, listVars, connVars
<1>6. SweepInv' BY <1>1 DEF Inv, SweepInv, listVars, connVars, flagVars
<1>7. CountInv'
  <2>1. Marking' = Marking /\ Chained' = Chained \ {a} /\ a \in Chained
    BY <1>2 DEF Marking, Chained, Inv, TypeOK, AccTypeOK
  <2>2. Cardinality(Chained') = Cardinality(Chained) - 1
    BY <2>1, Finite, FS_RemoveElement, Zenon DEF Inv
  <2>3. AcceptorsQuiesced'
    BY <1>1, <1>2 DEF Inv, CountInv, AcceptorsQuiesced, TypeOK, AccTypeOK
  <2>4. CountMatchesList'
    BY <1>1, <2>1 DEF Inv, CountInv, CountMatchesList, listVars
  <2> QED BY <1>2, <2>2, <2>3, <2>4 DEF Inv, CountInv
<1> QED BY <1>3, <1>4, <1>5, <1>6, <1>7 DEF Inv

\* An accept handler that starts on a connection of its own shares it with no other.
LEMMA NewAccept ==
  ASSUME Inv, NEW a \in Acceptors, NEW c \in Conns, NEW q \in {"mark", "accepting"},
         pc[c] = "none", pc' = [pc EXCEPT ![c] = "accept"],
         accPc' = [accPc EXCEPT ![a] = q], accConn' = [accConn EXCEPT ![a] = c],
         connections' \subseteq connections \cup {c}, q = "mark" => c \notin connections'
  PROVE  AccInv'
<1>1. /\ AccInv
      /\ accPc \in [Acceptors -> AccPlaces] /\ pc \in [Conns -> Places]
      /\ accConn \in [Acceptors -> Conns \cup {NoConn}]
  BY DEF Inv, TypeOK, AccTypeOK, FlowTypeOK
<1>2. /\ accPc'[a] = q /\ accConn'[a] = c /\ pc'[c] = "accept"
      /\ \A b \in Acceptors \ {a} : accPc'[b] = accPc[b] /\ accConn'[b] = accConn[b]
      /\ \A d \in Conns \ {c} : pc'[d] = pc[d]
  BY <1>1
<1>3. \A b \in Acceptors \ {a} : accPc[b] \in {"mark", "accepting"} =>
        accConn[b] \in Conns /\ pc[accConn[b]] = "accept" /\ accConn[b] # c
  BY <1>1 DEF AccInv
<1>4. \A b \in Acceptors : accPc'[b] \notin {"unbound", "lost"} => accConn'[b] \in Conns
  BY <1>1, <1>2 DEF AccInv
<1>5. \A b \in Acceptors :
        accPc'[b] \in {"mark", "accepting"} => pc'[accConn'[b]] = "accept"
  BY <1>2, <1>3
<1>6. \A b \in Acceptors : accPc'[b] = "mark" => accConn'[b] \notin connections'
  BY <1>1, <1>2, <1>3 DEF AccInv
<1>7. \A b, d \in Acceptors :
        /\ accPc'[b] \in {"mark", "accepting"} /\ accPc'[d] \in {"mark", "accepting"}
        /\ accConn'[b] = accConn'[d]
        => b = d
  <2> SUFFICES ASSUME NEW b \in Acceptors, NEW d \in Acceptors,
                      accPc'[b] \in {"mark", "accepting"},
                      accPc'[d] \in {"mark", "accepting"}, accConn'[b] = accConn'[d]
               PROVE  b = d
    OBVIOUS
  <2>1. CASE b = a \/ d = a
    <3>1. ASSUME NEW e \in Acceptors \ {a}, accPc'[e] \in {"mark", "accepting"}
          PROVE  accConn'[e] # accConn'[a]
      BY <1>2, <1>3, <3>1
    <3> QED BY <2>1, <3>1
  <2>2. CASE b # a /\ d # a
    <3>1. /\ accPc[b] \in {"mark", "accepting"} /\ accPc[d] \in {"mark", "accepting"}
          /\ accConn[b] = accConn[d]
      BY <1>2, <2>2
    <3> QED BY <1>1, <3>1 DEF AccInv
  <2> QED BY <2>1, <2>2
<1> QED BY <1>4, <1>5, <1>6, <1>7 DEF AccInv

\* start_accept counts a new connection, or ends the handler without a trace.
LEMMA StartAcceptInv ==
  ASSUME Inv, NEW a \in Acceptors, start_accept(a)
  PROVE  Inv'
<1>1. /\ accPc[a] \in {"starting", "destroying"}
      /\ UNCHANGED <<mainVars, listening, accOp, connections, mutex, isOwned,
                     shouldBeDeleted, op, hasData, reply, resume>>
  BY DEF start_accept
<1>2. main \notin {"sweep", "waitConnections", "join"}
  BY <1>1 DEF Inv, CountInv, AcceptorsQuiesced
<1>3. SweepInv'
  BY <1>1, <1>2 DEF Inv, SweepInv, mainVars
<1>4. CASE running
  <2>1. PICK c \in Conns :
          /\ pc[c] = "none" /\ pc' = [pc EXCEPT ![c] = "accept"]
          /\ runner' = [runner EXCEPT ![c] = a]
          /\ tls' = [tls EXCEPT ![c] = NewTls(a)]
          /\ accConn' = [accConn EXCEPT ![a] = c]
    BY <1>4 DEF start_accept, Available, Goto
  <2>2. /\ accPc' = [accPc EXCEPT ![a] = "mark"]
        /\ connectionCount' = connectionCount + 1
    BY <1>4 DEF start_accept
  <2>3. c \notin connections
    BY <2>1 DEF Inv, ConnInv, UnlistedPlaces
  <2>4. TypeOK'
    <3>1. MainTypeOK' BY <1>1, <2>2 DEF Inv, TypeOK, MainTypeOK, mainVars
    <3>2. AccTypeOK' BY <1>1, <2>1, <2>2 DEF Inv, TypeOK, AccTypeOK, AccPlaces
    <3>3. FlowTypeOK' BY <1>1, <2>1 DEF Inv, TypeOK, FlowTypeOK, Places, Threads
    <3>4. FlagTypeOK'
      <4>1. FlagTypeOK BY DEF Inv, TypeOK
      <4>2. tls' \in [Conns -> TlsStates]
        BY <2>1, <4>1 DEF FlagTypeOK, TlsStates, NewTls
      <4> QED BY <1>1, <4>1, <4>2 DEF FlagTypeOK
    <3> QED BY <3>1, <3>2, <3>3, <3>4 DEF TypeOK
  <2>5. (\A d \in Conns : ConnInv(d))'
    BY <1>1, <2>1, <2>3, Zenon
    DEF Inv, ConnInv, TypeOK, FlowTypeOK, FlagTypeOK, UnlistedPlaces, UnlockedPlaces,
        ClosingLocked, NewTls
  <2>6. AccInv'
    BY <1>1, <2>1, <2>2, <2>3, NewAccept, Zenon
  <2>7. CountInv'
    <3>1. Marking' = Marking \cup {a} /\ a \notin Marking /\ Chained' = Chained
      BY <1>1, <2>2 DEF Marking, Chained, Inv, TypeOK, AccTypeOK
    <3>2. Cardinality(Marking') = Cardinality(Marking) + 1
      BY <3>1, Finite, FS_AddElement, Zenon DEF Inv
    <3>3. CountMatchesList'
      BY <1>1, <2>2, <3>2, Finite DEF Inv, CountInv, CountMatchesList
    <3> QED
      BY <1>1, <1>2, <3>1, <3>3, Zenon DEF Inv, CountInv, AcceptorsQuiesced, mainVars
  <2> QED BY <1>3, <2>4, <2>5, <2>6, <2>7 DEF Inv
<1>5. CASE ~running
  <2>1. /\ accPc' = [accPc EXCEPT ![a] = "lost"]
        /\ accConn' = [accConn EXCEPT ![a] = NoConn]
        /\ UNCHANGED <<connectionCount, pc, runner, tls>>
    BY <1>5 DEF start_accept
  <2>2. TypeOK'
    <3>1. MainTypeOK' BY <1>1, <2>1 DEF Inv, TypeOK, MainTypeOK, mainVars
    <3>2. AccTypeOK' BY <1>1, <2>1 DEF Inv, TypeOK, AccTypeOK, AccPlaces
    <3> QED BY <1>1, <2>1, <3>1, <3>2 DEF Inv, TypeOK, FlowTypeOK, FlagTypeOK
  <2>3. (\A d \in Conns : ConnInv(d))' BY <1>1, <2>1 DEF Inv, ConnInv
  <2>4. AccInv' BY <1>1, <2>1 DEF Inv, AccInv, TypeOK, AccTypeOK
  <2>5. CountInv'
    <3>1. Marking' = Marking /\ Chained' = Chained
      BY <1>1, <2>1 DEF Marking, Chained, Inv, TypeOK, AccTypeOK
    <3> QED
      BY <1>1, <1>2, <2>1, <3>1
      DEF Inv, CountInv, AcceptorsQuiesced, CountMatchesList, mainVars
  <2> QED BY <1>3, <2>2, <2>3, <2>4, <2>5 DEF Inv
<1> QED BY <1>4, <1>5

\* mark lists the connection start_accept has counted.
LEMMA MarkInv ==
  ASSUME Inv, NEW a \in Acceptors, mark(a)
  PROVE  Inv'
<1> DEFINE c == accConn[a]
<1>1. /\ c \in Conns /\ pc[c] = "accept" /\ c \notin connections
      /\ accPc[a] = "mark" /\ accPc' = [accPc EXCEPT ![a] = "accepting"]
      /\ connections' = connections \cup {c}
      /\ accConn' = accConn
  BY DEF mark, Inv, AccInv
<1>2. UNCHANGED <<mainVars, connectionCount, pc, mutex, flagVars>>
  BY DEF mark
<1>3. main \notin {"sweep", "waitConnections", "join"}
  BY <1>1 DEF Inv, CountInv, AcceptorsQuiesced
<1>4. TypeOK'
  <2>1. MainTypeOK' BY <1>1, <1>2 DEF Inv, TypeOK, MainTypeOK, mainVars
  <2>2. AccTypeOK' BY DEF mark, Inv, TypeOK, AccTypeOK, AccPlaces, OpStates
  <2>3. FlowTypeOK' BY <1>1 DEF mark, Inv, TypeOK, FlowTypeOK
  <2> QED BY <1>2, <2>1, <2>2, <2>3 DEF Inv, TypeOK, FlagTypeOK, flagVars
<1>5. (\A d \in Conns : ConnInv(d))'
  BY <1>1, <1>2 DEF Inv, ConnInv, UnlistedPlaces, flagVars
<1>6. AccInv'
  <2>1. AccInv /\ accPc \in [Acceptors -> AccPlaces] BY DEF Inv, TypeOK, AccTypeOK
  <2>2. /\ accPc'[a] = "accepting" /\ pc' = pc /\ accConn' = accConn
        /\ \A b \in Acceptors \ {a} : accPc'[b] = accPc[b]
    BY <1>1, <1>2, <2>1
  <2>3. \A b \in Acceptors : accPc'[b] \in {"mark", "accepting"} =>
                              accPc[b] \in {"mark", "accepting"}
    BY <1>1, <2>2
  <2>4. \A b \in Acceptors : accPc'[b] \notin {"unbound", "lost"} => accConn'[b] \in Conns
    BY <1>1, <2>1, <2>2 DEF AccInv
  <2>5. \A b \in Acceptors :
          accPc'[b] \in {"mark", "accepting"} => pc'[accConn'[b]] = "accept"
    BY <2>1, <2>2, <2>3 DEF AccInv
  <2>6. \A b \in Acceptors : accPc'[b] = "mark" => accConn'[b] \notin connections'
    BY <1>1, <2>1, <2>2 DEF AccInv
  <2>7. \A b, d \in Acceptors :
          /\ accPc'[b] \in {"mark", "accepting"} /\ accPc'[d] \in {"mark", "accepting"}
          /\ accConn'[b] = accConn'[d]
          => b = d
    BY <2>1, <2>2, <2>3 DEF AccInv
  <2> QED BY <2>4, <2>5, <2>6, <2>7 DEF AccInv
<1>7. SweepInv'
  BY <1>1, <1>2, <1>3 DEF Inv, SweepInv, mainVars, flagVars
<1>8. CountInv'
  <2>1. Marking' = Marking \ {a} /\ a \in Marking /\ Chained' = Chained
    BY <1>1 DEF Marking, Chained, Inv, TypeOK, AccTypeOK
  <2>2. Cardinality(Marking') = Cardinality(Marking) - 1
    BY <2>1, Finite, FS_RemoveElement, Zenon DEF Inv
  <2>3. Cardinality(connections') = Cardinality(connections) + 1
    BY <1>1, Finite, FS_AddElement, Zenon DEF Inv
  <2>4. CountMatchesList'
    BY <1>2, <2>2, <2>3, Finite DEF Inv, CountInv, CountMatchesList
  <2> QED BY <1>2, <1>3, <2>1, <2>4, Zenon DEF Inv, CountInv, AcceptorsQuiesced, mainVars
<1> QED BY <1>4, <1>5, <1>6, <1>7, <1>8 DEF Inv

----------------------------------------------------------------------------
(* The main thread.                                                        *)

\* bind starts a chain of accept handlers and counts and lists its connection.
LEMMA BindInv ==
  ASSUME Inv, NEW a \in Acceptors, bind(a)
  PROVE  Inv'
<1>1. PICK c \in Conns :
        /\ pc[c] = "none" /\ pc' = [pc EXCEPT ![c] = "accept"]
        /\ runner' = [runner EXCEPT ![c] = "none"]
        /\ tls' = [tls EXCEPT ![c] = NewTls(a)]
        /\ accConn' = [accConn EXCEPT ![a] = c]
        /\ connections' = connections \cup {c}
  BY Zenon DEF bind, Listen, Available, Goto
<1>2. /\ main = "on" /\ accPc[a] = "unbound"
      /\ accPc' = [accPc EXCEPT ![a] = "accepting"]
      /\ runningAcceptors' = runningAcceptors + 1
      /\ connectionCount' = connectionCount + 1
      /\ UNCHANGED <<running, main, toSweep, mutex, isOwned, shouldBeDeleted, op,
                     hasData, reply, resume>>
  BY DEF bind, Listen
<1>3. c \notin connections
  BY <1>1 DEF Inv, ConnInv, UnlistedPlaces
<1>4. TypeOK'
  <2>1. MainTypeOK'
    <3>1. acceptors' = acceptors \cup {a} BY DEF bind
    <3>2. MainTypeOK BY DEF Inv, TypeOK
    <3>3. connections' \subseteq Conns BY <1>1, <3>2 DEF MainTypeOK
    <3> QED BY <1>2, <3>1, <3>2, <3>3 DEF MainTypeOK
  <2>2. AccTypeOK'
    BY <1>1 DEF bind, Listen, Inv, TypeOK, AccTypeOK, AccPlaces, OpStates
  <2>3. FlowTypeOK' BY <1>1, <1>2 DEF Inv, TypeOK, FlowTypeOK, Places
  <2>4. FlagTypeOK'
    <3>1. FlagTypeOK BY DEF Inv, TypeOK
    <3>2. tls' \in [Conns -> TlsStates]
      BY <1>1, <3>1 DEF FlagTypeOK, TlsStates, NewTls
    <3> QED BY <1>2, <3>1, <3>2 DEF FlagTypeOK
  <2> QED BY <2>1, <2>2, <2>3, <2>4 DEF TypeOK
<1>5. (\A d \in Conns : ConnInv(d))'
  BY <1>1, <1>2, <1>3, Zenon
  DEF Inv, ConnInv, TypeOK, FlowTypeOK, FlagTypeOK, UnlistedPlaces, UnlockedPlaces,
      ClosingLocked, NewTls
<1>6. AccInv'
  BY <1>1, <1>2, NewAccept, Zenon
<1>7. SweepInv'
  BY <1>1, <1>2 DEF Inv, SweepInv
<1>8. CountInv'
  <2>1. Marking' = Marking /\ Chained' = Chained \cup {a} /\ a \notin Chained
    BY <1>2 DEF Marking, Chained, Inv, TypeOK, AccTypeOK
  <2>2. Cardinality(Chained') = Cardinality(Chained) + 1
    BY <2>1, Finite, FS_AddElement, Zenon DEF Inv
  <2>3. Cardinality(connections') = Cardinality(connections) + 1
    BY <1>1, <1>3, Finite, FS_AddElement, Zenon DEF Inv
  <2>4. CountMatchesList'
    <3>1. CountMatchesList BY DEF Inv, CountInv
    <3>2. Cardinality(connections) \in Nat /\ Cardinality(Marking) \in Nat
      BY Finite DEF Inv
    <3>3. connectionCount' = connectionCount + 1 BY <1>2
    <3>4. Cardinality(Marking') = Cardinality(Marking) BY <2>1
    <3> QED BY <2>3, <3>1, <3>2, <3>3, <3>4 DEF CountMatchesList
  <2> QED BY <1>2, <2>2, <2>4 DEF Inv, CountInv, AcceptorsQuiesced
<1> QED BY <1>4, <1>5, <1>6, <1>7, <1>8 DEF Inv

\* The sweep marks one connection of the list.
LEMMA SweepStepInv ==
  ASSUME Inv, NEW c \in Conns, Sweep(c)
  PROVE  Inv'
<1>1. /\ main = "sweep" /\ c \in toSweep /\ toSweep' = toSweep \ {c}
      /\ shouldBeDeleted' = [shouldBeDeleted EXCEPT ![c] = TRUE]
      /\ op' = [op EXCEPT ![c] = IF op[c] = "pending" THEN "error" ELSE op[c]]
      /\ mutex' = [mutex EXCEPT ![c] = IF ClosesTls(c) THEN "main" ELSE "none"]
      /\ UNCHANGED <<running, main, acceptors, runningAcceptors, accVars, listVars,
                     pc, runner, isOwned, hasData, reply, tls, resume>>
  BY DEF Sweep, markToBeDeleted
<1>2. TypeOK'
  <2>1. MainTypeOK' BY <1>1 DEF Inv, TypeOK, MainTypeOK, listVars
  <2>2. AccTypeOK' BY <1>1 DEF Inv, TypeOK, AccTypeOK, accVars
  <2>3. FlowTypeOK' BY <1>1 DEF Inv, TypeOK, FlowTypeOK, Threads
  <2>4. FlagTypeOK' BY <1>1 DEF Inv, TypeOK, FlagTypeOK, OpStates
  <2> QED BY <2>1, <2>2, <2>3, <2>4 DEF TypeOK
<1>3. ASSUME NEW d \in Conns PROVE ConnInv(d)'
  <2>1. /\ ConnInv(d) /\ mutex \in [Conns -> Threads \cup {"none"}]
        /\ shouldBeDeleted \in [Conns -> BOOLEAN] /\ op \in [Conns -> OpStates]
    BY DEF Inv, TypeOK, FlowTypeOK, FlagTypeOK
  <2>2. CASE d = c
    <3>1. c \in connections BY <1>1 DEF Inv, SweepInv
    <3>2. pc[c] \in UnlockedPlaces => ~ClosesTls(c)
      BY <2>1, <2>2, <3>1 DEF ConnInv, UnlistedPlaces, UnlockedPlaces, ClosesTls
    <3> QED BY <1>1, <2>1, <2>2, <3>2 DEF ConnInv, listVars
  <2>3. CASE d # c BY <1>1, <2>1, <2>3 DEF ConnInv, listVars
  <2> QED BY <2>2, <2>3
<1>4. AccInv' BY <1>1, Zenon DEF Inv, AccInv, accVars, listVars
<1>5. SweepInv' BY <1>1 DEF Inv, SweepInv, TypeOK, MainTypeOK, FlagTypeOK, listVars
<1>6. CountInv'
  BY <1>1 DEF Inv, CountInv, AcceptorsQuiesced, CountMatchesList, Marking, Chained,
     accVars, listVars
<1> QED BY <1>2, <1>3, <1>4, <1>5, <1>6 DEF Inv

\* stop() goes past its first wait only when no accept handler is left.
LEMMA QuiescedWhenZero ==
  ASSUME Inv, runningAcceptors = 0
  PROVE  \A a \in Acceptors : accPc[a] = "unbound"
<1>1. Cardinality(Chained) = 0 BY DEF Inv, CountInv
<1>2. Chained = {} BY <1>1, Finite, FS_EmptySet DEF Inv
<1> QED BY <1>2 DEF Chained

\* The other steps of the main thread only move it along.
MainMove ==
  \/ start \/ stopListeners \/ stop \/ ListenersClosed \/ AcceptorsStopped
  \/ Swept \/ ConnectionsGone \/ PoolStopped

LEMMA MainMoveInv ==
  ASSUME Inv, MainMove
  PROVE  Inv'
<1> USE DEF MainMove, start, stopListeners, stop, ListenersClosed, AcceptorsStopped,
            Swept, ConnectionsGone, PoolStopped
<1>1. UNCHANGED <<runningAcceptors, accVars, listVars, connVars>>
  OBVIOUS
<1>2. TypeOK'
  <2>1. MainTypeOK'
    BY <1>1, Zenon DEF Inv, TypeOK, MainTypeOK, MainPlaces, listVars
  <2> QED
    BY <1>1, <2>1, Zenon DEF Inv, TypeOK, AccTypeOK, FlowTypeOK, FlagTypeOK, accVars,
       connVars, flagVars
<1>3. (\A d \in Conns : ConnInv(d))'
  BY <1>1, Zenon DEF Inv, ConnInv, listVars, connVars, flagVars
<1>4. AccInv' BY <1>1, Zenon DEF Inv, AccInv, accVars, listVars, connVars
<1>5. SweepInv' BY <1>1, Zenon DEF Inv, SweepInv, listVars, connVars, flagVars
<1>6. CountInv'
  <2>1. UNCHANGED <<Marking, Chained>> BY <1>1 DEF Marking, Chained, accVars
  <2>2. AcceptorsQuiesced'
    BY <1>1, QuiescedWhenZero, Zenon DEF Inv, CountInv, AcceptorsQuiesced, accVars
  <2> QED BY <1>1, <2>1, <2>2 DEF Inv, CountInv, CountMatchesList, listVars
<1> QED BY <1>2, <1>3, <1>4, <1>5, <1>6 DEF Inv

----------------------------------------------------------------------------
(* The invariant and what follows from it.                                 *)

\* Inv holds before start() is called.
LEMMA InitInv == Init => Inv
<1> SUFFICES ASSUME Init PROVE Inv OBVIOUS
<1> USE DEF Init
<1>1. MainTypeOK
  <2>1. running \in BOOLEAN /\ main \in MainPlaces BY Zenon DEF MainPlaces
  <2> QED BY <2>1 DEF MainTypeOK
<1>2. AccTypeOK BY DEF AccTypeOK, AccPlaces, OpStates
<1>3. FlowTypeOK BY DEF FlowTypeOK, Places
<1>4. FlagTypeOK BY DEF FlagTypeOK, OpStates, Replies, TlsStates
<1>5. \A c \in Conns : ConnInv(c) BY DEF ConnInv, ClosingLocked
<1>6. AccInv BY DEF AccInv
<1>7. SweepInv BY DEF SweepInv
<1>8. CountInv
  <2>1. Marking = {} /\ Chained = {} /\ connections = {} BY DEF Marking, Chained
  <2>2. Cardinality({}) = 0 BY FS_EmptySet
  <2>3. runningAcceptors = 0 /\ connectionCount = 0 /\ main = "off" OBVIOUS
  <2> HIDE DEF Init
  <2>4. runningAcceptors = Cardinality(Chained) BY <2>1, <2>2, <2>3
  <2>5. AcceptorsQuiesced BY <2>3 DEF AcceptorsQuiesced
  <2>6. CountMatchesList
    <3>1. Cardinality(connections) = 0 /\ Cardinality(Marking) = 0 BY <2>1, <2>2
    <3> QED BY <2>3, <3>1 DEF CountMatchesList
  <2> QED BY <2>4, <2>5, <2>6 DEF CountInv
<1> QED BY <1>1, <1>2, <1>3, <1>4, <1>5, <1>6, <1>7, <1>8 DEF Inv, TypeOK

\* Every step, of whatever thread, preserves Inv.
LEMMA NextInv == Inv /\ [Next]_vars => Inv'
<1> SUFFICES ASSUME Inv, [Next]_vars PROVE Inv' OBVIOUS
<1>1. ASSUME NEW c \in Conns, FlowStep(c) PROVE Inv' BY <1>1, FlowInv
<1>2. ASSUME NEW c \in Conns, Sweep(c) PROVE Inv' BY <1>2, SweepStepInv
<1>3. CASE MainMove BY <1>3, MainMoveInv
<1>4. ASSUME NEW a \in Acceptors, bind(a) PROVE Inv' BY <1>4, BindInv
<1>5. ASSUME NEW a \in Acceptors, AcceptCompletes(a) \/ CloseListener(a) PROVE Inv'
  BY <1>5, AcceptOpInv
<1>6. ASSUME NEW a \in Acceptors, AcceptStep(a) PROVE Inv'
  BY <1>6, AcceptCallbackInv, AcceptorFailedInv, StartAcceptInv, MarkInv
  DEF AcceptStep
<1>7. CASE UNCHANGED vars
  <2>1. TypeOK'
    BY <1>7 DEF vars, mainVars, accVars, listVars, connVars, flagVars, Inv, TypeOK,
       MainTypeOK, AccTypeOK, FlowTypeOK, FlagTypeOK
  <2>2. (\A c \in Conns : ConnInv(c))'
    BY <1>7 DEF vars, listVars, connVars, flagVars, Inv, ConnInv
  <2>3. AccInv' BY <1>7 DEF vars, accVars, listVars, connVars, Inv, AccInv
  <2>4. SweepInv'
    BY <1>7 DEF vars, mainVars, listVars, connVars, flagVars, Inv, SweepInv
  <2>5. CountInv'
    BY <1>7 DEF vars, mainVars, accVars, listVars, Inv, CountInv, AcceptorsQuiesced,
       CountMatchesList, Marking, Chained
  <2> QED BY <2>1, <2>2, <2>3, <2>4, <2>5 DEF Inv
<1>8. CASE Spin BY <1>7, <1>8 DEF Spin
<1> QED
  BY <1>1, <1>2, <1>3, <1>4, <1>5, <1>6, <1>7, <1>8
  DEF Next, UserCalls, MainProgress, MainMove, FlowStep

\* Inv, the types included, holds in every reachable state.
THEOREM Invariance == Spec => []Inv
<1>1. Inv /\ [Next]_vars => Inv' BY NextInv
<1> QED BY <1>1, InitInv, PTL DEF Spec

\* Every variable of HttpServer and Connection keeps its type.
THEOREM TypeCorrect == Spec => []TypeOK
<1>1. Inv => TypeOK BY DEF Inv
<1> QED BY <1>1, Invariance, PTL

\* The list stop() walks, the locked mutexes and the accept handlers refer to live
\* connections only, whatever threads destroy connections meanwhile; without calls of
\* source(), which destroys the connection its caller goes on with.
THEOREM NoDanglingReference ==
  ASSUME ~SourceCalled
  PROVE  Spec => []ReferencesLive
<1>1. Inv => ReferencesLive
  BY DEF Inv, ReferencesLive, ConnInv, AccInv, SweepInv, Freed, UnlistedPlaces,
     UnlockedPlaces
<1> QED BY <1>1, Invariance, PTL

\* own() succeeds whenever the server, or a handler that was given the connection,
\* calls it.
THEOREM OwnSucceeds == Spec => []OwnNeverFails
<1>1. Inv => OwnNeverFails BY Zenon DEF Inv, OwnNeverFails, ConnInv
<1> QED BY <1>1, Invariance, PTL

\* Where source() is not called, the server destroys only connections it disowned.
THEOREM DestroysDisowned ==
  ASSUME ~SourceCalled
  PROVE  Spec => []ServerDestroysDisowned
<1>1. Inv => ServerDestroysDisowned
  BY Zenon DEF Inv, ServerDestroysDisowned, ConnInv
<1> QED BY <1>1, Invariance, PTL

\* connection_count_ and connections_ agree at every step of every thread.
THEOREM CountExact == Spec => []CountMatchesList
<1>1. Inv => CountMatchesList BY DEF Inv, CountInv
<1> QED BY <1>1, Invariance, PTL

\* No accept handler runs once stop() sweeps the connections.
THEOREM NoLateAccept == Spec => []AcceptorsQuiesced
<1>1. Inv => AcceptorsQuiesced BY DEF Inv, CountInv
<1> QED BY <1>1, Invariance, PTL

\* Every connection stop() waits for has been cancelled and closed.
THEOREM SweepComplete == Spec => []SweepCoversAll
<1>1. Inv => SweepCoversAll
  BY DEF Inv, TypeOK, MainTypeOK, SweepInv, ConnInv, SweepCoversAll
<1> QED BY <1>1, Invariance, PTL

----------------------------------------------------------------------------
(* The time after stop() has waited for the connections, of which Inv says *)
(* little: StopInv adds what the refinement of ServerContract needs, and   *)
(* LeftInv where the connections that are not listed may be.               *)

\* Once stop() has gone past the acceptors the server does not run, past the wait for
\* the connections the list is empty, and no accept handler is left when it returns.
StopInv ==
  /\ main \in {"sweep", "waitConnections", "join"} => ~running
  /\ main = "join" => connections = {}
  /\ main = "off" => \A a \in Acceptors : accPc[a] = "unbound"

\* The list is empty when its counter is zero.
LEMMA EmptyWhenZero ==
  ASSUME Inv, connectionCount = 0
  PROVE  connections = {}
<1>1. Cardinality(connections) = 0
  BY Finite DEF Inv, CountInv, CountMatchesList
<1> QED BY <1>1, Finite, FS_EmptySet DEF Inv

\* Before start() nothing is listed and no accept handler runs.
LEMMA StopInvInit == Init => StopInv
BY DEF Init, StopInv

\* Every step preserves StopInv.
LEMMA StopInvNext ==
  ASSUME Inv, StopInv, [Next]_vars
  PROVE  StopInv'
<1> USE DEF StopInv
<1>1. ASSUME NEW c \in Conns, FlowStep(c) PROVE StopInv'
  BY <1>1, FlowFrame DEF Frame, Unlist, mainVars, accVars, listVars
<1>2. ASSUME NEW c \in Conns, Sweep(c) PROVE StopInv'
  BY <1>2 DEF Sweep, accVars, listVars
<1>3. CASE MainMove
  <2>1. main' = "join" => connections' = {}
    BY <1>3, EmptyWhenZero DEF MainMove, start, stopListeners, stop, ListenersClosed,
       AcceptorsStopped, Swept, ConnectionsGone, PoolStopped, listVars
  <2>2. main' = "off" => \A a \in Acceptors : accPc'[a] = "unbound"
    BY <1>3 DEF Inv, CountInv, AcceptorsQuiesced, MainMove, start, stopListeners, stop,
       ListenersClosed, AcceptorsStopped, Swept, ConnectionsGone, PoolStopped, accVars
  <2>3. main' \in {"sweep", "waitConnections", "join"} => ~running'
    BY <1>3 DEF MainMove, start, stopListeners, stop, ListenersClosed,
       AcceptorsStopped, Swept, ConnectionsGone, PoolStopped
  <2> QED BY <2>1, <2>2, <2>3
<1>4. ASSUME NEW a \in Acceptors, bind(a) PROVE StopInv'
  BY <1>4 DEF bind
<1>5. ASSUME NEW a \in Acceptors, AcceptCompletes(a) \/ CloseListener(a) PROVE StopInv'
  BY <1>5 DEF AcceptCompletes, CloseListener, mainVars, listVars
<1>6. ASSUME NEW a \in Acceptors, AcceptStep(a) PROVE StopInv'
  <2>1. main \notin {"sweep", "waitConnections", "join", "off"}
    BY <1>6, Zenon DEF AcceptStep, accept_callback, AcceptorFailed, start_accept, mark, Inv,
       CountInv, AcceptorsQuiesced
  <2>2. UNCHANGED <<main, running>>
    BY <1>6, Zenon DEF AcceptStep, accept_callback, AcceptorFailed, start_accept, mark, mainVars
  <2> QED BY <2>1, <2>2
<1>7. CASE UNCHANGED vars
  BY <1>7 DEF vars, mainVars, accVars, listVars
<1>8. CASE Spin BY <1>7, <1>8 DEF Spin
<1> QED
  BY <1>1, <1>2, <1>3, <1>4, <1>5, <1>6, <1>7, <1>8, Zenon
  DEF Next, UserCalls, MainProgress, MainMove, FlowStep

----------------------------------------------------------------------------
(* The refinement.                                                         *)

\* Without calls of source() a handler holds a connection in the place "handler" only.
PlainHolder ==
  [c \in Conns |-> CASE c \notin connections -> "nobody"
                     [] c \in connections /\ pc[c] = "handler" -> "handler"
                     [] OTHER -> "server"]

LEMMA HolderIsPlain ==
  ASSUME ~SourceCalled, Inv
  PROVE  ContractHolder = PlainHolder
<1>1. ASSUME NEW c \in Conns PROVE HandlerHolds(c) <=> pc[c] = "handler"
  BY DEF Inv, ConnInv, HandlerHolds
<1> QED BY <1>1, Zenon DEF ContractHolder, PlainHolder

\* The same of the state a step leads to.
LEMMA HolderIsPlainNext ==
  ASSUME ~SourceCalled, Inv'
  PROVE  ContractHolder' = PlainHolder'
<1>1. ASSUME NEW c \in Conns PROVE HandlerHolds(c)' <=> pc'[c] = "handler"
  BY DEF Inv, ConnInv, HandlerHolds
<1> QED BY <1>1, Zenon DEF ContractHolder, PlainHolder

\* A step of a connection's flow hands the connection over, takes it off the list, or
\* is none of the contract's business.
LEMMA FlowRefines ==
  ASSUME ~SourceCalled, Inv, Inv', NEW c \in Conns, FlowStep(c)
  PROVE  [Contract!Next]_(Contract!vars)
<1>0. ContractHolder = PlainHolder /\ ContractHolder' = PlainHolder'
  BY HolderIsPlain, HolderIsPlainNext
<1>1. Frame(c) BY FlowFrame
<1>2. \A d \in Conns \ {c} : pc'[d] = pc[d] BY FlowLocal DEF LocalStep, Others
<1>3. ContractPhase' = ContractPhase
  BY <1>1 DEF Frame, mainVars, ContractPhase
<1>4. \A d \in Conns \ {c} : d \in connections' <=> d \in connections
  BY <1>1 DEF Frame, Unlist, listVars
<1>5. ContractHolder' = [ContractHolder EXCEPT ![c] = ContractHolder'[c]]
  BY <1>0, <1>2, <1>4, Zenon DEF PlainHolder
<1>6. \/ ContractHolder'[c] = ContractHolder[c]
      \/ ContractHolder[c] = "server" /\ ContractHolder'[c] = "handler"
      \/ ContractHolder[c] = "handler" /\ ContractHolder'[c] = "server"
      \/ ContractHolder[c] = "server" /\ ContractHolder'[c] = "nobody"
  BY <1>0, <1>1 DEF Frame, Unlist, listVars, PlainHolder
<1>7. CASE ContractHolder'[c] = ContractHolder[c]
  <2>1. ContractHolder' = ContractHolder BY <1>0, <1>5, <1>7, Zenon DEF PlainHolder
  <2> QED BY <1>3, <2>1 DEF Contract!vars
<1>8. CASE ContractHolder'[c] # ContractHolder[c]
  <2>1. Contract!Notify(c) \/ Contract!Respond(c) \/ Contract!Destroy(c)
    BY <1>3, <1>5, <1>6, <1>8
    DEF Contract!Notify, Contract!Respond, Contract!Destroy, Contract!Pass
  <2> QED BY <1>8, <2>1 DEF Contract!Next, Contract!Handover
<1> QED BY <1>7, <1>8

\* bind and mark list a connection, while the server serves or closes its listeners;
\* the other steps of the accept handlers are none of the contract's business.
LEMMA AcceptRefines ==
  ASSUME ~SourceCalled, Inv, Inv', StopInv, NEW a \in Acceptors,
         bind(a) \/ AcceptStep(a)
  PROVE  [Contract!Next]_(Contract!vars)
<1>0. ContractHolder = PlainHolder /\ ContractHolder' = PlainHolder'
  BY HolderIsPlain, HolderIsPlainNext
<1>1. UNCHANGED <<main, running>>
  BY Zenon DEF bind, AcceptStep, accept_callback, AcceptorFailed, start_accept, mark, mainVars
<1>2. ContractPhase' = ContractPhase BY <1>1 DEF ContractPhase
<1>3. main \in {"on", "closing", "waitAcceptors"}
  BY Zenon DEF bind, AcceptStep, accept_callback, AcceptorFailed, start_accept, mark, Inv,
     CountInv, AcceptorsQuiesced, StopInv, TypeOK, MainTypeOK, MainPlaces
<1>4. ContractPhase \in {"serving", "closing"} BY <1>3 DEF ContractPhase
<1>5. ASSUME NEW c \in Conns, c \notin connections, connections' = connections \cup {c},
             pc'[c] = "accept", \A d \in Conns \ {c} : pc'[d] = pc[d]
      PROVE  Contract!Next
  <2>1. ContractHolder[c] = "nobody" BY <1>0, <1>5 DEF PlainHolder
  <2>2. ContractHolder' = [ContractHolder EXCEPT ![c] = "server"]
    BY <1>0, <1>5, Zenon DEF PlainHolder
  <2>3. Contract!Accept(c)
    BY <1>2, <1>4, <2>1, <2>2 DEF Contract!Accept, Contract!Pass
  <2>4. ContractHolder'[c] # ContractHolder[c]
    BY <1>0, <1>5, <2>1 DEF PlainHolder
  <2> QED BY <2>3, <2>4 DEF Contract!Next, Contract!Handover
<1>6. ASSUME connections' = connections,
             \A d \in connections : pc'[d] = "handler" <=> pc[d] = "handler"
      PROVE  UNCHANGED Contract!vars
  <2>1. ContractHolder' = ContractHolder BY <1>0, <1>6 DEF PlainHolder
  <2> QED BY <1>2, <2>1 DEF Contract!vars
<1>7. CASE bind(a)
  <2>1. PICK c \in Conns : /\ pc[c] = "none" /\ pc' = [pc EXCEPT ![c] = "accept"]
                           /\ connections' = connections \cup {c}
    BY <1>7, Zenon DEF bind, Available, Goto
  <2>2. c \notin connections BY <2>1, Zenon DEF Inv, ConnInv, UnlistedPlaces
  <2> QED BY <1>5, <2>1, <2>2 DEF Inv, TypeOK, FlowTypeOK
<1>8. CASE accept_callback(a)
  <2>1. accConn[a] \in Conns /\ pc[accConn[a]] = "accept"
    BY <1>8, Zenon DEF accept_callback, Inv, AccInv
  <2>2. \E p \in {"start", "destroy"} : pc' = [pc EXCEPT ![accConn[a]] = p]
    BY <1>8 DEF accept_callback, Goto
  <2>3. connections' = connections BY <1>8 DEF accept_callback, listVars
  <2> QED
    BY <1>6, <2>1, <2>2, <2>3 DEF Inv, TypeOK, MainTypeOK, FlowTypeOK
<1>9. CASE AcceptorFailed(a)
  BY <1>6, <1>9 DEF AcceptorFailed, listVars, connVars
<1>10. CASE start_accept(a)
  <2>1. connections' = connections BY <1>10 DEF start_accept
  <2>2. CASE running
    <3>1. PICK c \in Conns : pc[c] = "none" /\ pc' = [pc EXCEPT ![c] = "accept"]
      BY <1>10, <2>2 DEF start_accept, Available, Goto
    <3> QED BY <1>6, <2>1, <3>1 DEF Inv, TypeOK, MainTypeOK, FlowTypeOK
  <2>3. CASE ~running
    BY <1>6, <1>10, <2>1, <2>3 DEF start_accept
  <2> QED BY <2>2, <2>3
<1>11. CASE mark(a)
  <2>1. /\ accConn[a] \in Conns /\ accConn[a] \notin connections
        /\ pc[accConn[a]] = "accept"
    BY <1>11, Zenon DEF mark, Inv, AccInv
  <2> QED BY <1>5, <1>11, <2>1, Zenon DEF mark
<1> QED BY <1>7, <1>8, <1>9, <1>10, <1>11 DEF AcceptStep

\* start(), stop() and the two ends of its waits are the phases of the contract.
LEMMA MainRefines ==
  ASSUME ~SourceCalled, Inv, StopInv, MainMove
  PROVE  [Contract!Next]_(Contract!vars)
<1>1. UNCHANGED <<listVars, connVars>>
  BY DEF MainMove, start, stopListeners, stop, ListenersClosed, AcceptorsStopped,
     Swept, ConnectionsGone, PoolStopped
<1>2. ContractHolder' = ContractHolder
  BY <1>1 DEF ContractHolder, HandlerHolds, listVars, connVars, flagVars
<1>3. ASSUME ContractPhase' = ContractPhase PROVE UNCHANGED Contract!vars
  BY <1>2, <1>3 DEF Contract!vars
<1>4. CASE start
  <2>1. Contract!Start
    BY <1>2, <1>4 DEF start, ContractPhase, Contract!Start, Contract!Phase
  <2> QED BY <2>1 DEF Contract!Next
<1>5. CASE stop
  <2>1. Contract!Stop
    BY <1>2, <1>5 DEF stop, ContractPhase, Contract!Stop, Contract!Phase
  <2> QED BY <2>1 DEF Contract!Next
<1>6. CASE AcceptorsStopped /\ ~running
  <2>1. Contract!Drain
    BY <1>2, <1>6 DEF AcceptorsStopped, ContractPhase, Contract!Drain, Contract!Phase
  <2> QED BY <2>1 DEF Contract!Next
<1>7. CASE PoolStopped
  <2>1. main = "join" /\ ~running /\ connections = {} /\ main' = "off"
    BY <1>7 DEF PoolStopped, StopInv
  <2>2. \A c \in Conns : ContractHolder[c] = "nobody" BY <2>1 DEF ContractHolder
  <2>3. ContractPhase = "draining" /\ ContractPhase' = "stopped"
    BY <2>1 DEF ContractPhase
  <2>4. Contract!Stopped
    BY <1>2, <2>2, <2>3 DEF Contract!Stopped, Contract!Phase
  <2> QED BY <2>4 DEF Contract!Next
<1>8. CASE \/ stopListeners \/ ListenersClosed \/ Swept \/ ConnectionsGone
           \/ AcceptorsStopped /\ running
  <2>1. ContractPhase' = ContractPhase
    BY <1>8 DEF stopListeners, ListenersClosed, Swept, ConnectionsGone,
       AcceptorsStopped, ContractPhase
  <2> QED BY <1>3, <2>1
<1> QED BY <1>4, <1>5, <1>6, <1>7, <1>8 DEF MainMove

\* Every step of the server is a step of the contract, or none.
LEMMA NextRefines ==
  ASSUME ~SourceCalled, Inv, StopInv, [Next]_vars
  PROVE  [Contract!Next]_(Contract!vars)
<1>0. Inv' BY NextInv
<1>1. ASSUME NEW c \in Conns, FlowStep(c) PROVE [Contract!Next]_(Contract!vars)
  BY <1>0, <1>1, FlowRefines
<1>2. ASSUME NEW a \in Acceptors, bind(a) \/ AcceptStep(a)
      PROVE  [Contract!Next]_(Contract!vars)
  BY <1>0, <1>2, AcceptRefines
<1>3. CASE MainMove BY <1>3, MainRefines
<1>4. ASSUME UNCHANGED <<main, running, connections, pc>>
      PROVE  [Contract!Next]_(Contract!vars)
  <2>1. ContractHolder = PlainHolder /\ ContractHolder' = PlainHolder'
    BY <1>0, HolderIsPlain, HolderIsPlainNext
  <2> QED BY <1>4, <2>1 DEF Contract!vars, ContractPhase, PlainHolder
<1>5. ASSUME NEW c \in Conns, Sweep(c) PROVE [Contract!Next]_(Contract!vars)
  BY <1>4, <1>5 DEF Sweep, listVars
<1>6. ASSUME NEW a \in Acceptors, AcceptCompletes(a) \/ CloseListener(a)
      PROVE  [Contract!Next]_(Contract!vars)
  BY <1>4, <1>6 DEF AcceptCompletes, CloseListener, mainVars, listVars, connVars
<1>7. CASE UNCHANGED vars \/ Spin
  BY <1>4, <1>7 DEF Spin, vars, mainVars, listVars, connVars
<1> QED
  BY <1>1, <1>2, <1>3, <1>5, <1>6, <1>7
  DEF Next, UserCalls, MainProgress, MainMove, FlowStep

\* The server keeps its contract: no connection is taken from a handler, none comes in
\* once stop() sweeps, and stop() returns with none left, whatever the number of
\* connections and listeners; without calls of source(), which takes the connection
\* from the handler that asks.
THEOREM ContractKept ==
  ASSUME ~SourceCalled
  PROVE  Spec => ImplementsContract
<1>1. Init => Contract!Init
  BY DEF Init, Contract!Init, ContractPhase, ContractHolder
<1>2. Inv /\ StopInv /\ [Next]_vars => [Contract!Next]_(Contract!vars)
  BY NextRefines
<1>3. Inv /\ StopInv /\ [Next]_vars => StopInv' BY StopInvNext
<1> QED
  BY <1>1, <1>2, <1>3, StopInvInit, Invariance, PTL
  DEF Spec, ImplementsContract, Contract!Spec

----------------------------------------------------------------------------
(* What is left when stop() has returned, where source() is not called.    *)

\* Places of a connection that a thread is driving.
DrivenPlaces == {"start", "readRequest", "readInit", "invalid", "badRequest",
                 "bodyInit", "sendInit", "destroy", "unlist", "release", "dtorMark",
                 "dtorUnlist", "freeing", "destroyTls", "dtorTls", "releaseTls"}

\* The converse of the first part of ConnInv: what is alive is listed, or about to be
\* listed by mark, and what is on its way has a thread.
AliveInv(c) ==
  /\ pc[c] \notin {"lost", "dangling"}
  /\ pc[c] \notin UnlistedPlaces \cup {"accept"} => c \in connections
  /\ pc[c] = "accept" /\ c \notin connections =>
       \E a \in Acceptors : accPc[a] = "mark" /\ accConn[a] = c
  /\ pc[c] \in DrivenPlaces => runner[c] # "none"

LeftInv == (\A c \in Conns : AliveInv(c)) /\ NoneOutlivesStop

\* What a step of the flow of c does to it: a connection that is not listed can only
\* be freed.
AliveStep(c) ==
  /\ \A d \in Conns \ {c} : pc'[d] = pc[d] /\ runner'[d] = runner[d]
  /\ pc'[c] \notin {"lost", "dangling"}
  /\ pc'[c] \notin UnlistedPlaces \cup {"accept"} => c \in connections'
  /\ pc'[c] = "accept" => pc[c] = "accept" /\ UNCHANGED listVars
  /\ pc'[c] \in DrivenPlaces => runner'[c] # "none"
  /\ pc[c] \in {"none", "release", "freeing"} =>
       pc'[c] = "none" \/ (pc'[c] = pc[c] /\ runner'[c] = runner[c])

\* Every step of a flow is an AliveStep.
LEMMA FlowAlive ==
  ASSUME ~SourceCalled, Inv, NEW c \in Conns, AliveInv(c), FlowStep(c)
  PROVE  AliveStep(c)
<1>0. /\ pc \in [Conns -> Places] /\ runner \in [Conns -> Threads \cup {"none"}]
      /\ ~resume[c] /\ (pc[c] = "release" => ~isOwned[c])
      /\ HandlerThreads \subseteq {"pool", "user"}
  BY ThreadsAssumption DEF Inv, TypeOK, FlowTypeOK, ConnInv
<1> USE <1>0 DEF AliveStep, AliveInv, DrivenPlaces, UnlistedPlaces, ClosingLocked,
         listVars
<1>1. CASE IoCompletes(c) BY <1>1, Zenon DEF IoCompletes
<1>2. CASE Unlock(c) BY <1>2, Zenon DEF Unlock, flagVars
<1>3. CASE StartConnection(c) BY <1>3, Zenon DEF StartConnection, Goto, StartedOp
<1>4. CASE HandshakeDone(c) BY <1>4, Zenon DEF HandshakeDone, Goto
<1>5. CASE read_request(c)
  <2>1. /\ pc[c] = "readRequest" /\ c \in connections
        /\ runner[c] # "none" /\ UNCHANGED listVars
    BY <1>5, Zenon DEF read_request, connection_notify_request
  <2>2. \/ \E p \in {"destroy", "invalid", "readInit"} : Goto(c, p, runner[c])
        \/ Goto(c, "handler", "none")
    BY <1>5, Zenon DEF read_request, connection_notify_request
  <2> QED BY <2>1, <2>2, Zenon DEF Goto
<1>6. CASE InvalidRequest(c) BY <1>6, Zenon DEF InvalidRequest, Goto
<1>7. CASE async_read_some(c)
  BY <1>7, Zenon DEF async_read_some, StartOp, Goto, StartedOp
<1>8. CASE ReadDone(c) BY <1>8, Zenon DEF ReadDone, Goto
<1>9. CASE SendBadRequest(c) BY <1>9, Zenon DEF SendBadRequest, sendResponse, Goto
<1>10. CASE async_write(c) BY <1>10, Zenon DEF async_write, StartOp, Goto, StartedOp
<1>11. CASE write_chunk(c) BY <1>11 DEF write_chunk, StartedOp
<1>12. CASE WriteDone(c) BY <1>12, Zenon DEF WriteDone, connection_recycle, Goto
<1>13. CASE async_read_body(c)
  BY <1>13, Zenon DEF async_read_body, StartOp, Goto, StartedOp
<1>14. CASE BodyDone(c) BY <1>14, Zenon DEF BodyDone, Goto
<1>15. CASE destroy(c)
  BY <1>15, Zenon DEF destroy, DestroyMark, markToBeDeleted, Goto
<1>16. CASE DestroyUnlist(c)
  BY <1>16 DEF DestroyUnlist, Unlist, Goto, flagVars
<1>17. CASE release(c) BY <1>17, Zenon DEF release, FreeMemory, Goto, flagVars
<1>18. CASE DtorMark(c)
  BY <1>18, Zenon DEF DtorMark, DestroyMark, markToBeDeleted, Goto
<1>19. CASE DtorUnlist(c) BY <1>19 DEF DtorUnlist, Unlist, Goto, flagVars
<1>20. CASE DtorDone(c) BY <1>20, Zenon DEF DtorDone, FreeMemory, Goto
<1>21. ASSUME NEW t \in HandlerThreads, HandlerSend(c, t) PROVE AliveStep(c)
  BY <1>21, Zenon DEF HandlerSend, sendResponse, Goto
<1>22. ASSUME NEW t \in HandlerThreads, HandlerRelease(c, t) PROVE AliveStep(c)
  BY <1>22, Zenon DEF HandlerRelease, Goto
<1>23. ASSUME NEW t \in HandlerThreads, HandlerRead(c, t) PROVE AliveStep(c)
  BY <1>23, Zenon DEF HandlerRead, Goto
<1>24. ASSUME NEW t \in HandlerThreads, HandlerSource(c, t) PROVE AliveStep(c)
  BY <1>24, Zenon DEF HandlerSource, Goto
<1>25. CASE TlsClosed(c) BY <1>25, Zenon DEF TlsClosed, Goto
<1> QED BY <1>1, <1>2, <1>3, <1>4, <1>5, <1>6, <1>7, <1>8, <1>9, <1>10, <1>11,
     <1>12, <1>13, <1>14, <1>15, <1>16, <1>17, <1>18, <1>19, <1>20, <1>21,
     <1>22, <1>23, <1>24, <1>25, Zenon
    DEF FlowStep, ConnStep, HandlerStep, HandlerEnds

\* Every step preserves LeftInv.
LEMMA LeftInvNext ==
  ASSUME ~SourceCalled, Inv, StopInv, LeftInv, [Next]_vars
  PROVE  LeftInv'
<1>1. ASSUME NEW c \in Conns, FlowStep(c) PROVE LeftInv'
  <2>1. AliveStep(c) BY <1>1, FlowAlive DEF LeftInv
  <2>2. Frame(c) BY <1>1, FlowFrame
  <2>3. ASSUME NEW d \in Conns PROVE AliveInv(d)'
    <3>1. CASE d = c
      BY <2>1, <2>2, <3>1, Zenon DEF AliveStep, LeftInv, AliveInv, Frame, accVars, listVars
    <3>2. CASE d # c
      BY <2>1, <2>2, <3>2 DEF AliveStep, LeftInv, AliveInv, Frame, accVars, listVars,
         Unlist
    <3> QED BY <3>1, <3>2
  <2>4. NoneOutlivesStop'
    BY <2>1, <2>2 DEF AliveStep, LeftInv, NoneOutlivesStop, Frame, mainVars
  <2> QED BY <2>3, <2>4 DEF LeftInv
<1>2. ASSUME UNCHANGED <<listVars, pc, runner, accPc, accConn>>,
             main' = "off" => main = "off"
      PROVE  LeftInv'
  BY <1>2 DEF LeftInv, AliveInv, NoneOutlivesStop, listVars
<1>3. ASSUME NEW c \in Conns, Sweep(c) PROVE LeftInv'
  BY <1>2, <1>3 DEF Sweep, accVars
<1>4. CASE PoolStopped
  <2>1. UNCHANGED <<listVars, accVars, connVars>> BY <1>4 DEF PoolStopped
  <2>2. \A c \in Conns : AliveInv(c)'
    BY <2>1 DEF LeftInv, AliveInv, listVars, accVars, connVars
  <2>3. ASSUME NEW c \in Conns
        PROVE  \/ pc[c] = "none"
               \/ runner[c] = "user" /\ pc[c] \in {"release", "freeing"}
    <3>1. connections = {} /\ \A a \in Acceptors : accPc[a] # "mark"
      BY <1>4 DEF PoolStopped, StopInv, Inv, CountInv, AcceptorsQuiesced
    <3>2. runner[c] \in {"none", "user"} BY <1>4 DEF PoolStopped, PoolIdle
    <3> QED BY <3>1, <3>2 DEF LeftInv, AliveInv, UnlistedPlaces, DrivenPlaces
  <2> QED BY <2>1, <2>2, <2>3 DEF LeftInv, NoneOutlivesStop, connVars
<1>5. CASE MainMove /\ ~PoolStopped
  <2>1. UNCHANGED <<listVars, accVars, connVars>> /\ main' # "off"
    BY <1>5 DEF MainMove, start, stopListeners, stop, ListenersClosed,
       AcceptorsStopped, Swept, ConnectionsGone
  <2> QED BY <1>2, <2>1 DEF accVars, connVars
<1>6. ASSUME NEW a \in Acceptors, bind(a) \/ AcceptStep(a) PROVE LeftInv'
  <2>1. NoneOutlivesStop'
    <3>1. accPc[a] # "unbound" \/ main = "on"
      BY <1>6, Zenon DEF bind, AcceptStep, accept_callback, AcceptorFailed, start_accept, mark
    <3>2. main # "off" BY <3>1 DEF StopInv
    <3>3. main' = main
      BY <1>6, Zenon DEF bind, AcceptStep, accept_callback, AcceptorFailed, start_accept,
         mark, mainVars
    <3> QED BY <3>2, <3>3 DEF NoneOutlivesStop
  <2>2. ASSUME NEW d \in Conns PROVE AliveInv(d)'
    <3>1. ASSUME pc'[d] = "accept", d \in connections' PROVE AliveInv(d)'
      BY <3>1 DEF AliveInv, DrivenPlaces
    <3>2. ASSUME pc'[d] = pc[d], runner'[d] = runner[d], connections \subseteq connections',
                 \A b \in Acceptors : accPc[b] = "mark" =>
                   \/ accPc'[b] = "mark" /\ accConn'[b] = accConn[b]
                   \/ accConn[b] \in connections'
          PROVE  AliveInv(d)'
      <4>1. AliveInv(d) BY DEF LeftInv
      <4> QED BY <3>2, <4>1, Zenon DEF AliveInv
    <3>3. pc \in [Conns -> Places] /\ runner \in [Conns -> Threads \cup {"none"}]
      BY DEF Inv, TypeOK, FlowTypeOK
    <3>4. accPc \in [Acceptors -> AccPlaces]
          /\ accConn \in [Acceptors -> Conns \cup {NoConn}]
      BY DEF Inv, TypeOK, AccTypeOK
    <3>5. CASE bind(a)
      <4>1. PICK c \in Conns : /\ Goto(c, "accept", "none")
                               /\ connections' = connections \cup {c}
                               /\ accConn' = [accConn EXCEPT ![a] = c]
        BY <3>5, Zenon DEF bind, Available
      <4>2. accPc[a] # "mark" /\ accPc' = [accPc EXCEPT ![a] = "accepting"]
        BY <3>5 DEF bind
      <4> QED BY <3>1, <3>2, <3>3, <3>4, <4>1, <4>2 DEF Goto
    <3>6. CASE accept_callback(a)
      <4> DEFINE c == accConn[a]
      <4>1. accPc[a] = "accepting" /\ c \in Conns /\ pc[c] = "accept"
        BY <3>6, Zenon DEF accept_callback, Inv, AccInv
      <4>2. c \in connections
        BY <1>6, <4>1, Zenon DEF LeftInv, AliveInv, Inv, AccInv
      <4>3. \E p \in {"start", "destroy"}, q \in AccPlaces :
              Goto(c, p, a) /\ accPc' = [accPc EXCEPT ![a] = q]
        BY <3>6, Zenon DEF accept_callback, AccPlaces
      <4>4. connections' = connections /\ accConn' = accConn
        BY <3>6 DEF accept_callback, listVars
      <4>5. a # "none" BY <1>6, ThreadsAssumption
      <4>6. CASE d = c
        <5>1. pc'[d] \in {"start", "destroy"} /\ runner'[d] = a
          BY <3>3, <4>3, <4>6 DEF Goto
        <5> QED BY <4>2, <4>4, <4>5, <4>6, <5>1 DEF AliveInv, UnlistedPlaces
      <4>7. CASE d # c
        BY <3>2, <3>3, <3>4, <4>1, <4>3, <4>4, <4>7 DEF Goto
      <4> QED BY <4>6, <4>7
    <3>7. CASE AcceptorFailed(a)
      BY <3>2, <3>4, <3>7, Zenon DEF AcceptorFailed, listVars, connVars
    <3>8. CASE start_accept(a) /\ running
      <4>1. PICK c \in Conns : Goto(c, "accept", a) /\ accConn' = [accConn EXCEPT ![a] = c]
        BY <3>8 DEF start_accept, Available
      <4>2. /\ connections' = connections /\ accPc[a] # "mark"
            /\ accPc' = [accPc EXCEPT ![a] = "mark"]
        BY <3>8 DEF start_accept
      <4>3. CASE d = c
        <5>1. pc'[d] = "accept" /\ accPc'[a] = "mark" /\ accConn'[a] = d
          BY <1>6, <3>3, <3>4, <4>1, <4>2, <4>3 DEF Goto
        <5> QED BY <1>6, <5>1, Zenon DEF AliveInv, DrivenPlaces
      <4>4. CASE d # c
        BY <3>2, <3>3, <3>4, <4>1, <4>2, <4>4 DEF Goto
      <4> QED BY <4>3, <4>4
    <3>9. CASE start_accept(a) /\ ~running
      BY <3>2, <3>4, <3>9, Zenon DEF start_accept
    <3>10. CASE mark(a)
      <4>1. /\ pc' = pc /\ connections' = connections \cup {accConn[a]}
            /\ runner' = [runner EXCEPT ![accConn[a]] = "none"]
            /\ accPc' = [accPc EXCEPT ![a] = "accepting"] /\ accConn' = accConn
        BY <3>10 DEF mark
      <4>2. pc[accConn[a]] = "accept" BY <3>10 DEF mark, Inv, AccInv
      <4> QED BY <3>1, <3>2, <3>3, <3>4, <4>1, <4>2
    <3> QED BY <1>6, <3>5, <3>6, <3>7, <3>8, <3>9, <3>10 DEF AcceptStep
  <2> QED BY <2>1, <2>2 DEF LeftInv
<1>7. ASSUME NEW a \in Acceptors, AcceptCompletes(a) \/ CloseListener(a)
      PROVE  LeftInv'
  BY <1>2, <1>7 DEF AcceptCompletes, CloseListener, mainVars, connVars
<1>8. CASE UNCHANGED vars \/ Spin
  BY <1>2, <1>8 DEF Spin, vars, mainVars, accVars, connVars
<1> QED
  BY <1>1, <1>3, <1>4, <1>5, <1>6, <1>7, <1>8
  DEF Next, UserCalls, MainProgress, MainMove, FlowStep

\* When stop() has returned, the only connections whose memory is not returned are
\* those a thread of the user is deleting; without calls of source().
THEOREM StopLeavesNone ==
  ASSUME ~SourceCalled
  PROVE  Spec => []NoneOutlivesStop
<1>1. Init => LeftInv
  BY DEF Init, LeftInv, AliveInv, NoneOutlivesStop, UnlistedPlaces, DrivenPlaces
<1>2. Inv /\ StopInv /\ LeftInv /\ [Next]_vars => LeftInv' BY LeftInvNext
<1>3. Inv /\ StopInv /\ [Next]_vars => StopInv' BY StopInvNext
<1>4. LeftInv => NoneOutlivesStop BY DEF LeftInv
<1> QED BY <1>1, <1>2, <1>3, <1>4, StopInvInit, Invariance, PTL DEF Spec
=============================================================================
