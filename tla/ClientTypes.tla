---------------------------- MODULE ClientTypes ----------------------------
(***************************************************************************)
(* The type invariant of ClientManager: the bound on the waits of all      *)
(* connections, a cardinality, bounds those of each, and no step exceeds   *)
(* it.                                                                     *)
(***************************************************************************)
EXTENDS ClientWork, FiniteSetTheorems

\* A bound on all waits bounds those of each connection.
LEMMA WaitsBoundEach ==
  ASSUME NEW c \in [Requests -> Connection], ioq \in Seq(Tasks), WaitsBound(c),
         NEW r \in Requests
  PROVE  c[r].polls + c[r].stale <= MaxPolls
  <1> DEFINE n(s) == c[s].polls + c[s].stale + c[s].aborted
             own(s) == {s} \X (1..n(s))
             queued == {i \in 2..Len(ioq) : ioq[i].t = "performOp"}
  <1>1. \A s \in Requests : n(s) \in Nat /\ c[s].polls \in Nat /\ c[s].stale \in Nat
                            /\ c[s].aborted \in Nat
    BY FieldTypes
  <1>2. ASSUME NEW s \in Requests
        PROVE  IsFiniteSet(own(s)) /\ Cardinality(own(s)) = n(s)
    <2> HIDE DEF n
    <2>1. IsFiniteSet(1..n(s)) /\ Cardinality(1..n(s)) = n(s)
      BY <1>1, FS_Interval
    <2>2. IsFiniteSet({s}) /\ Cardinality({s}) = 1
      BY FS_Singleton, Zenon
    <2>3. IsFiniteSet(own(s)) /\ Cardinality(own(s)) = Cardinality({s}) * Cardinality(1..n(s))
      BY <2>1, <2>2, FS_Product, Zenon
    <2>4. QED
      BY <1>1, <2>1, <2>2, <2>3
  <1> DEFINE all == {own(s) : s \in Requests}
             f == [s \in Requests |-> own(s)]
  <1>3. Waits(c) = UNION all
    BY DEF Waits
  <1> HIDE DEF own
  <1>4. IsFiniteSet(Waits(c))
    <2>1. f \in Surjection(Requests, all)
      BY Zenon DEF Surjection
    <2>2. IsFiniteSet(all)
      BY <2>1, FS_Surjection, BoundsAssumption, Zenon
    <2>3. QED
      BY <1>2, <1>3, <2>2, FS_UNION, Zenon
  <1>5. own(r) \subseteq Waits(c)
    BY <1>3
  <1>6. Cardinality(own(r)) <= Cardinality(Waits(c)) /\ Cardinality(Waits(c)) \in Nat
    BY <1>4, <1>5, FS_Subset, FS_CardinalityType
  <1>7. Cardinality(queued) \in Nat
    <2>1. IsFiniteSet(2..Len(ioq))
      BY FS_Interval
    <2>2. QED
      BY <2>1, FS_Subset, FS_CardinalityType
  <1>8. n(r) <= MaxPolls
    BY <1>1, <1>2, <1>6, <1>7, BoundsAssumption DEF WaitsBound
  <1> QED
    BY <1>1, <1>8, BoundsAssumption

\* The bound AllDriven and performOp keep is the one ClientWork uses.
LEMMA BoundEach == ASSUME ioq \in Seq(Tasks) PROVE EachFits
  BY WaitsBoundEach DEF EachFits, Fits

FitsInv == \A r \in Requests : Fits(conn[r])

\* A wait that ends, a call of the user and a result handed over add no waits.
LEMMA OneFits ==
  ASSUME IInv, FitsInv, NEW r \in Requests, NEW y, conn' = [conn EXCEPT ![r] = y],
         y.polls + y.stale <= conn[r].polls + conn[r].stale, y \in Connection
  PROVE  FitsInv'
  <1>1. conn \in [Requests -> Connection]
    BY DEF IInv, Types
  <1>2. conn'[r] = y /\ \A s \in Requests \ {r} : conn'[s] = conn[s]
    BY <1>1
  <1>3. /\ y.polls \in Nat /\ y.stale \in Nat
        /\ conn[r].polls \in Nat /\ conn[r].stale \in Nat
    BY <1>1, FieldTypes
  <1>4. Fits(y)
    BY <1>3, BoundsAssumption DEF FitsInv, Fits
  <1>5. QED
    BY <1>2, <1>4 DEF FitsInv

\* No step leaves a connection with more waits than the bound.
LEMMA FitsStep ==
  ASSUME IInv, FitsInv, [Next]_vars
  PROVE  FitsInv'
  <1>1. ioq \in Seq(Tasks) /\ conn \in [Requests -> Connection]
    BY DEF IInv, Types
  <1>2. \A r \in Requests : conn[r] \in Connection /\ Rest(conn[r])
    BY <1>1 DEF IInv, ConnInv
  <1>3. CASE IoTask
    BY <1>1, <1>3, BoundEach, IoTaskWorked DEF AllWorked, Worked, FitsInv
  <1>4. CASE conn' = conn
    BY <1>4 DEF FitsInv
  <1>5. ASSUME NEW r \in Requests, PollReady(r) PROVE FitsInv'
    <2>1. PICK y : /\ conn' = [conn EXCEPT ![r] = y]
                   /\ \/ conn[r].polls > 0 /\ y = [conn[r] EXCEPT !.polls = @ - 1]
                      \/ conn[r].stale > 0 /\ y = [conn[r] EXCEPT !.stale = @ - 1]
      BY <1>5, Zenon DEF PollReady
    <2>2. y \in Connection /\ y.polls + y.stale <= conn[r].polls + conn[r].stale
      BY <1>2, <2>1, WaitStep, Zenon
    <2>3. QED
      BY <2>1, <2>2, OneFits, Zenon
  <1>6. ASSUME NEW r \in Requests, NEW y, conn' = [conn EXCEPT ![r] = y], y \in Connection,
               y.polls = conn[r].polls, y.stale = conn[r].stale
        PROVE  FitsInv'
    <2>1. conn[r].polls \in Nat /\ conn[r].stale \in Nat
      BY <1>2, FieldTypes
    <2>2. y.polls + y.stale <= conn[r].polls + conn[r].stale
      BY <1>6, <2>1
    <2>3. QED
      BY <1>6, <2>2, OneFits, Zenon
  <1>7. ASSUME NEW r \in Requests, handle_request(r) PROVE FitsInv'
    <2> DEFINE y == [conn[r] EXCEPT !.life = "submitted"]
    <2>1. conn' = [conn EXCEPT ![r] = y]
      BY <1>7 DEF handle_request
    <2>2. conn[r] \in Connection
      BY <1>2
    <2>3. y \in Connection
      BY <2>2, Zenon DEF Connection
    <2>4. y.polls = conn[r].polls /\ y.stale = conn[r].stale
      BY <2>2, <2>3 DEF Connection
    <2> HIDE DEF y
    <2>5. QED
      BY <1>6, <2>1, <2>3, <2>4, Zenon
  <1>8. ASSUME NEW r \in Requests, Deliver(r) PROVE FitsInv'
    <2> DEFINE y == [conn[r] EXCEPT !.posted = FALSE]
    <2>1. conn' = [conn EXCEPT ![r] = y]
      BY <1>8 DEF Deliver
    <2>2. conn[r] \in Connection /\ FALSE \in BOOLEAN
      BY <1>2
    <2>3. y \in Connection
      BY <2>2, Zenon DEF Connection
    <2>4. y.polls = conn[r].polls /\ y.stale = conn[r].stale
      BY <2>2, <2>3 DEF Connection
    <2> HIDE DEF y
    <2>5. QED
      BY <1>6, <2>1, <2>3, <2>4, Zenon
  <1>9. ASSUME NEW k \in Cancellers, NEW r \in Requests, cancelOperation(k, r) PROVE FitsInv'
    <2> DEFINE y == [conn[r] EXCEPT !.cancelled = TRUE]
    <2>1. conn' = [conn EXCEPT ![r] = y]
      BY <1>9 DEF cancelOperation
    <2>2. conn[r] \in Connection /\ Rest(conn[r])
      BY <1>2
    <2>3. y \in Connection /\ y.polls = conn[r].polls /\ y.stale = conn[r].stale
      BY <2>2, FlagStep
    <2> HIDE DEF y
    <2>4. QED
      BY <1>6, <2>1, <2>3, Zenon
  <1>10. ASSUME \/ TimerFires \/ Destroy \/ FuturesSet \/ Cleanup \/ UNCHANGED vars
                \/ \E k \in Cancellers : cancelConnection(k)
         PROVE  conn' = conn
    BY <1>10 DEF TimerFires, Destroy, FuturesSet, Cleanup, cancelConnection, vars
  <1>11. QED
    BY <1>3, <1>4, <1>5, <1>7, <1>8, <1>9, <1>10, Zenon DEF Next, Gone

\* Every field of Connection and every variable of Manager keeps its type, and no
\* connection ever has more waits than MaxPolls allows all of them.
THEOREM ClientTypeCorrect == Spec => []TypeOK
  <1>1. Init => FitsInv
    <2>1. NewConnection.polls = 0 /\ NewConnection.stale = 0
      BY DEF NewConnection
    <2>2. QED
      BY <2>1, BoundsAssumption DEF Init, FitsInv, Fits
  <1>2. IInv /\ FitsInv /\ [Next]_vars => FitsInv'
    BY FitsStep
  <1>3. IInv /\ FitsInv => TypeOK
    <2> SUFFICES ASSUME IInv, FitsInv PROVE TypeOK
      OBVIOUS
    <2>1. ASSUME NEW r \in Requests
          PROVE  /\ conn[r].life \in {"new", "submitted", "handled", "dropped"}
                 /\ conn[r].state \in States
                 /\ conn[r].easy \in {"out", "connecting", "connected"}
                 /\ conn[r].socket \in {"null", "open", "deleted"}
                 /\ conn[r].action \in 0..2 /\ conn[r].aborted = 0
                 /\ conn[r].polls + conn[r].stale <= MaxPolls
                 /\ conn[r].promise \in Cancellers \cup {"nobody", "dtor"}
      <3>1. conn[r] \in Connection /\ Rest(conn[r]) /\ Fits(conn[r])
        BY DEF IInv, Types, ConnInv, FitsInv
      <3>2. QED
        BY <3>1, FieldTypes DEF Rest, Idle, Fits, Who
    <2>2. \A k \in Cancellers : caller[k].at \in {"idle", "flagged", "waiting", "threw"}
      BY DEF IInv, Types, Places
    <2>3. /\ {armed, running, crashed} \subseteq BOOLEAN
          /\ dtor \in {"alive", "shutdown", "futures", "checking", "cleanup", "deleted"}
      BY DEF IInv, Types, Phases
    <2>4. QED
      BY <2>1, <2>2, <2>3, Zenon DEF TypeOK
  <1>4. QED
    BY <1>1, <1>2, <1>3, ClientInvariance, PTL DEF Spec
=============================================================================
