--------------------------- MODULE ClientContract ---------------------------
(***************************************************************************)
(* What HttpClient promises its user, without the io thread, libcurl,      *)
(* sockets or timers:                                                      *)
(*                                                                         *)
(*   - a request the client has taken on ends with one result, which is    *)
(*     handed over once; one it has not taken on has none;                 *)
(*   - a cancellation that was accepted ends the request; its caller comes *)
(*     back normally once the request is over or being cancelled, and with *)
(*     an exception only when there was nothing left to cancel;            *)
(*   - the client is gone only when it works on no request.                *)
(***************************************************************************)
CONSTANTS
  Requests, Cancellers,
  Orderly   \* nobody uses the client while it is being destroyed

VARIABLES
  status,     \* per request: where it is
  cancelled,  \* requests with a cancellation that was accepted and not performed
  caller,     \* per canceller: where it is, with which request
  gone        \* the client is destroyed

vars == <<status, cancelled, caller, gone>>

Over == {"notified", "delivered"}

Init ==
  /\ status = [r \in Requests |-> "new"] /\ cancelled = {}
  /\ caller = [k \in Cancellers |-> [at |-> "idle", r |-> "none"]]
  /\ gone = FALSE

Advance(r, from, to) ==
  /\ status[r] = from
  /\ status' = [status EXCEPT ![r] = to]
  /\ UNCHANGED <<cancelled, caller, gone>>

Submit(r)  == Advance(r, "new", "submitted")
Deliver(r) == Advance(r, "notified", "delivered")

Call(k) ==
  /\ \E r \in Requests :
       \/ /\ caller[k].at = "idle"
          /\ caller' = [caller EXCEPT ![k] = [at |-> "flagged", r |-> r]]
       \/ /\ caller[k] = [at |-> "flagged", r |-> r]
          /\ caller' = [caller EXCEPT ![k].at = "waiting"]
  /\ UNCHANGED <<status, cancelled, gone>>

\* The client works on its requests, several at a time.
Takes(r)     == status[r] = "submitted" /\ status'[r] \in {"active", "notified", "dropped"}
Notifies(r)  == status[r] = "active" /\ status'[r] = "notified"
Accepts(r)   == status[r] = "active" \/ status[r] \in Over
Performs(r)  == status'[r] \in Over
Returns(k, r) ==
  /\ caller[k] = [at |-> "waiting", r |-> r]
  /\ \/ caller'[k].at = "idle" /\ (r \in cancelled \/ status'[r] \in Over)
     \/ caller'[k].at = "threw" /\ status[r] \in Over \cup {"dropped"}

Work ==
  /\ \A r \in Requests : status'[r] = status[r] \/ Takes(r) \/ Notifies(r)
  /\ \A r \in cancelled' \ cancelled : Accepts(r)
  /\ \A r \in cancelled \ cancelled' : Performs(r)
  /\ \A k \in Cancellers : caller'[k] = caller[k] \/ \E r \in Requests : Returns(k, r)
  /\ UNCHANGED gone

Close ==
  /\ ~gone /\ gone' = TRUE
  /\ Orderly => cancelled = {} /\ \A r \in Requests : status[r] \notin {"submitted", "active"}
  /\ UNCHANGED <<status, cancelled, caller>>

Next ==
  \/ Work \/ Close
  \/ \E r \in Requests : Submit(r) \/ Deliver(r)
  \/ \E k \in Cancellers : Call(k)

Spec == Init /\ [][Next]_vars
=============================================================================
