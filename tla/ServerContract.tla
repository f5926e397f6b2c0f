--------------------------- MODULE ServerContract ---------------------------
(***************************************************************************)
(* What HttpServer promises about its connections, without threads, locks, *)
(* sockets or counters.  A connection is held by nobody (it does not exist *)
(* for the server), by the server, or by the user's handler.               *)
(*                                                                         *)
(*   - a connection in the hands of the handler comes back to the server   *)
(*     before it can go away: the server never destroys it under the       *)
(*     handler;                                                            *)
(*   - once the server drains, connections only go away;                   *)
(*   - the server is stopped only when no connection is left.              *)
(***************************************************************************)
CONSTANT Conns

VARIABLES
  phase,   \* "stopped", "serving", "closing" (the listeners), "draining"
  holder   \* per connection: "nobody", "server" or "handler"

vars == <<phase, holder>>

Init ==
  /\ phase = "stopped"
  /\ holder = [c \in Conns |-> "nobody"]

Phase(from, to) ==
  /\ phase = from
  /\ phase' = to
  /\ UNCHANGED holder

Start == Phase("stopped", "serving")
Stop  == Phase("serving", "closing")
Drain == Phase("closing", "draining")
Stopped == (\A c \in Conns : holder[c] = "nobody") /\ Phase("draining", "stopped")

Pass(c, from, to) ==
  /\ holder[c] = from
  /\ holder' = [holder EXCEPT ![c] = to]
  /\ UNCHANGED phase

Accept(c)  == phase \in {"serving", "closing"} /\ Pass(c, "nobody", "server")
Notify(c)  == Pass(c, "server", "handler")
Respond(c) == Pass(c, "handler", "server")
Destroy(c) == Pass(c, "server", "nobody")

Handover(c) == Accept(c) \/ Notify(c) \/ Respond(c) \/ Destroy(c)

\* Every handover changes the holder; said first, it spares TLC most of the work.
Next ==
  \/ Start \/ Stop \/ Drain \/ Stopped
  \/ \E c \in Conns : holder'[c] # holder[c] /\ Handover(c)

Spec == Init /\ [][Next]_vars
=============================================================================
