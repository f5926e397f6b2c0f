--------------------------- MODULE MCRequestCycle ---------------------------
(* Instances of RequestCycle for TLC.                                      *)
EXTENDS RequestCycle, TLC

Message(head, length, path, method, connection, version) ==
  [head |-> head, length |-> length, path |-> path, method |-> method,
   connection |-> connection, version |-> version]

\* Heads of less than, exactly and more than BUF_SIZE; bodies of none, of a part
\* of a buffer, of more than two and of more than four buffers; every answer of the dispatcher.
SomeMessages ==
  {Message(1, 0, "/", "GET", "none", "1.1"),
   Message(3, 2, "/", "PUT", "keep-alive", "1.0"),
   Message(4, 1, "/", "PUT", "none", "1.1"),
   Message(2, 7, "/", "POST", "none", "1.1"),
   Message(1, 13, "/", "PUT", "none", "1.1"),
   Message(1, 1, "/x", "POST", "none", "1.1"),
   Message(2, 0, "/", "DELETE", "none", "1.0"),
   Message(1, 0, "/", "GET", "close", "1.1")}

SomeRoutes ==
  add(add(<<>>, "/", {"GET", "PUT"}, "WithoutBody"), "/", {"PUT", "POST"}, "WithBody")

\* Heads longer than BUF_SIZE on one connection.
OneLongHead == [ragel |-> 1, stream |-> 0]
TwoLongHeads == [ragel |-> 2, stream |-> 0]
=============================================================================
