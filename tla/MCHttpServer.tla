--------------------------- MODULE MCHttpServer ---------------------------
(* Model-checking instances of HttpServer.                                 *)
EXTENDS HttpServer, TLC

\* Addresses are interchangeable.
Symmetry == Permutations(Conns)
============================================================================
