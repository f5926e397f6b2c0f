-------------------------- MODULE MCClientManager --------------------------
(* Instances of ClientManager for TLC.                                     *)
EXTENDS ClientManager, TLC

Symmetry == Permutations(Requests) \cup Permutations(Cancellers)
============================================================================
