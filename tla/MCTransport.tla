----------------------------- MODULE MCTransport ----------------------------
(* Instances of Transport for TLC: more clients than max_connections, and  *)
(* a request of at most one partial read.                                  *)
EXTENDS Transport, TLC

CONSTANTS c1, c2, c3

Symmetry == Permutations(Conns)

=============================================================================
