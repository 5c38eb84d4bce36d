------------------------------ MODULE MCEngine ------------------------------
(* Instances of Engine for TLC: at most three processes, three keys on two *)
(* shards, sizes of one and two bytes against limits of at most three.     *)
EXTENDS Engine, FiniteSetsExt, TLC

CONSTANTS p1, p2, p3, a, b, c, s1, s2

MCShardOf == [k \in Keys |-> IF k = c THEN s2 ELSE s1]
Symmetry == Permutations(Procs)

=============================================================================
