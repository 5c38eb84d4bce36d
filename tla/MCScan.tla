------------------------------- MODULE MCScan -------------------------------
(* Instances of Scan for TLC: two connections, one of two shards empty,    *)
(* three keys in the other, and a byte cap that a snapshot of all three    *)
(* exceeds and a snapshot of two fills.                                    *)
EXTENDS Scan, TLC

CONSTANTS a, b, d, o1, o2, i1, i2

MCShardOf == [k \in Keys |-> Shards]
Symmetry == Permutations(Owners) \union Permutations(Ids)

=============================================================================
