------------------------------ MODULE MCWheel ------------------------------
(* A wheel of the same four levels with two or three slots in each: the    *)
(* outermost level covers 24 ticks, so a run of 50 wraps it twice.         *)
EXTENDS Wheel, TLC

CONSTANTS h1, h2

MCSlots == 0 :> 3 @@ 1 :> 2 @@ 2 :> 2 @@ 3 :> 2
MCWidth == 0 :> 1 @@ 1 :> 3 @@ 2 :> 6 @@ 3 :> 12 @@ 4 :> 24
Symmetry == Permutations(Hints)

=============================================================================
