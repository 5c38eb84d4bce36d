---------------------------- MODULE MCExpiration ----------------------------
(* Instances of Expiration for TLC: one or two keys on stripes of their    *)
(* own, ticks of two units of time, so that an expiry may fall on a tick   *)
(* or between two.                                                         *)
EXTENDS Expiration, TLC

CONSTANTS a, b, s1, s2, w1, w2, c1, c2, h1, h2, h3, h4

MCStripeOf == [k \in Keys |-> IF k = b /\ s2 \in Stripes THEN s2 ELSE s1]
Symmetry == Permutations(Hints) \union Permutations(Writers)

=============================================================================
