----------------------------- MODULE MCCommands -----------------------------
(* Instances of Commands for TLC: two keys on two shards, a session that   *)
(* reads and one that writes, and the matcher against its reference on all *)
(* short patterns.                                                         *)
EXTENDS Commands, TLC

CONSTANTS val, reader, writer, e1, e2, e3, e4

OneKey == {<<97>>}
Bytes(n, S) == UNION {[1..k -> S] : k \in 0..n}

ASSUME GlobPrunesNothing ==
  \A p \in Bytes(5, {STAR, QMARK, 97, 98}), k \in Bytes(4, {97, 98}) :
    MatchGlob(p, k) = Means(p, k)
ASSUME ClassesEnd ==
  \A p \in Bytes(4, {STAR, 97, OPEN, CLOSE, NOT, DASH, ESC}), k \in Bytes(2, {97, 98, 93}) :
    MatchGlob(p, k) = Means(p, k)

a == <<97>>
ab == <<97, 98>>
TwoKeys == {a, ab}
MCShardOf == [k \in Keys |-> Len(k)]
TwoPatterns == {<<STAR>>, <<97, STAR>>, <<QMARK, STAR, 98>>}
ReadAndWrite == {reader} \X {"GET", "EXISTS", "TTL", "KEYS", "DBSIZE"}
                \union {writer} \X {"SET", "SETNX", "DEL", "EXPIRE"}
Symmetry == Permutations(Ids) \union Permutations(Values)
MCAmounts == {-1, 0, 1, 2}
BigAmounts == {2}
=============================================================================
