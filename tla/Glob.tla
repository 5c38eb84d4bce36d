-------------------------------- MODULE Glob --------------------------------
(* The glob matcher of KEYS and SCAN MATCH (internal/storage/glob.go), a    *)
(* port of Redis's, with the flag that cuts its backtracking short; and     *)
(* what a pattern means, without one.                                       *)
EXTENDS Integers, Sequences

(* Keys and patterns are sequences of bytes.                                *)
STAR == 42
QMARK == 63
OPEN == 91
CLOSE == 93
NOT == 94
DASH == 45
ESC == 92

-----------------------------------------------------------------------------
(* matchClass: the class that opens at i, against the byte c: the index of  *)
(* its last byte, and whether c is in it.                                   *)
MatchClass(p, i, c) ==
  LET n == Len(p)
      negate == i < n /\ p[i + 1] = NOT
      from[j \in (i + 1)..(n + 3), matched \in BOOLEAN] ==
        IF j > n THEN [next |-> n, yes |-> matched # negate]
        ELSE IF p[j] = ESC /\ j < n THEN from[j + 2, matched \/ p[j + 1] = c]
        ELSE IF p[j] = CLOSE THEN [next |-> j, yes |-> matched # negate]
        ELSE IF j + 2 <= n /\ p[j + 1] = DASH
          THEN from[j + 3, matched \/ (p[j] <= c /\ c <= p[j + 2])
                                   \/ (p[j + 2] <= c /\ c <= p[j])]
        ELSE from[j + 1, matched \/ p[j] = c]
  IN  from[IF negate THEN i + 2 ELSE i + 1, FALSE]

OnlyStars(p, i) == \A j \in i..Len(p) : p[j] = STAR
LastStar(p, i) ==
  CHOOSE j \in i..Len(p) : /\ \A h \in i..j : p[h] = STAR
                           /\ j < Len(p) => p[j + 1] # STAR

(* One step that consumes a byte: where the pattern goes on, 0 for a        *)
(* mismatch.                                                                *)
Consume(p, i, c) ==
  CASE p[i] = QMARK -> i + 1
    [] p[i] = OPEN -> LET class == MatchClass(p, i, c)
                      IN  IF class.yes THEN class.next + 1 ELSE 0
    [] p[i] = ESC /\ i < Len(p) -> IF p[i + 1] = c THEN i + 2 ELSE 0
    [] OTHER -> IF p[i] = c THEN i + 1 ELSE 0

(* globMatch and matchStar from position i of the pattern and j of the key; *)
(* skip is the flag that all the calls share.                               *)
GlobMatch(p, s) ==
  LET n == Len(p)
      m == Len(s)
      from[i \in 1..(n + 1), j \in 1..(m + 1), skip \in BOOLEAN] ==
        IF i > n \/ j > m THEN [yes |-> i > n /\ j > m, skip |-> skip]
        ELSE IF p[i] = STAR THEN
          LET star == LastStar(p, i)
              try[k \in j..(m + 1), sk \in BOOLEAN] ==
                IF k > m THEN [yes |-> FALSE, skip |-> TRUE]
                ELSE LET r == from[star + 1, k, sk]
                     IN  IF r.yes \/ r.skip THEN r ELSE try[k + 1, r.skip]
          IN  IF star = n THEN [yes |-> TRUE, skip |-> skip] ELSE try[j, skip]
        ELSE
          LET i2 == Consume(p, i, s[j])
          IN  IF i2 = 0 THEN [yes |-> FALSE, skip |-> skip]
              ELSE IF j = m THEN [yes |-> OnlyStars(p, i2), skip |-> skip]
              ELSE from[i2, j + 1, skip]
  IN  from[1, 1, FALSE]

MatchGlob(p, s) == GlobMatch(p, s).yes

MatchesEveryKey(p) == p = <<STAR>>

-----------------------------------------------------------------------------
(* The reference: a star matches any run of bytes, everything else one      *)
(* byte, and the pattern and the key run out together.  Nothing is pruned.  *)
Means(p, s) ==
  LET n == Len(p)
      m == Len(s)
      from[i \in 1..(n + 1), j \in 1..(m + 1)] ==
        IF i > n THEN j > m
        ELSE IF p[i] = STAR THEN from[i + 1, j] \/ (j <= m /\ from[i, j + 1])
        ELSE j <= m /\ Consume(p, i, s[j]) # 0 /\ from[Consume(p, i, s[j]), j + 1]
  IN  IF s = <<>> THEN p = <<>> ELSE from[1, 1]

=============================================================================
