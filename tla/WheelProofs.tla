---------------------------- MODULE WheelProofs ----------------------------
EXTENDS Wheel, FiniteSetTheorems, TLAPS

LEMMA Division ==
  ASSUME NEW n \in Nat, NEW w \in Nat \ {0}
  PROVE  /\ n \div w \in Nat /\ n % w \in Nat /\ n % w < w
         /\ n = (w * (n \div w)) + (n % w)
  OBVIOUS

LEMMA DivMono ==
  ASSUME NEW a \in Nat, NEW b \in Nat, NEW w \in Nat \ {0}, a <= b
  PROVE  a \div w <= b \div w
  OBVIOUS

LEMMA DivFar ==
  ASSUME NEW a \in Nat, NEW b \in Nat, NEW w \in Nat \ {0}, a + w <= b
  PROVE  a \div w < b \div w
  OBVIOUS

LEMMA DivNear ==
  ASSUME NEW a \in Nat, NEW b \in Nat, NEW w \in Nat \ {0}, NEW n \in Nat \ {0}, b < a + w * n
  PROVE  b \div w <= (a \div w) + n
  OBVIOUS

LEMMA ModUnique ==
  ASSUME NEW a \in Nat, NEW b \in Nat, NEW n \in Nat \ {0}, a <= b, b < a + n, a % n = b % n
  PROVE  a = b
<1> DEFINE q == a \div n
<1> DEFINE r == b \div n
<1>1. /\ q \in Nat /\ r \in Nat /\ a % n \in Nat
      /\ a = (n * q) + (a % n) /\ b = (n * r) + (a % n)
  BY Division
<1>2. q <= r
  BY DivMono
<1> DEFINE m == a % n
<1>3. n * r < (n * q) + n
  <2> HIDE DEF q, r, m
  <2>1. m \in Nat /\ a = (n * q) + m /\ b = (n * r) + m
    BY <1>1 DEF m
  <2>2. n * q \in Nat /\ n * r \in Nat
    BY <1>1
  <2> QED
    BY <2>1, <2>2
<1> HIDE DEF q, r
<1>4. CASE r >= q + 1
  <2>1. n * r >= n * (q + 1)
    BY <1>1, <1>4
  <2>2. n * (q + 1) = (n * q) + n
    BY <1>1
  <2> QED
    BY <1>1, <1>3, <2>1, <2>2
<1>5. CASE r = q
  BY <1>1, <1>5
<1> QED
  BY <1>1, <1>2, <1>4, <1>5

LEMMA DivNext ==
  ASSUME NEW a \in Nat, NEW w \in Nat \ {0}
  PROVE  IF (a + 1) % w = 0 THEN (a + 1) \div w = (a \div w) + 1 ELSE (a + 1) \div w = a \div w
  OBVIOUS

(* At the start of a slot, every tick of that slot or of a later one is    *)
(* still to come.                                                          *)
LEMMA SlotStart ==
  ASSUME NEW n \in Nat, NEW t \in Nat, NEW w \in Nat \ {0},
         n % w = 0, n \div w <= t \div w
  PROVE  n <= t /\ (n \div w = t \div w => t < n + w)
<1> DEFINE q == n \div w
<1> DEFINE p == t \div w
<1> DEFINE r == t % w
<1>1. /\ q \in Nat /\ p \in Nat /\ r \in Nat /\ r < w /\ q <= p
      /\ n = (w * q) + (n % w) /\ t = (w * p) + r
  BY Division
<1> HIDE DEF q, p, r
<1>2. n = w * q
  BY <1>1
<1>3. w * q <= w * p
  BY <1>1
<1>4. w * p \in Nat
  BY <1>1
<1>5. n <= t
  BY <1>1, <1>2, <1>3, <1>4
<1>6. q = p => t < n + w
  BY <1>1, <1>2, <1>4
<1> QED
  BY <1>5, <1>6 DEF q, p

LEMMA Exact ==
  ASSUME NEW w \in Nat \ {0}, NEW q \in Nat, NEW p \in Nat, NEW r \in Nat,
         r < w, (w * q) + r = w * p
  PROVE  r = 0 /\ q = p
<1>1. w * q \in Nat /\ w * p \in Nat
  OBVIOUS
<1>2. CASE p < q
  <2>1. w * (p + 1) <= w * q
    BY <1>2
  <2>2. w * (p + 1) = (w * p) + w
    OBVIOUS
  <2> QED
    BY <1>1, <2>1, <2>2
<1>3. CASE q < p
  <2>1. w * (q + 1) <= w * p
    BY <1>3
  <2>2. w * (q + 1) = (w * q) + w
    OBVIOUS
  <2> QED
    BY <1>1, <2>1, <2>2
<1>4. CASE q = p
  BY <1>1, <1>4
<1> QED
  BY <1>2, <1>3, <1>4

LEMMA ModOfProduct ==
  ASSUME NEW a \in Nat, NEW w \in Nat \ {0}, NEW n \in Nat \ {0}
  PROVE  (a % (w * n) = 0) <=> (a % w = 0 /\ (a \div w) % n = 0)
<1> DEFINE q == a \div w
<1> DEFINE m == q \div n
<1>1. /\ q \in Nat /\ a % w \in Nat /\ a % w < w /\ a = (w * q) + (a % w)
  BY Division
<1>2. /\ m \in Nat /\ q % n \in Nat /\ q % n < n /\ q = (n * m) + (q % n)
  BY <1>1, Division
<1>3. w * n \in Nat \ {0}
  OBVIOUS
<1>4. /\ a \div (w * n) \in Nat /\ a % (w * n) \in Nat /\ a % (w * n) < w * n
      /\ a = ((w * n) * (a \div (w * n))) + (a % (w * n))
  BY <1>3, Division
<1> DEFINE z == a \div (w * n)
<1>5. CASE a % w = 0 /\ q % n = 0
  <2>1. a = w * (n * m)
    BY <1>1, <1>2, <1>5
  <2>2. a = (w * n) * m
    BY <2>1, <1>2
  <2> QED
    BY <1>2, <1>3, <2>2, <1>5
<1>6. CASE a % (w * n) = 0
  <2>1. a = w * (n * z)
    BY <1>4, <1>6
  <2>2. a % w = 0 /\ q = n * z
    <3>1. n * z \in Nat /\ (w * q) + (a % w) = w * (n * z)
      BY <1>1, <1>4, <2>1
    <3> QED
      BY <1>1, <3>1, Exact
  <2> QED
    BY <1>2, <1>4, <2>2
<1> QED
  BY <1>5, <1>6

-----------------------------------------------------------------------------
(* The geometry *)

LEMMA Geometries ==
  /\ \A lv \in 0..4 : Width[lv] \in Nat \ {0}
  /\ \A lv \in Levels : Slots[lv] \in Nat \ {0} /\ Width[lv + 1] = Width[lv] * Slots[lv]
  /\ Width[1] = Slots[0]
<1>1. /\ \A lv \in Levels : Slots[lv] \in Nat \ {0} /\ Width[lv + 1] = Width[lv] * Slots[lv]
      /\ Width[0] = 1
      /\ \A lv \in 0..4 : Width[lv] \in Nat
  BY Geometry
<1>2. \A x, y \in Nat \ {0} : x * y \in Nat \ {0}
  OBVIOUS
<1>3. Width[0 + 1] = 1 * Slots[0]
  BY <1>1 DEF Levels
<1>4. Width[1] = Slots[0] /\ Width[1] \in Nat \ {0}
  BY <1>1, <1>3 DEF Levels
<1>5. Width[1 + 1] = Width[1] * Slots[1] /\ Width[2 + 1] = Width[2] * Slots[2]
      /\ Width[3 + 1] = Width[3] * Slots[3]
  BY <1>1 DEF Levels
<1>6. Slots[1] \in Nat \ {0} /\ Slots[2] \in Nat \ {0} /\ Slots[3] \in Nat \ {0}
  BY <1>1 DEF Levels
<1>7. Width[2] \in Nat \ {0}
  BY <1>2, <1>4, <1>5, <1>6
<1>8. Width[3] \in Nat \ {0}
  BY <1>2, <1>7, <1>5, <1>6
<1>9. Width[4] \in Nat \ {0}
  BY <1>2, <1>8, <1>5, <1>6
<1>10. \A lv \in 0..4 : lv = 0 \/ lv = 1 \/ lv = 2 \/ lv = 3 \/ lv = 4
  OBVIOUS
<1> QED
  BY <1>1, <1>4, <1>7, <1>8, <1>9, <1>10

LEMMA LevelOfOK ==
  ASSUME NEW d \in Nat
  PROVE  /\ LevelOf(d) \in 0..4
         /\ LevelOf(d) > 0 => Width[LevelOf(d)] <= d
         /\ LevelOf(d) < 4 => d < Width[LevelOf(d) + 1]
<1> DEFINE Fits(lv) == /\ lv > 0 => Width[lv] <= d
                       /\ lv < Overflow => d < Width[lv + 1]
<1>1. /\ Width[1] \in Nat /\ Width[2] \in Nat /\ Width[3] \in Nat /\ Width[4] \in Nat
  BY Geometries
<1>2. Fits(0) \/ Fits(1) \/ Fits(2) \/ Fits(3) \/ Fits(4)
  BY <1>1 DEF Overflow
<1>3. \E lv \in 0..Overflow : Fits(lv)
  BY <1>2 DEF Overflow
<1> HIDE DEF Fits
<1>4. LevelOf(d) = CHOOSE lv \in 0..Overflow : Fits(lv)
  BY DEF LevelOf, Fits
<1>5. LevelOf(d) \in 0..Overflow /\ Fits(LevelOf(d))
  BY <1>3, <1>4
<1> QED
  BY <1>5 DEF Fits, Overflow

(* A tick lies in a later slot of level lv exactly when it is that far.    *)
LEMMA SlotType ==
  ASSUME NEW lv \in Levels, NEW t \in Nat
  PROVE  t \div Width[lv] \in Nat /\ SlotOf(lv, t) \in Nat /\ SlotOf(lv, t) < Slots[lv]
<1>1. lv \in 0..4 /\ Width[lv] \in Nat \ {0} /\ Slots[lv] \in Nat \ {0}
  BY Geometries DEF Levels
<1>2. t \div Width[lv] \in Nat
  BY <1>1, Division
<1> QED
  BY <1>1, <1>2, Division DEF SlotOf

(* insert puts a hint where the tick loop meets it in time.                *)
LEMMA InsertInTime ==
  ASSUME NEW t \in Nat, NEW now \in Nat, NEW earliest \in Nat,
         now <= t, earliest <= t
  PROVE  /\ Insert(t, now) \in [level: 0..4, slot: Nat, tick: Nat]
         /\ Insert(t, now).tick = t
         /\ InTime(Insert(t, now), now, earliest)
         /\ \A lv \in 1..4 : t < now + Width[lv] => Insert(t, now).level < lv
<1> DEFINE d == t - now
<1> DEFINE l == LevelOf(d)
<1>1. d \in Nat
  OBVIOUS
<1>2. /\ l \in 0..4
      /\ l > 0 => Width[l] <= d
      /\ l < 4 => d < Width[l + 1]
  BY <1>1, LevelOfOK
<1>3. Insert(t, now) = [level |-> l, slot |-> IF l = 4 THEN 0 ELSE SlotOf(l, t), tick |-> t]
  BY DEF Insert, Overflow
<1>4. l \in Levels => SlotOf(l, t) \in Nat
  BY SlotType
<1> HIDE DEF d, l
<1>5. Insert(t, now) \in [level: 0..4, slot: Nat, tick: Nat] /\ Insert(t, now).tick = t
      /\ Insert(t, now).level = l /\ (l # 4 => Insert(t, now).slot = SlotOf(l, t))
  BY <1>2, <1>3, <1>4 DEF Levels
<1>6. ASSUME l = 0 PROVE InTime(Insert(t, now), now, earliest)
  <2>1. t < now + Slots[0]
    BY <1>1, <1>2, <1>6, Geometries DEF d
  <2> QED
    BY <1>5, <1>6, <2>1 DEF InTime, Lost, Overflow, Levels
<1>7. ASSUME l \in 1..3 PROVE InTime(Insert(t, now), now, earliest)
  <2>1. /\ Width[l] \in Nat \ {0} /\ Slots[l] \in Nat \ {0}
        /\ Width[l + 1] = Width[l] * Slots[l]
    BY <1>7, Geometries DEF Levels
  <2>2. now + Width[l] <= t
    BY <1>2, <1>7, <2>1 DEF d
  <2>3. now \div Width[l] < t \div Width[l]
    BY <2>1, <2>2, DivFar
  <2>4. Width[l] * Slots[l] \in Nat
    BY <2>1
  <2>5. t < now + (Width[l] * Slots[l])
    BY <1>2, <1>7, <2>1, <2>4 DEF d
  <2>6. t \div Width[l] <= (now \div Width[l]) + Slots[l]
    BY <2>1, <2>5, DivNear
  <2> QED
    BY <1>5, <1>7, <2>3, <2>6 DEF InTime, Lost, Overflow, Levels
<1>8. ASSUME l = 4 PROVE InTime(Insert(t, now), now, earliest)
  <2>1. Width[4] \in Nat \ {0} /\ now + Width[4] <= t
    BY <1>2, <1>8, Geometries DEF d
  <2>2. now \div Width[4] < t \div Width[4]
    BY <2>1, DivFar
  <2> QED
    BY <1>5, <1>8, <2>2 DEF InTime, Lost, Overflow, Levels
<1>9. ASSUME NEW lv \in 1..4, t < now + Width[lv], l >= lv
      PROVE  FALSE
  <2>1. Width[1] \in Nat \ {0} /\ Width[2] \in Nat \ {0} /\ Width[3] \in Nat \ {0}
        /\ Width[4] \in Nat \ {0}
    BY Geometries
  <2>2. Width[1] <= Width[2] /\ Width[2] <= Width[3] /\ Width[3] <= Width[4]
    <3>1. \A x, y \in Nat \ {0} : x <= x * y
      OBVIOUS
    <3>2. /\ Width[1 + 1] = Width[1] * Slots[1] /\ Width[2 + 1] = Width[2] * Slots[2]
          /\ Width[3 + 1] = Width[3] * Slots[3]
          /\ Slots[1] \in Nat \ {0} /\ Slots[2] \in Nat \ {0} /\ Slots[3] \in Nat \ {0}
      BY Geometries DEF Levels
    <3> QED
      BY <2>1, <3>1, <3>2
  <2>3. Width[l] <= t - now
    BY <1>2, <1>9 DEF d
  <2>4. Width[lv] <= Width[l]
    BY <1>2, <1>9, <2>1, <2>2
  <2> QED
    BY <1>2, <1>9, <2>1, <2>3, <2>4
<1>10. l = 0 \/ l \in 1..3 \/ l = 4
  BY <1>2
<1>11. \A lv \in 1..4 : t < now + Width[lv] => l < lv
  BY <1>2, <1>9
<1>12. InTime(Insert(t, now), now, earliest)
  BY <1>6, <1>7, <1>8, <1>10
<1> QED
  BY <1>5, <1>11, <1>12

-----------------------------------------------------------------------------
(* The cascade *)

(* Level lv cascades when the clock reaches a multiple of its slot width.  *)
LEMMA Wrapping ==
  ASSUME NEW now \in Nat
  PROVE  /\ (now % Width[1] = 0) <=> Wraps(0, now)
         /\ \A lv \in 1..3 : (now % Width[lv + 1] = 0) <=> (now % Width[lv] = 0 /\ Wraps(lv, now))
<1>1. now \div 1 = now
  OBVIOUS
<1>2. (now % Width[1] = 0) <=> Wraps(0, now)
  BY <1>1, Geometries, Geometry DEF Wraps, SlotOf
<1>3. ASSUME NEW lv \in 1..3
      PROVE  (now % Width[lv + 1] = 0) <=> (now % Width[lv] = 0 /\ Wraps(lv, now))
  <2>1. /\ Width[lv] \in Nat \ {0} /\ Slots[lv] \in Nat \ {0}
        /\ Width[lv + 1] = Width[lv] * Slots[lv]
    BY Geometries DEF Levels
  <2> QED
    BY <2>1, ModOfProduct DEF Wraps, SlotOf
<1> QED
  BY <1>2, <1>3

(* A cascade of level k concerns only the hints of its due slot.           *)
LEMMA CascadeOther ==
  ASSUME NEW a, NEW h \in Hints, NEW k, NEW now, ~In(a, h, k, now)
  PROVE  Cascade(a, k, now)[h] = a[h]
  BY DEF Cascade

LEMMA CascadeDue ==
  ASSUME NEW a, NEW h \in Hints, NEW k, NEW now, In(a, h, k, now), Moved(a, h, now).level # k
  PROVE  Cascade(a, k, now)[h] = Moved(a, h, now)
  BY DEF Cascade

(* Whether the chain of this tick takes h out of its slot.                 *)
Moves(h, now) ==
  \/ /\ at[h].level \in 1..3
     /\ now % Width[at[h].level] = 0
     /\ at[h].slot = SlotOf(at[h].level, now)
  \/ at[h].level = 4 /\ now % Width[4] = 0

(* One after another, the cascades move each hint at most once.            *)
LEMMA ChainMovesOnce ==
  ASSUME NEW h \in Hints, NEW now \in Nat,
         at[h].level \in 0..6,
         Moved(at, h, now).level \in 0..4,
         Moves(h, now) /\ at[h].level # 4 => Moved(at, h, now).level < at[h].level
  PROVE  CascadeChain(now)[h] = IF Moves(h, now) THEN Moved(at, h, now) ELSE at[h]
<1> DEFINE once == Cascade(at, 1, now)
<1> DEFINE twice == Cascade(once, 2, now)
<1> DEFINE thrice == Cascade(twice, 3, now)
<1> DEFINE m == Moved(at, h, now)
<1>1. CascadeChain(now)[h] =
        IF now % Width[1] # 0 THEN at[h]
        ELSE IF now % Width[2] # 0 THEN once[h]
        ELSE IF now % Width[3] # 0 THEN twice[h]
        ELSE IF now % Width[4] # 0 THEN thrice[h]
        ELSE DrainOverflow(thrice, now)[h]
  <2>1. /\ (now % Width[1] = 0) <=> Wraps(0, now)
        /\ (now % Width[2] = 0) <=> (now % Width[1] = 0 /\ Wraps(1, now))
        /\ (now % Width[3] = 0) <=> (now % Width[2] = 0 /\ Wraps(2, now))
        /\ (now % Width[4] = 0) <=> (now % Width[3] = 0 /\ Wraps(3, now))
    <3>1. 1 \in 1..3 /\ 2 \in 1..3 /\ 3 \in 1..3 /\ 1 + 1 = 2 /\ 2 + 1 = 3 /\ 3 + 1 = 4
      OBVIOUS
    <3> QED
      BY <3>1, Wrapping
  <2> HIDE DEF once, twice, thrice
  <2>2. CascadeChain(now) =
          CASE ~Wraps(0, now) -> at
          []  Wraps(0, now) /\ ~Wraps(1, now) -> once
          []  Wraps(0, now) /\ Wraps(1, now) /\ ~Wraps(2, now) -> twice
          []  Wraps(0, now) /\ Wraps(1, now) /\ Wraps(2, now) /\ ~Wraps(3, now) -> thrice
          []  OTHER -> DrainOverflow(thrice, now)
    BY DEF CascadeChain, once, twice, thrice
  <2> QED
    BY <2>1, <2>2
<1>nested. /\ now % Width[2] = 0 => now % Width[1] = 0
           /\ now % Width[3] = 0 => now % Width[2] = 0
           /\ now % Width[4] = 0 => now % Width[3] = 0
  <2>1. \A lv \in 1..3 : now % Width[lv + 1] = 0 => now % Width[lv] = 0
    BY Wrapping
  <2>2. 1 \in 1..3 /\ 2 \in 1..3 /\ 3 \in 1..3 /\ 1 + 1 = 2 /\ 2 + 1 = 3 /\ 3 + 1 = 4
    OBVIOUS
  <2> QED
    BY <2>1, <2>2
<1>2. ASSUME NEW a, a[h] = at[h]
      PROVE  /\ Moved(a, h, now) = m
             /\ \A k : In(a, h, k, now) <=> In(at, h, k, now)
             /\ DrainOverflow(a, now)[h] = IF at[h].level = 4 THEN m ELSE at[h]
  BY <1>2 DEF Moved, In, DrainOverflow, Overflow
<1>3. ASSUME NEW a, a[h] = m, m.level # 4
      PROVE  /\ \A k : k > m.level => ~In(a, h, k, now)
             /\ DrainOverflow(a, now)[h] = m
  BY <1>3 DEF In, DrainOverflow, Overflow
<1> HIDE DEF m
<1>4. CASE at[h].level = 1
  <2>1. once[h] = IF Moves(h, now) /\ now % Width[1] = 0 THEN m ELSE
                  IF In(at, h, 1, now) THEN once[h] ELSE at[h]
    BY <1>4, CascadeOther, CascadeDue DEF Moves, In, m
  <2> HIDE DEF once
  <2>2. ASSUME now % Width[1] = 0
        PROVE  once[h] = IF Moves(h, now) THEN m ELSE at[h]
    BY <1>4, <2>1, <2>2 DEF Moves, In
  <2>3. ASSUME now % Width[1] = 0, Moves(h, now)
        PROVE  twice[h] = m /\ thrice[h] = m /\ DrainOverflow(thrice, now)[h] = m
    <3>1. m.level = 0
      BY <1>4, <2>3 DEF m
    <3>2. twice[h] = m
      BY <1>3, <2>2, <2>3, <3>1, CascadeOther
    <3> HIDE DEF twice
    <3>3. thrice[h] = m
      BY <1>3, <3>1, <3>2, CascadeOther
    <3> QED
      BY <1>3, <3>1, <3>2, <3>3
  <2>4. ASSUME now % Width[1] = 0, ~Moves(h, now)
        PROVE  twice[h] = at[h] /\ thrice[h] = at[h] /\ DrainOverflow(thrice, now)[h] = at[h]
    <3>1. ~In(at, h, 2, now) /\ ~In(at, h, 3, now)
      BY <1>4 DEF In
    <3>0. once[h] = at[h]
      BY <2>2, <2>4
    <3>2. twice[h] = at[h]
      BY <1>2, <3>0, <3>1, CascadeOther
    <3> HIDE DEF twice
    <3>3. thrice[h] = at[h]
      BY <1>2, <3>1, <3>2, CascadeOther
    <3> QED
      BY <1>2, <1>4, <3>2, <3>3
  <2> HIDE DEF twice, thrice
  <2> QED
    BY <1>1, <1>4, <2>2, <2>3, <2>4 DEF Moves, m
<1>5. CASE at[h].level = 2
  <2>1. once[h] = at[h]
    BY <1>5, CascadeOther DEF In
  <2> HIDE DEF once
  <2>2. ASSUME now % Width[2] = 0, Moves(h, now)
        PROVE  twice[h] = m /\ thrice[h] = m /\ DrainOverflow(thrice, now)[h] = m
    <3>1. m.level < 2 /\ m.level \in 0..4
      BY <1>5, <2>2 DEF m
    <3>2. In(once, h, 2, now) /\ Moved(once, h, now) = m
      BY <1>2, <1>5, <2>1, <2>2 DEF In, Moves
    <3>3. twice[h] = m
      BY <3>1, <3>2, CascadeDue
    <3> HIDE DEF twice
    <3>4. thrice[h] = m
      BY <1>3, <3>1, <3>3, CascadeOther
    <3> QED
      BY <1>3, <3>1, <3>3, <3>4
  <2>3. ASSUME now % Width[2] = 0, ~Moves(h, now)
        PROVE  twice[h] = at[h] /\ thrice[h] = at[h] /\ DrainOverflow(thrice, now)[h] = at[h]
    <3>1. ~In(at, h, 2, now) /\ ~In(at, h, 3, now)
      BY <1>5, <2>3 DEF In, Moves
    <3>0. ~In(once, h, 2, now)
      BY <1>2, <2>1, <3>1
    <3>2. twice[h] = at[h]
      BY <2>1, <3>0, CascadeOther
    <3> HIDE DEF twice
    <3>3. thrice[h] = at[h]
      BY <1>2, <3>1, <3>2, CascadeOther
    <3> QED
      BY <1>2, <1>5, <3>2, <3>3
  <2> HIDE DEF twice, thrice
  <2> QED
    BY <1>1, <1>5, <1>nested, <2>1, <2>2, <2>3 DEF Moves, m
<1>6. CASE at[h].level = 3
  <2>1. once[h] = at[h]
    BY <1>6, CascadeOther DEF In
  <2> HIDE DEF once
  <2>2. twice[h] = at[h]
    BY <1>2, <1>6, <2>1, CascadeOther DEF In
  <2> HIDE DEF twice
  <2>3. ASSUME now % Width[3] = 0, Moves(h, now)
        PROVE  thrice[h] = m /\ DrainOverflow(thrice, now)[h] = m
    <3>1. m.level < 3 /\ m.level \in 0..4
      BY <1>6, <2>3 DEF m
    <3>2. In(twice, h, 3, now) /\ Moved(twice, h, now) = m
      BY <1>2, <1>6, <2>2, <2>3 DEF In, Moves
    <3>3. thrice[h] = m
      BY <3>1, <3>2, CascadeDue
    <3> QED
      BY <1>3, <3>1, <3>3
  <2>4. ASSUME now % Width[3] = 0, ~Moves(h, now)
        PROVE  thrice[h] = at[h] /\ DrainOverflow(thrice, now)[h] = at[h]
    <3>1. ~In(at, h, 3, now)
      BY <1>6, <2>4 DEF In, Moves
    <3>2. thrice[h] = at[h]
      BY <1>2, <2>2, <3>1, CascadeOther
    <3> QED
      BY <1>2, <1>6, <3>2
  <2> HIDE DEF thrice
  <2> QED
    BY <1>1, <1>6, <1>nested, <2>1, <2>2, <2>3, <2>4 DEF Moves, m
<1>7. CASE at[h].level \notin 1..3
  <2>1. once[h] = at[h]
    BY <1>7, CascadeOther DEF In
  <2> HIDE DEF once
  <2>2. twice[h] = at[h]
    BY <1>2, <1>7, <2>1, CascadeOther DEF In
  <2> HIDE DEF twice
  <2>3. thrice[h] = at[h]
    BY <1>2, <1>7, <2>2, CascadeOther DEF In
  <2> HIDE DEF thrice
  <2>4. DrainOverflow(thrice, now)[h] = IF at[h].level = 4 THEN m ELSE at[h]
    BY <1>2, <2>3
  <2> QED
    BY <1>1, <1>7, <1>nested, <2>1, <2>2, <2>3, <2>4 DEF Moves, m
<1> QED
  BY <1>4, <1>5, <1>6, <1>7

(* Advancing by one tick changes the slot of a level only at a multiple of *)
(* its width; the chain takes exactly the hints of that slot, in time.     *)
LEMMA ChainInTime ==
  ASSUME TypeOK, WellPlaced, NEW h \in Hints
  PROVE  LET now == current + 1
             r == CascadeChain(now)[h]
         IN  /\ r.tick = at[h].tick
             /\ r \in [level: 0..4, slot: Nat, tick: Nat] \union {Absent}
             /\ (r.level = Out) <=> (at[h].level = Out)
             /\ r.level = Out => r = Absent
             /\ InTime(r, now, now)
<1> DEFINE now == current + 1
<1> DEFINE r == at[h]
<1> DEFINE lv == at[h].level
<1> DEFINE t == at[h].tick
<1>1. current \in Nat /\ now \in Nat
  BY DEF TypeOK
<1>2. r \in [level: 0..4, slot: Nat, tick: Nat] \union {Absent}
  BY DEF TypeOK, WellPlaced, InTime, Place, Lost
<1>3. InTime(r, current, now)
  BY DEF WellPlaced
<1>4. t \in Nat /\ lv \in 0..6
  BY <1>2 DEF Absent, Out
<1>5. ASSUME NEW k \in 1..4
      PROVE  /\ Width[k] \in Nat \ {0}
             /\ now % Width[k] = 0 => now \div Width[k] = (current \div Width[k]) + 1
             /\ now % Width[k] # 0 => now \div Width[k] = current \div Width[k]
             /\ current \div Width[k] \in Nat /\ t \div Width[k] \in Nat
  <2>1. Width[k] \in Nat \ {0}
    BY Geometries
  <2>2. current \div Width[k] \in Nat /\ t \div Width[k] \in Nat
    BY <1>1, <1>4, <2>1, Division
  <2>3. IF now % Width[k] = 0 THEN now \div Width[k] = (current \div Width[k]) + 1
        ELSE now \div Width[k] = current \div Width[k]
    BY <1>1, <2>1, DivNext
  <2> QED
    BY <2>1, <2>2, <2>3
<1>6. ASSUME NEW k \in 1..4, now % Width[k] = 0, now \div Width[k] = t \div Width[k]
      PROVE  now <= t /\ t < now + Width[k]
  <2>1. t \div Width[k] \in Nat /\ now \div Width[k] <= t \div Width[k]
    BY <1>5, <1>6
  <2> QED
    BY <1>1, <1>4, <1>5, <1>6, <2>1, SlotStart
<1>7. ASSUME NEW k \in 1..4, current \div Width[k] < t \div Width[k], now % Width[k] = 0
      PROVE  now <= t
  <2>1. now \div Width[k] <= t \div Width[k]
    BY <1>5, <1>7
  <2> QED
    BY <1>1, <1>4, <1>5, <1>7, <2>1, SlotStart
<1> HIDE DEF now, r, lv, t
<1>8. ASSUME lv \in 1..3
      PROVE  /\ lv \in 1..4 /\ lv \in Levels
             /\ current \div Width[lv] < t \div Width[lv]
             /\ t \div Width[lv] <= (current \div Width[lv]) + Slots[lv]
             /\ r.slot = SlotOf(lv, t)
             /\ Slots[lv] \in Nat \ {0}
  BY <1>3, <1>8, Geometries DEF InTime, Levels, r, lv, t
<1>9. ASSUME lv \in 1..3, Moves(h, now)
      PROVE  now <= t /\ t < now + Width[lv]
  <2>1. now % Width[lv] = 0 /\ SlotOf(lv, t) = SlotOf(lv, now)
    BY <1>8, <1>9 DEF Moves, r, lv
  <2>2. now \div Width[lv] = (current \div Width[lv]) + 1
    BY <1>5, <1>8, <1>9, <2>1
  <2>3. now \div Width[lv] = t \div Width[lv]
    <3>1. now \div Width[lv] \in Nat /\ t \div Width[lv] \in Nat
      BY <1>5, <1>8, <1>9, <2>2
    <3>2. /\ now \div Width[lv] <= t \div Width[lv]
          /\ t \div Width[lv] < (now \div Width[lv]) + Slots[lv]
      BY <1>5, <1>8, <1>9, <2>2
    <3>3. (now \div Width[lv]) % Slots[lv] = (t \div Width[lv]) % Slots[lv]
      BY <2>1 DEF SlotOf
    <3> QED
      BY <1>8, <1>9, <3>1, <3>2, <3>3, ModUnique
  <2> QED
    BY <1>6, <1>8, <1>9, <2>1, <2>3
<1>10. ASSUME lv = 4, Moves(h, now)
       PROVE  now <= t
  <2>1. current \div Width[4] < t \div Width[4]
    BY <1>3, <1>10 DEF InTime, Overflow, r, lv, t
  <2>2. now % Width[4] = 0
    BY <1>10 DEF Moves, lv
  <2> QED
    BY <1>7, <2>1, <2>2
<1>11. Moves(h, now) => lv \in 1..3 \/ lv = 4
  BY DEF Moves, lv
<1>12. Moves(h, now) => now <= t
  BY <1>9, <1>10, <1>11
<1>13. Moved(at, h, now) = Insert(Later(t, now), now)
  BY DEF Moved, t
<1>14. Later(t, now) \in Nat /\ now <= Later(t, now) /\ (now <= t => Later(t, now) = t)
  BY <1>1, <1>4 DEF Later
<1>15. /\ Moved(at, h, now) \in [level: 0..4, slot: Nat, tick: Nat]
       /\ Moves(h, now) => /\ Moved(at, h, now).tick = t
                           /\ InTime(Moved(at, h, now), now, now)
       /\ Moves(h, now) /\ lv # 4 => Moved(at, h, now).level < lv
  <2>1. now \in Nat /\ Later(t, now) \in Nat /\ now <= Later(t, now)
    BY <1>1, <1>14
  <2>2. Moved(at, h, now) \in [level: 0..4, slot: Nat, tick: Nat]
    BY <1>13, <2>1, InsertInTime
  <2>3. ASSUME Moves(h, now)
        PROVE  /\ Moved(at, h, now).tick = t /\ InTime(Moved(at, h, now), now, now)
               /\ lv # 4 => Moved(at, h, now).level < lv
    <3>1. Later(t, now) = t
      BY <1>12, <1>14, <2>3
    <3>2. Moved(at, h, now).tick = t /\ InTime(Moved(at, h, now), now, now)
      BY <1>13, <2>1, <3>1, InsertInTime
    <3>3. ASSUME lv # 4 PROVE Moved(at, h, now).level < lv
      <4>1. lv \in 1..4 /\ t < now + Width[lv]
        BY <1>8, <1>9, <1>11, <2>3, <3>3
      <4> QED
        BY <1>13, <2>1, <3>1, <4>1, InsertInTime
    <3> QED
      BY <3>2, <3>3
  <2> QED
    BY <2>2, <2>3
<1>16. CascadeChain(now)[h] = IF Moves(h, now) THEN Moved(at, h, now) ELSE r
  BY <1>1, <1>4, <1>15, ChainMovesOnce DEF lv, r
<1>17. ASSUME ~Moves(h, now)
       PROVE  InTime(r, now, now)
  <2>1. CASE lv = 0
    BY <1>1, <1>3, <1>4, <2>1, Geometries DEF InTime, r, lv, now, t, Levels, Overflow
  <2>2. CASE lv \in 1..3
    <3>1. CASE now % Width[lv] = 0
      <4>1. SlotOf(lv, t) # SlotOf(lv, now)
        BY <1>8, <1>17, <2>2, <3>1 DEF Moves, r, lv
      <4>2. now \div Width[lv] # t \div Width[lv]
        BY <4>1 DEF SlotOf
      <4>3. /\ now \div Width[lv] < t \div Width[lv]
            /\ t \div Width[lv] <= (now \div Width[lv]) + Slots[lv]
        BY <1>5, <1>8, <2>2, <3>1, <4>2
      <4> QED
        BY <1>3, <2>2, <4>3 DEF InTime, r, lv, t, Levels, Overflow
    <3>2. CASE now % Width[lv] # 0
      BY <1>3, <1>5, <1>8, <2>2, <3>2 DEF InTime, r, lv, t, Levels, Overflow
    <3> QED
      BY <3>1, <3>2
  <2>3. CASE lv = 4
    <3>1. now % Width[4] # 0
      BY <1>17, <2>3 DEF Moves, lv
    <3> QED
      BY <1>3, <1>5, <2>3, <3>1 DEF InTime, r, lv, t, Levels, Overflow
  <2>4. CASE lv \notin 0..4
    BY <1>2, <2>4 DEF r, lv, InTime, Absent, Out, Levels, Overflow, Lost
  <2> QED
    BY <2>1, <2>2, <2>3, <2>4
<1>18. CASE Moves(h, now)
  <2>1. lv \in 0..4
    BY <1>11, <1>18
  <2> QED
    BY <1>15, <1>16, <1>18, <2>1 DEF Out, now, t, lv
<1>19. CASE ~Moves(h, now)
  <2>1. r.level = Out => r = Absent
    BY <1>2 DEF Absent, Out
  <2> QED
    BY <1>2, <1>16, <1>17, <1>19, <2>1 DEF now, t, r
<1> QED
  BY <1>18, <1>19

(* What fires is what falls due at this tick, whichever level held it.     *)
LEMMA DueExact ==
  ASSUME TypeOK, WellPlaced, NEW h \in Hints
  PROVE  h \in Due(current + 1) <=> at[h].level # Out /\ at[h].tick = current + 1
<1> DEFINE now == current + 1
<1> DEFINE r == CascadeChain(now)[h]
<1>1. now \in Nat
  BY DEF TypeOK
<1>2. /\ r.tick = at[h].tick
      /\ r \in [level: 0..4, slot: Nat, tick: Nat] \union {Absent}
      /\ (r.level = Out) <=> (at[h].level = Out)
      /\ InTime(r, now, now)
  BY ChainInTime
<1>3. h \in Due(now) <=> r.level = 0 /\ r.slot = SlotOf(0, now)
  BY DEF Due, In
<1> HIDE DEF now, r
<1>4. r.tick \in Nat
  BY <1>2 DEF Absent
<1>5. ASSUME r.level = 0, r.slot = SlotOf(0, now)
      PROVE  r.tick = now
  <2>1. now <= r.tick /\ r.tick < now + Slots[0] /\ SlotOf(0, r.tick) = SlotOf(0, now)
    BY <1>2, <1>5 DEF InTime, Levels
  <2>2. now \div 1 = now /\ r.tick \div 1 = r.tick
    BY <1>1, <1>4
  <2>3. now % Slots[0] = r.tick % Slots[0]
    BY <2>1, <2>2, Geometry DEF SlotOf
  <2>4. Slots[0] \in Nat \ {0}
    BY Geometries DEF Levels
  <2> QED
    BY <1>1, <1>4, <2>1, <2>3, <2>4, ModUnique
<1>6. ASSUME r.level # Out, r.tick = now
      PROVE  r.level = 0 /\ r.slot = SlotOf(0, now)
  <2>1. r.level \in 0..4
    BY <1>2, <1>6 DEF Absent, Out
  <2>2. r.level \notin 1..4
    <3>1. ASSUME r.level \in 1..4 PROVE now \div Width[r.level] < r.tick \div Width[r.level]
      BY <1>2, <3>1 DEF InTime, Overflow
    <3>2. ASSUME r.level \in 1..4 PROVE now \div Width[r.level] \in Nat
      BY <1>1, <3>2, Geometries, Division
    <3> QED
      BY <1>6, <3>1, <3>2
  <2>3. r.level = 0
    BY <2>1, <2>2
  <2> QED
    BY <1>2, <1>6, <2>3 DEF InTime, Levels
<1>7. h \in Due(now) <=> at[h].level # Out /\ at[h].tick = now
  BY <1>2, <1>3, <1>5, <1>6 DEF Out
<1> QED
  BY <1>7 DEF now

-----------------------------------------------------------------------------
(* The invariant *)

IInv == TypeOK /\ WellPlaced /\ PendingExact

Held == {h \in Hints : at[h].level \in 0..Overflow}

(* One hint more, by add or by requeue.                                    *)
LEMMA Addition ==
  ASSUME IInv, NEW h \in Hints, NEW t \in (current + 1)..Horizon, at[h] = Absent,
         at' = [at EXCEPT ![h] = Insert(t, current)],
         pending' = pending + 1, current' = current
  PROVE  IInv' /\ Store!Schedule(h)
<1> DEFINE r == Insert(t, current)
<1>1. TypeOK /\ WellPlaced /\ PendingExact /\ current \in Nat /\ t \in Nat
      /\ current <= t /\ current + 1 <= t
  BY HorizonType DEF IInv, TypeOK
<1>2. r \in [level: 0..4, slot: Nat, tick: Nat] /\ r.tick = t
      /\ InTime(r, current, current + 1)
  BY <1>1, InsertInTime
<1> HIDE DEF r
<1>3. at' = [at EXCEPT ![h] = r]
  BY DEF r
<1>4. TypeOK'
  BY <1>1, <1>2, <1>3 DEF TypeOK, Place, Lost
<1>5. WellPlaced'
  <2> SUFFICES ASSUME NEW g \in Hints PROVE InTime(at'[g], current, current + 1)
    BY DEF WellPlaced, InTime, SlotOf
  <2> QED
    BY <1>1, <1>2, <1>3 DEF WellPlaced, TypeOK
<1>6. PendingExact'
  <2>1. h \notin Held /\ Held' = Held \union {h}
    BY <1>1, <1>2, <1>3 DEF Held, Overflow, Absent, Out, TypeOK
  <2>2. IsFiniteSet(Held)
    BY HintsFinite, FS_Subset DEF Held
  <2>3. Cardinality(Held') = Cardinality(Held) + 1
    BY <2>1, <2>2, FS_AddElement
  <2> QED
    BY <1>1, <2>3 DEF PendingExact, Held
<1>7. Store!Schedule(h)
  <2>1. [g \in Hints |-> IF at'[g].level = Out THEN 0 ELSE at'[g].tick] =
          [[g \in Hints |-> IF at[g].level = Out THEN 0 ELSE at[g].tick] EXCEPT ![h] = t]
    <3> DEFINE due(a) == [g \in Hints |-> IF a[g].level = Out THEN 0 ELSE a[g].tick]
    <3>1. ASSUME NEW g \in Hints
          PROVE  due(at')[g] = IF g = h THEN t ELSE due(at)[g]
      <4>1. at'[g] = IF g = h THEN r ELSE at[g]
        BY <1>1, <1>3 DEF TypeOK
      <4>2. r.level # Out /\ r.tick = t
        BY <1>2 DEF Out
      <4> QED
        BY <4>1, <4>2
    <3>2. due(at') = [due(at) EXCEPT ![h] = t]
      BY <3>1
    <3> QED
      BY <3>2
  <2>2. at[h].level = Out
    BY DEF Absent
  <2> QED
    BY <2>1, <2>2 DEF Store!Schedule
<1> QED
  BY <1>4, <1>5, <1>6, <1>7 DEF IInv

LEMMA AddStep ==
  ASSUME IInv, NEW h \in Hints, Add(h)
  PROVE  IInv' /\ Store!Schedule(h)
<1>1. PICK u \in 0..Horizon : /\ Later(u, current + 1) <= Horizon
                              /\ at' = [at EXCEPT ![h] = Insert(Later(u, current + 1), current)]
  BY DEF Add
<1>2. Later(u, current + 1) \in (current + 1)..Horizon
  BY <1>1, HorizonType DEF IInv, TypeOK, Later
<1> QED
  BY <1>1, <1>2, Addition DEF Add

LEMMA RequeueStep ==
  ASSUME IInv, NEW h \in Hints, Requeue(h)
  PROVE  IInv' /\ Store!Schedule(h)
<1>1. current + 1 \in (current + 1)..Horizon
  BY HorizonType DEF IInv, TypeOK, Requeue
<1> QED
  BY <1>1, Addition DEF Requeue

LEMMA AdvanceStep ==
  ASSUME IInv, Advance
  PROVE  IInv' /\ Store!Tick
<1> DEFINE now == current + 1
<1> DEFINE D == Due(now)
<1> DEFINE c(h) == CascadeChain(now)[h]
<1>1. TypeOK /\ WellPlaced /\ PendingExact /\ current \in Nat /\ now \in 0..Horizon
  BY HorizonType DEF IInv, TypeOK, Advance
<1>2. /\ current' = now
      /\ at' = [h \in Hints |-> IF h \in D THEN Absent ELSE c(h)]
      /\ pending' = pending - Cardinality(D)
  BY DEF Advance
<1>3. ASSUME NEW h \in Hints
      PROVE  /\ c(h).tick = at[h].tick
             /\ c(h) \in [level: 0..4, slot: Nat, tick: Nat] \union {Absent}
             /\ (c(h).level = Out) <=> (at[h].level = Out)
             /\ c(h).level = Out => c(h) = Absent
             /\ InTime(c(h), now, now)
             /\ h \in D <=> at[h].level # Out /\ at[h].tick = now
  BY <1>1, ChainInTime, DueExact
<1>4. D \subseteq Hints
  BY DEF Due
<1> HIDE DEF D, c, now
<1>5. at' \in [Hints -> Place \union {Absent}]
  BY <1>2, <1>3 DEF Place, Lost
<1>6. D \subseteq Held /\ Held' = Held \ D
  <2>1. ASSUME NEW h \in Hints PROVE (at[h].level # Out) <=> (at[h].level \in 0..Overflow)
    BY <1>1 DEF TypeOK, WellPlaced, InTime, Place, Lost, Out, Overflow, Absent
  <2>2. ASSUME NEW h \in Hints PROVE (c(h).level # Out) <=> (c(h).level \in 0..Overflow)
    BY <1>3 DEF Out, Overflow, Absent
  <2>3. D \subseteq Held
    BY <1>3, <1>4, <2>1 DEF Held
  <2>4. ASSUME NEW h \in Hints PROVE h \in Held' <=> h \in Held \ D
    <3>1. at'[h] = IF h \in D THEN Absent ELSE c(h)
      BY <1>2
    <3>2. Absent.level \notin 0..Overflow
      BY DEF Absent, Out, Overflow
    <3> QED
      BY <1>3, <2>1, <2>2, <3>1, <3>2 DEF Held
  <2> QED
    BY <2>3, <2>4 DEF Held
<1>7. /\ pending' \in Nat
      /\ PendingExact'
  <2>1. IsFiniteSet(Held)
    BY HintsFinite, FS_Subset DEF Held
  <2>2. IsFiniteSet(D)
    BY <1>6, <2>1, FS_Subset
  <2>3. Held \intersect D = D
    BY <1>6
  <2>4. Cardinality(Held \ D) = Cardinality(Held) - Cardinality(D)
    BY <2>1, <2>3, FS_Difference
  <2>5. Cardinality(Held \ D) \in Nat
    BY <2>1, FS_CardinalityType, FS_Difference
  <2>6. pending = Cardinality(Held)
    BY <1>1 DEF PendingExact, Held
  <2>7. pending' = Cardinality(Held')
    BY <1>2, <1>6, <2>4, <2>6
  <2> QED
    BY <1>6, <2>5, <2>7 DEF PendingExact, Held
<1>8. WellPlaced'
  <2> SUFFICES ASSUME NEW h \in Hints PROVE InTime(at'[h], now, now + 1)
    BY <1>2 DEF WellPlaced, InTime, SlotOf
  <2>1. at'[h] = IF h \in D THEN Absent ELSE c(h)
    BY <1>2
  <2>2. CASE at'[h] = Absent
    BY <2>2 DEF InTime, Absent, Lost, Out, Overflow, Levels
  <2>3. CASE h \notin D
    <3>1. at'[h] = c(h) /\ (c(h).level = 0 => c(h).tick # now)
      BY <1>3, <2>1, <2>3 DEF Out
    <3>2. c(h).tick \in Nat /\ now \in Nat
      BY <1>1, <1>3, HorizonType DEF Absent
    <3> QED
      BY <1>3, <3>1, <3>2 DEF InTime
  <2> QED
    BY <2>1, <2>2, <2>3
<1>9. Store!Tick
  <2> DEFINE due(h) == IF at[h].level = Out THEN 0 ELSE at[h].tick
  <2>1. ASSUME NEW h \in Hints
        PROVE  (IF at'[h].level = Out THEN 0 ELSE at'[h].tick) =
                 (IF due(h) = now THEN 0 ELSE due(h))
    <3>1. at'[h] = IF h \in D THEN Absent ELSE c(h)
      BY <1>2
    <3>2. Absent.level = Out
      BY DEF Absent
    <3>3. now # 0
      BY <1>1 DEF now
    <3> QED
      BY <1>3, <3>1, <3>2, <3>3
  <2> QED
    BY <1>2, <2>1 DEF Store!Tick, now
<1> QED
  BY <1>1, <1>2, <1>5, <1>7, <1>8, <1>9 DEF IInv, TypeOK

LEMMA NextStep ==
  ASSUME IInv, [Next]_vars
  PROVE  /\ IInv'
         /\ [Store!Next]_<<current, [h \in Hints |-> IF at[h].level = Out THEN 0 ELSE at[h].tick]>>
<1>1. CASE Advance
  BY <1>1, AdvanceStep DEF Store!Next
<1>2. ASSUME NEW h \in Hints, Add(h) \/ Requeue(h)
      PROVE  IInv' /\ Store!Next
  BY <1>2, AddStep, RequeueStep DEF Store!Next
<1>3. CASE UNCHANGED vars
  BY <1>3 DEF vars, IInv, TypeOK, WellPlaced, InTime, SlotOf, PendingExact
<1> QED
  BY <1>1, <1>2, <1>3 DEF Next

LEMMA InitStep == Init => IInv /\ Store!Init
<1> SUFFICES ASSUME Init PROVE IInv /\ Store!Init
  OBVIOUS
<1>1. TypeOK /\ WellPlaced
  BY HorizonType DEF Init, TypeOK, WellPlaced, InTime, Absent, Out, Lost, Overflow, Levels
<1>2. {h \in Hints : at[h].level \in 0..Overflow} = {}
  BY DEF Init, Absent, Out, Overflow
<1>3. PendingExact
  BY <1>2, FS_EmptySet DEF Init, PendingExact
<1>4. Store!Init
  BY DEF Init, Store!Init, Absent
<1> QED
  BY <1>1, <1>3, <1>4 DEF IInv

(* Every variable of the wheel keeps its type (wheel.go, wheel).           *)
THEOREM WheelTypeCorrect == Spec => []TypeOK
<1>1. Spec => []IInv
  BY InitStep, NextStep, PTL DEF Spec
<1> QED
  BY <1>1, PTL DEF IInv

(* Every hint stays where the tick loop meets it in time, on a wheel of    *)
(* any geometry (wheel.go, insert and cascadeChain).                       *)
THEOREM Placement == Spec => []WellPlaced
<1>1. Spec => []IInv
  BY InitStep, NextStep, PTL DEF Spec
<1> QED
  BY <1>1, PTL DEF IInv

(* wheel.pending counts what the wheel holds.                              *)
THEOREM PendingCounts == Spec => []PendingExact
<1>1. Spec => []IInv
  BY InitStep, NextStep, PTL DEF Spec
<1> QED
  BY <1>1, PTL DEF IInv

(* The wheel is a store of hints: each fires at exactly its own tick.      *)
THEOREM WheelRefinement == Spec => ImplementsHintStore
  BY InitStep, NextStep, PTL DEF Spec, ImplementsHintStore, Store!Spec

=============================================================================
