------------------------------- MODULE Wheel -------------------------------
(***************************************************************************)
(* The four-level timing wheel: internal/ttl/wheel.go.  Every operation    *)
(* runs under the wheel's mutex and is one step.  A level is a ring of     *)
(* slots; a slot of level lv covers Width[lv] ticks, and a whole level     *)
(* covers one slot of the level above.                                     *)
(*                                                                         *)
(* A hint is known by its identity; where it is says which slot holds it.  *)
(***************************************************************************)
EXTENDS Naturals, FiniteSets

CONSTANTS
  Hints,    \* identities of hints
  Slots,    \* number of slots of each level
  Width,    \* slot width of each level, in ticks; Width[4] is l3Span
  Horizon   \* last tick of the model

Levels == 0..3

ASSUME HintsFinite == IsFiniteSet(Hints)
ASSUME HorizonType == Horizon \in Nat
ASSUME Geometry ==
  /\ Slots \in [Levels -> Nat \ {0}]
  /\ Width \in [0..4 -> Nat]
  /\ Width[0] = 1
  /\ \A lv \in Levels : Width[lv + 1] = Width[lv] * Slots[lv]

VARIABLES
  current,  \* wheel.current
  at,       \* at[h]: the level and slot that hold h, and its expireTick
  pending   \* wheel.pending

vars == <<current, at, pending>>

-----------------------------------------------------------------------------
(* Places: four levels, the overflow list, lost, and not in the wheel.     *)

Overflow == 4
Lost == 5
Out == 6
Absent == [level |-> Out, slot |-> 0, tick |-> 0]
Place == [level: 0..Lost, slot: Nat, tick: Nat]

Later(t, earliest) == IF t < earliest THEN earliest ELSE t

SlotOf(lv, t) == (t \div Width[lv]) % Slots[lv]

(* The lowest level whose span covers the remaining time.                  *)
LevelOf(delta) ==
  CHOOSE lv \in 0..Overflow : /\ lv > 0 => Width[lv] <= delta
                              /\ lv < Overflow => delta < Width[lv + 1]

(* insert, for a deadline already pulled forward to the earliest tick.     *)
Insert(t, now) ==
  LET lv == LevelOf(t - now) IN
  [level |-> lv, slot |-> IF lv = Overflow THEN 0 ELSE SlotOf(lv, t), tick |-> t]

-----------------------------------------------------------------------------
(* Additions *)

Add(h) ==
  /\ at[h] = Absent
  /\ \E t \in 0..Horizon :
       LET due == Later(t, current + 1) IN
       /\ due <= Horizon
       /\ at' = [at EXCEPT ![h] = Insert(due, current)]
  /\ pending' = pending + 1
  /\ UNCHANGED current

(* Mutated: "does not count as a new addition" is taken at its word.       *)
Requeue_NotCounted(h) ==
  /\ at[h] = Absent
  /\ current < Horizon
  /\ at' = [at EXCEPT ![h] = Insert(current + 1, current)]
  /\ UNCHANGED <<current, pending>>

(* What the per-tick limit defers goes to the very next tick.              *)
Requeue(h) ==
  /\ at[h] = Absent
  /\ current < Horizon
  /\ at' = [at EXCEPT ![h] = Insert(current + 1, current)]
  /\ pending' = pending + 1
  /\ UNCHANGED current

-----------------------------------------------------------------------------
(* The tick *)

In(a, h, lv, now) == a[h].level = lv /\ a[h].slot = SlotOf(lv, now)

(* Mutated: the earliest slot of a cascade is the next tick's.             *)
Moved_NextTick(a, h, now) == Insert(Later(a[h].tick, now + 1), now)

Moved(a, h, now) == Insert(Later(a[h].tick, now), now)

(* cascade: the due slot is redistributed and then truncated, which would  *)
(* drop what the redistribution had put back into it.                      *)
Cascade(a, lv, now) ==
  [h \in Hints |->
     IF ~In(a, h, lv, now) THEN a[h]
     ELSE IF Moved(a, h, now).level = lv /\ Moved(a, h, now).slot = SlotOf(lv, now)
     THEN [a[h] EXCEPT !.level = Lost]
     ELSE Moved(a, h, now)]

DrainOverflow(a, now) ==
  [h \in Hints |-> IF a[h].level = Overflow THEN Moved(a, h, now) ELSE a[h]]

Wraps(lv, now) == SlotOf(lv, now) = 0

(* cascadeChain: one level more as long as the level just drained wrapped. *)
CascadeChain(now) ==
  LET once   == Cascade(at, 1, now)
      twice  == Cascade(once, 2, now)
      thrice == Cascade(twice, 3, now)
  IN  CASE ~Wraps(0, now) -> at
        []  Wraps(0, now) /\ ~Wraps(1, now) -> once
        []  Wraps(0, now) /\ Wraps(1, now) /\ ~Wraps(2, now) -> twice
        []  Wraps(0, now) /\ Wraps(1, now) /\ Wraps(2, now) /\ ~Wraps(3, now) -> thrice
        []  OTHER -> DrainOverflow(thrice, now)

(* Mutated: the slot is read before the higher levels cascade into it.     *)
Due_BeforeCascade(now) == {h \in Hints : In(at, h, 0, now)}

Due(now) == {h \in Hints : In(CascadeChain(now), h, 0, now)}

Advance ==
  LET now == current + 1 IN
  /\ current < Horizon
  /\ current' = now
  /\ at' = [h \in Hints |-> IF h \in Due(now) THEN Absent ELSE CascadeChain(now)[h]]
  /\ pending' = pending - Cardinality(Due(now))

-----------------------------------------------------------------------------
Init ==
  /\ current = 0
  /\ at = [h \in Hints |-> Absent]
  /\ pending = 0

Next == Advance \/ \E h \in Hints : Add(h) \/ Requeue(h)

Spec == Init /\ [][Next]_vars

-----------------------------------------------------------------------------
(* Properties *)

TypeOK ==
  /\ current \in 0..Horizon
  /\ at \in [Hints -> Place \union {Absent}]
  /\ pending \in Nat

(* A hint sits where the tick loop will meet it in time: in the slot of    *)
(* its tick, on a level that reaches that slot next before the tick.       *)
InTime(r, now, earliest) ==
  /\ r.level # Lost
  /\ r.level = 0 => earliest <= r.tick /\ r.tick < now + Slots[0]
  /\ r.level \in Levels => r.slot = SlotOf(r.level, r.tick)
  /\ r.level \in 1..3 =>
       /\ now \div Width[r.level] < r.tick \div Width[r.level]
       /\ r.tick \div Width[r.level] <= (now \div Width[r.level]) + Slots[r.level]
  /\ r.level = Overflow => now \div Width[Overflow] < r.tick \div Width[Overflow]

(* So does every hint of the wheel, between any two ticks; the slot about  *)
(* to fire is empty.                                                       *)
WellPlaced == \A h \in Hints : InTime(at[h], current, current + 1)

(* Stats counts what the wheel holds, through cascades and re-queues.      *)
PendingExact == pending = Cardinality({h \in Hints : at[h].level \in 0..Overflow})

(* The wheel implements the store of hints: each fires at exactly its own  *)
(* tick, whatever cascades it goes through.                                *)
Store == INSTANCE HintStore WITH
  clock <- current,
  due <- [h \in Hints |-> IF at[h].level = Out THEN 0 ELSE at[h].tick]
ImplementsHintStore == Store!Spec

=============================================================================
