----------------------------- MODULE HintStore -----------------------------
(***************************************************************************)
(* What the expiry scheduler promises: a hint accepted for a tick fires at *)
(* that very tick, neither earlier nor a rotation later, and none is lost. *)
(***************************************************************************)
EXTENDS Naturals

CONSTANTS Hints, Horizon

VARIABLES clock, due  \* due[h]: the tick h fires at, 0 when it is not scheduled

Init ==
  /\ clock = 0
  /\ due = [h \in Hints |-> 0]

Schedule(h) ==
  /\ due[h] = 0
  /\ \E t \in (clock + 1)..Horizon : due' = [due EXCEPT ![h] = t]
  /\ UNCHANGED clock

Tick ==
  /\ clock' = clock + 1
  /\ due' = [h \in Hints |-> IF due[h] = clock' THEN 0 ELSE due[h]]

Next == Tick \/ \E h \in Hints : Schedule(h)

Spec == Init /\ [][Next]_<<clock, due>>

=============================================================================
