-------------------------- MODULE ExpirationProofs ---------------------------
(* Active expiration for any number of keys, stripes, writers and hints:   *)
(* no key with an expiry is ever without a hint on its way, nothing is     *)
(* reclaimed before its time, and each stripe is used as a HintStore.      *)
EXTENDS Expiration, TLAPS

-----------------------------------------------------------------------------
(* The invariant                                                           *)

(* The hint in the loop's hands has fired, and its reading of the clock is *)
(* an old one.                                                             *)
HandsOK ==
  /\ loop.pc # "decide" => loop.hint = {}
  /\ \A h \in loop.hint : hint[h].place = "fired"
  /\ loop.now <= time

(* A stripe that the loop has still to advance is one tick behind it; no   *)
(* stripe advances before Start.                                           *)
StripesOK ==
  /\ state = "new" => loop.pc = "off"
  /\ loop.todo # {} => loop.pc = "advance" /\ loop.current > 0
  /\ \A s \in Stripes :
       clock[s] = IF s \in loop.todo THEN loop.current - 1 ELSE loop.current

(* What is scheduled falls within the time that is modelled.               *)
Scheduled ==
  /\ \A k \in Keys : expireAt[k] <= Horizon
  /\ \A w \in Writers : writer[w].at <= Horizon
  /\ loop.seen <= Horizon

IInv == TypeOK /\ HandsOK /\ StripesOK /\ Scheduled /\ HintCoverage

USE StripeOfType, StepType, LimitsType, KeysSome, HorizonFits

-----------------------------------------------------------------------------
(* Ticks                                                                   *)

LEMMA Division ==
  ASSUME NEW n \in Nat
  PROVE  /\ n \div Step \in Nat /\ n % Step \in 0 .. Step - 1
         /\ n = Step * (n \div Step) + (n % Step)
OBVIOUS

(* A tick whose deadline has come is no later than the last one.           *)
LEMMA TicksEnd ==
  ASSUME NEW n \in Nat, NEW t \in Nat, t <= Horizon, Deadline(n) <= t
  PROVE  n <= LastTick
<1> DEFINE q == Horizon \div Step
           m == Horizon % Step
<1>1. q \in Nat /\ m \in 0 .. Step - 1 /\ Horizon = Step * q + m
  BY Division
<1>2. n * Step <= Horizon
  BY DEF Deadline
<1> HIDE DEF q, m
<1>3. SUFFICES ASSUME n >= q + 1 PROVE FALSE
  BY <1>1 DEF LastTick, q
<1>4. n * Step >= (q + 1) * Step /\ (q + 1) * Step = Step * q + Step
  BY <1>1, <1>3
<1> QED
  BY <1>1, <1>2, <1>4

LEMMA TickType ==
  ASSUME NEW n \in Nat
  PROVE  TickFor(n) \in Nat /\ LastTick \in Nat
BY Division DEF TickFor, LastTick

LEMMA TicksFit ==
  ASSUME NEW n \in Nat, n <= Horizon
  PROVE  TickFor(n) <= LastTick + 1
<1> DEFINE q == Horizon \div Step
           m == Horizon % Step
           a == n \div Step
           b == n % Step
<1>1. /\ q \in Nat /\ m \in 0 .. Step - 1 /\ Horizon = Step * q + m
      /\ a \in Nat /\ b \in 0 .. Step - 1 /\ n = Step * a + b
  BY Division
<1> HIDE DEF q, m, a, b
<1>2. a <= q
  <2>1. SUFFICES ASSUME a >= q + 1 PROVE FALSE
    BY <1>1
  <2>2. Step * a >= Step * (q + 1) /\ Step * (q + 1) = Step * q + Step
    BY <1>1, <2>1
  <2> QED
    BY <1>1, <2>2
<1> QED
  BY <1>1, <1>2 DEF TickFor, LastTick, q, a

LEMMA LaterType ==
  ASSUME NEW m \in Nat, NEW n \in Nat
  PROVE  Later(m, n) \in Nat /\ Later(m, n) >= m /\ Later(m, n) >= n /\ Later(m, n) \in {m, n}
BY DEF Later

LEMMA AddedType ==
  ASSUME TypeOK, NEW k \in Keys, NEW t \in Nat
  PROVE  /\ Added(k, t) \in [key: Keys, tick: Nat, place: {"free", "wheel", "fired"}]
         /\ Added(k, t).key = k /\ Added(k, t).place = "wheel"
         /\ Added(k, t).tick = Later(t, clock[StripeOf[k]] + 1)
         /\ clock[StripeOf[k]] \in Nat /\ StripeOf[k] \in Stripes
<1>1. clock[StripeOf[k]] \in Nat /\ StripeOf[k] \in Stripes
  BY TickType DEF TypeOK
<1>2. Later(t, clock[StripeOf[k]] + 1) \in Nat
  BY <1>1, LaterType
<1> QED
  BY <1>1, <1>2 DEF Added

LEMMA FreeType ==
  /\ FreeHint \in [key: Keys, tick: Nat, place: {"free", "wheel", "fired"}]
  /\ FreeHint.place = "free"
  /\ Idle \in [pc: {"idle", "store", "reread", "schedule"}, key: Keys, at: Nat]
  /\ Idle.pc = "idle" /\ Idle.at = 0
BY DEF FreeHint, Idle

-----------------------------------------------------------------------------
(* The initial state                                                       *)

LEMMA InitOK ==
  ASSUME Init
  PROVE  IInv
<1>1. 0 \in 0 .. LastTick /\ 0 \in 0 .. Horizon
  BY TickType
<1>2. TypeOK
  BY <1>1, FreeType DEF Init, TypeOK
<1>3. HandsOK /\ StripesOK /\ HintCoverage
  BY DEF Init, HandsOK, StripesOK, HintCoverage
<1>4. Scheduled
  BY FreeType DEF Init, Scheduled
<1> QED
  BY <1>2, <1>3, <1>4 DEF IInv

-----------------------------------------------------------------------------
(* Types                                                                   *)

LEMMA TypeStep ==
  ASSUME IInv, [Next]_vars
  PROVE  TypeOK'
<1> USE DEF IInv
<1>1. ASSUME Pass \/ Start PROVE TypeOK'
  BY <1>1 DEF Pass, Start, TypeOK, keyspace
<1>2. ASSUME NEW w \in Writers, NewEntry(w) PROVE TypeOK'
  BY <1>2 DEF NewEntry, Begin, TypeOK, keyspace
<1>3. ASSUME NEW w \in Writers, SetTTL(w) PROVE TypeOK'
  BY <1>3 DEF SetTTL, Begin, TypeOK, keyspace
<1>4. ASSUME NEW w \in Writers, Put(w) PROVE TypeOK'
  <2>1. writer' \in [Writers -> [pc: {"idle", "store", "reread", "schedule"}, key: Keys, at: Nat]]
    <3> DEFINE r == [writer[w] EXCEPT !.pc = "schedule"]
    <3>1. writer' = [writer EXCEPT ![w] = r]
      BY <1>4 DEF Put
    <3>2. r \in [pc: {"idle", "store", "reread", "schedule"}, key: Keys, at: Nat]
      BY DEF TypeOK
    <3> HIDE DEF r
    <3> QED
      BY <3>1, <3>2 DEF TypeOK
  <2>2. /\ resident' \subseteq Keys /\ expireAt' \in [Keys -> Nat]
        /\ resident' = resident \union {writer[w].key}
        /\ \A k \in Keys : k # writer[w].key => expireAt'[k] = expireAt[k]
    BY <1>4 DEF Put, TypeOK
  <2>3. \A k \in Keys \ resident' : expireAt'[k] = 0
    BY <2>2 DEF TypeOK
  <2> QED
    BY <1>4, <2>1, <2>2, <2>3 DEF Put, TypeOK
<1>5. ASSUME NEW w \in Writers, Reread(w) PROVE TypeOK'
  <2>1. writer' \in [Writers -> [pc: {"idle", "store", "reread", "schedule"}, key: Keys, at: Nat]]
    <3>1. CASE writer[w].key \in resident
      <4> DEFINE r == [writer[w] EXCEPT !.pc = "schedule", !.at = expireAt[writer[w].key]]
      <4>1. writer' = [writer EXCEPT ![w] = r]
        BY <1>5, <3>1 DEF Reread
      <4>2. /\ writer[w] \in [pc: {"idle", "store", "reread", "schedule"}, key: Keys, at: Nat]
            /\ expireAt[writer[w].key] \in Nat
        BY DEF TypeOK
      <4>3. r \in [pc: {"idle", "store", "reread", "schedule"}, key: Keys, at: Nat]
        BY <4>2
      <4> HIDE DEF r
      <4> QED
        BY <4>1, <4>3 DEF TypeOK
    <3>2. CASE writer[w].key \notin resident
      BY <1>5, <3>2, FreeType DEF Reread, TypeOK
    <3> QED
      BY <3>1, <3>2
  <2> QED
    BY <1>5, <2>1 DEF Reread, TypeOK, keyspace
<1>6. ASSUME NEW w \in Writers, Schedule(w) PROVE TypeOK'
  <2>1. writer' \in [Writers -> [pc: {"idle", "store", "reread", "schedule"}, key: Keys, at: Nat]]
    BY <1>6, FreeType DEF Schedule, TypeOK
  <2>2. writer[w].key \in Keys /\ TickFor(writer[w].at) \in Nat
    BY TickType DEF TypeOK
  <2>3. hint' \in [Hints -> [key: Keys, tick: Nat, place: {"free", "wheel", "fired"}]]
    <3>1. Added(writer[w].key, TickFor(writer[w].at))
            \in [key: Keys, tick: Nat, place: {"free", "wheel", "fired"}]
      BY <2>2, AddedType
    <3> QED
      BY <1>6, <3>1 DEF Schedule, TypeOK, Free
  <2> QED
    BY <1>6, <2>1, <2>3 DEF Schedule, TypeOK, keyspace
<1>7. ASSUME NEW k \in Keys, Remove(k) PROVE TypeOK'
  BY <1>7 DEF Remove, TypeOK, keyspace
<1>8. ASSUME Wake \/ CaughtUp \/ TickDone \/ Quit PROVE TypeOK'
  <2>1. loop' \in [pc: {"off", "wait", "tick", "advance", "process", "decide", "done"},
                   current: 0..LastTick, now: 0..Horizon, todo: SUBSET Stripes,
                   hint: SUBSET Hints, seen: Nat]
    <3>1. CASE Wake
      BY <3>1 DEF Wake, TypeOK
    <3>2. CASE CaughtUp
      <4>1. loop' = [loop EXCEPT !.pc = "wait", !.now = 0]
        BY <3>2 DEF CaughtUp
      <4>2. 0 \in 0..Horizon
        OBVIOUS
      <4>3. loop'.current = loop.current /\ loop'.todo = loop.todo /\ loop'.hint = loop.hint
            /\ loop'.seen = loop.seen /\ loop'.now = 0 /\ loop'.pc = "wait"
        BY <4>1 DEF TypeOK
      <4> QED
        BY <4>1, <4>2, <4>3 DEF TypeOK
    <3>3. CASE TickDone \/ Quit
      BY <3>3 DEF TickDone, Quit, TypeOK
    <3> QED
      BY <1>8, <3>1, <3>2, <3>3
  <2> QED
    BY <1>8, <2>1 DEF Wake, CaughtUp, TickDone, Quit, TypeOK, keyspace
<1>9. ASSUME Turn PROVE TypeOK'
  <2>1. loop.current + 1 \in 0 .. LastTick
    BY <1>9, TicksEnd, TickType DEF Turn, TypeOK
  <2> QED
    BY <1>9, <2>1 DEF Turn, TypeOK, keyspace
<1>10. ASSUME NEW s \in Stripes, AdvanceStripe(s) PROVE TypeOK'
  <2>1. clock[s] + 1 \in 0 .. LastTick
    BY <1>10, TickType DEF AdvanceStripe, StripesOK, TypeOK
  <2>2. hint' \in [Hints -> [key: Keys, tick: Nat, place: {"free", "wheel", "fired"}]]
    BY <1>10 DEF AdvanceStripe, TypeOK
  <2>3. /\ clock' \in [Stripes -> 0..LastTick]
        /\ loop' \in [pc: {"off", "wait", "tick", "advance", "process", "decide", "done"},
                     current: 0..LastTick, now: 0..Horizon, todo: SUBSET Stripes,
                     hint: SUBSET Hints, seen: Nat]
    BY <1>10, <2>1 DEF AdvanceStripe, TypeOK
  <2> QED
    BY <1>10, <2>2, <2>3 DEF AdvanceStripe, TypeOK, keyspace
<1>11. ASSUME NEW h \in Hints, Defer(h) PROVE TypeOK'
  <2>1. hint[h].key \in Keys /\ clock[StripeOf[hint[h].key]] + 1 \in Nat
    BY TickType DEF TypeOK
  <2> QED
    BY <1>11, <2>1, AddedType DEF Defer, TypeOK, keyspace
<1>12. ASSUME NEW h \in Hints, Look(h) PROVE TypeOK'
  BY <1>12 DEF Look, TypeOK, keyspace
<1>13. ASSUME NEW h \in Hints, Drop(h) PROVE TypeOK'
  BY <1>13, FreeType DEF Drop, TypeOK, keyspace
<1>14. ASSUME NEW h \in Hints, Expire(h) PROVE TypeOK'
  <2>1. hint' \in [Hints -> [key: Keys, tick: Nat, place: {"free", "wheel", "fired"}]]
    BY <1>14, FreeType DEF Expire, TypeOK
  <2>2. resident' \subseteq Keys /\ expireAt' \in [Keys -> Nat]
        /\ \A k \in Keys \ resident' : expireAt'[k] = 0
    BY <1>14 DEF Expire, TypeOK, keyspace
  <2> QED
    BY <1>14, <2>1, <2>2 DEF Expire, TypeOK, keyspace
<1>15. ASSUME NEW h \in Hints, Reinsert(h) PROVE TypeOK'
  <2>1. hint[h].key \in Keys /\ TickFor(loop.seen) \in Nat
    BY TickType DEF TypeOK
  <2> QED
    BY <1>15, <2>1, AddedType DEF Reinsert, TypeOK, keyspace
<1>16. ASSUME NEW c \in Stoppers,
              Stop(c) \/ CloseQuit(c) \/ StopNew(c) \/ StopReturns(c) \/ StopExpires(c)
       PROVE  TypeOK'
  BY <1>16 DEF Stop, CloseQuit, StopNew, StopReturns, StopExpires, TypeOK, keyspace
<1>17. CASE UNCHANGED vars
  BY <1>17 DEF vars, TypeOK, keyspace
<1> QED
  BY <1>1, <1>2, <1>3, <1>4, <1>5, <1>6, <1>7, <1>8, <1>9, <1>10, <1>11, <1>12, <1>13,
     <1>14, <1>15, <1>16, <1>17 DEF Next, Loop, Write

-----------------------------------------------------------------------------
(* The loop's hands, its stripes, and what is scheduled                    *)

LEMMA HandsStep ==
  ASSUME IInv, [Next]_vars
  PROVE  HandsOK'
<1> USE DEF IInv
<1>1. ASSUME Pass \/ Start \/ Wake \/ Turn \/ CaughtUp \/ TickDone \/ Quit PROVE HandsOK'
  <2>1. (hint' = hint /\ loop.hint = {} /\ loop'.hint = {}) \/ Pass
    BY <1>1 DEF Start, Wake, Turn, CaughtUp, TickDone, Quit, TypeOK, HandsOK, StripesOK
  <2>2. CASE Pass
    BY <2>2 DEF Pass, TypeOK, HandsOK
  <2>3. CASE ~Pass
    <3>1. loop'.now <= time'
      <4>1. CASE Wake
        BY <4>1 DEF Wake, TypeOK
      <4>2. CASE CaughtUp
        BY <4>2 DEF CaughtUp, TypeOK
      <4>3. CASE Start \/ Turn \/ TickDone \/ Quit
        BY <4>3 DEF Start, Turn, TickDone, Quit, TypeOK, HandsOK
      <4> QED
        BY <1>1, <2>3, <4>1, <4>2, <4>3
    <3> QED
      BY <2>1, <2>3, <3>1 DEF HandsOK
  <2> QED
    BY <2>2, <2>3
<1>2. ASSUME NEW w \in Writers, NewEntry(w) \/ SetTTL(w) \/ Put(w) \/ Reread(w) PROVE HandsOK'
  BY <1>2 DEF NewEntry, SetTTL, Put, Reread, HandsOK, keyspace
<1>3. ASSUME NEW w \in Writers, Schedule(w) PROVE HandsOK'
  BY <1>3 DEF Schedule, Free, TypeOK, HandsOK, keyspace
<1>4. ASSUME NEW k \in Keys, Remove(k) PROVE HandsOK'
  BY <1>4 DEF Remove, HandsOK, keyspace
<1>5. ASSUME NEW s \in Stripes, AdvanceStripe(s) PROVE HandsOK'
  BY <1>5 DEF AdvanceStripe, TypeOK, HandsOK, keyspace
<1>6. ASSUME NEW h \in Hints, Defer(h) PROVE HandsOK'
  BY <1>6 DEF Defer, TypeOK, HandsOK, keyspace
<1>7. ASSUME NEW h \in Hints, Look(h) PROVE HandsOK'
  BY <1>7 DEF Look, Fired, TypeOK, HandsOK, keyspace
<1>8. ASSUME NEW h \in Hints, Drop(h) \/ Expire(h) \/ Reinsert(h) PROVE HandsOK'
  BY <1>8 DEF Drop, Expire, Reinsert, TypeOK, HandsOK, keyspace
<1>9. ASSUME NEW c \in Stoppers,
             Stop(c) \/ CloseQuit(c) \/ StopNew(c) \/ StopReturns(c) \/ StopExpires(c)
      PROVE  HandsOK'
  BY <1>9 DEF Stop, CloseQuit, StopNew, StopReturns, StopExpires, HandsOK, keyspace
<1>10. CASE UNCHANGED vars
  BY <1>10 DEF vars, HandsOK, keyspace
<1> QED
  BY <1>1, <1>2, <1>3, <1>4, <1>5, <1>6, <1>7, <1>8, <1>9, <1>10 DEF Next, Loop, Write

LEMMA StripesStep ==
  ASSUME IInv, [Next]_vars
  PROVE  StripesOK'
<1> USE DEF IInv
<1>1. ASSUME Pass \/ Start \/ Wake \/ CaughtUp \/ TickDone \/ Quit PROVE StripesOK'
  BY <1>1 DEF Pass, Start, Wake, CaughtUp, TickDone, Quit, TypeOK, StripesOK, keyspace
<1>2. ASSUME NEW w \in Writers, NewEntry(w) \/ SetTTL(w) \/ Put(w) \/ Reread(w) \/ Schedule(w)
      PROVE  StripesOK'
  BY <1>2 DEF NewEntry, SetTTL, Put, Reread, Schedule, StripesOK, keyspace
<1>3. ASSUME NEW k \in Keys, Remove(k) PROVE StripesOK'
  BY <1>3 DEF Remove, StripesOK, keyspace
<1>4. ASSUME Turn PROVE StripesOK'
  <2>1. loop.todo = {} /\ loop.current \in Nat
    BY <1>4, TickType DEF Turn, TypeOK, StripesOK
  <2>2. loop'.todo = Stripes /\ loop'.current = loop.current + 1 /\ loop'.pc = "advance"
    BY <1>4 DEF Turn, TypeOK
  <2>3. \A s \in Stripes : clock'[s] = loop'.current - 1
    BY <1>4, <2>1, <2>2 DEF Turn, StripesOK
  <2>4. state' # "new"
    BY <1>4 DEF Turn, StripesOK
  <2> QED
    BY <2>1, <2>2, <2>3, <2>4 DEF StripesOK
<1>5. ASSUME NEW s \in Stripes, AdvanceStripe(s) PROVE StripesOK'
  BY <1>5, TickType DEF AdvanceStripe, TypeOK, StripesOK, keyspace
<1>6. ASSUME NEW h \in Hints, Defer(h) \/ Look(h) \/ Drop(h) \/ Expire(h) \/ Reinsert(h)
      PROVE  StripesOK'
  BY <1>6 DEF Defer, Look, Drop, Expire, Reinsert, TypeOK, StripesOK, keyspace
<1>7. ASSUME NEW c \in Stoppers,
             Stop(c) \/ CloseQuit(c) \/ StopNew(c) \/ StopReturns(c) \/ StopExpires(c)
      PROVE  StripesOK'
  BY <1>7 DEF Stop, CloseQuit, StopNew, StopReturns, StopExpires, StripesOK, keyspace
<1>8. CASE UNCHANGED vars
  BY <1>8 DEF vars, StripesOK, keyspace
<1> QED
  BY <1>1, <1>2, <1>3, <1>4, <1>5, <1>6, <1>7, <1>8 DEF Next, Loop, Write

(* Calls begin by LastWrite, so what they give a key to live ends within   *)
(* the Horizon.                                                            *)
LEMMA ScheduledStep ==
  ASSUME IInv, [Next]_vars
  PROVE  Scheduled'
<1> USE DEF IInv
<1>1. ASSUME Pass \/ Start \/ Wake \/ Turn \/ CaughtUp \/ TickDone \/ Quit PROVE Scheduled'
  BY <1>1 DEF Pass, Start, Wake, Turn, CaughtUp, TickDone, Quit, TypeOK, Scheduled, keyspace
<1>2. ASSUME NEW w \in Writers, NewEntry(w) PROVE Scheduled'
  BY <1>2 DEF NewEntry, Begin, TypeOK, Scheduled, keyspace
<1>3. ASSUME NEW w \in Writers, SetTTL(w) PROVE Scheduled'
  BY <1>3 DEF SetTTL, Begin, TypeOK, Scheduled, keyspace
<1>4. ASSUME NEW w \in Writers, Put(w) PROVE Scheduled'
  BY <1>4 DEF Put, TypeOK, Scheduled, keyspace
<1>5. ASSUME NEW w \in Writers, Reread(w) \/ Schedule(w) PROVE Scheduled'
  <2>1. \A v \in Writers : writer'[v].at <= Horizon
    <3>1. CASE Schedule(w)
      BY <3>1, FreeType DEF Schedule, TypeOK, Scheduled
    <3>2. CASE Reread(w) /\ writer[w].key \in resident
      BY <3>2 DEF Reread, TypeOK, Scheduled
    <3>3. CASE Reread(w) /\ writer[w].key \notin resident
      BY <3>3, FreeType DEF Reread, TypeOK, Scheduled
    <3> QED
      BY <1>5, <3>1, <3>2, <3>3
  <2> QED
    BY <1>5, <2>1 DEF Reread, Schedule, Scheduled, keyspace
<1>6. ASSUME NEW k \in Keys, Remove(k) PROVE Scheduled'
  BY <1>6 DEF Remove, TypeOK, Scheduled, keyspace
<1>7. ASSUME NEW s \in Stripes, AdvanceStripe(s) PROVE Scheduled'
  BY <1>7 DEF AdvanceStripe, TypeOK, Scheduled, keyspace
<1>8. ASSUME NEW h \in Hints, Defer(h) \/ Look(h) \/ Drop(h) \/ Reinsert(h) PROVE Scheduled'
  <2>1. loop'.seen <= Horizon
    <3>1. CASE Look(h)
      BY <3>1 DEF Look, TypeOK, Scheduled
    <3>2. CASE Defer(h) \/ Drop(h)
      BY <3>2 DEF Defer, Drop, TypeOK, Scheduled
    <3>3. CASE Reinsert(h)
      BY <3>3 DEF Reinsert, TypeOK
    <3> QED
      BY <1>8, <3>1, <3>2, <3>3
  <2> QED
    BY <1>8, <2>1 DEF Defer, Look, Drop, Reinsert, Scheduled, keyspace
<1>9. ASSUME NEW h \in Hints, Expire(h) PROVE Scheduled'
  BY <1>9 DEF Expire, TypeOK, Scheduled, keyspace
<1>10. ASSUME NEW c \in Stoppers,
             Stop(c) \/ CloseQuit(c) \/ StopNew(c) \/ StopReturns(c) \/ StopExpires(c)
      PROVE  Scheduled'
  BY <1>10 DEF Stop, CloseQuit, StopNew, StopReturns, StopExpires, Scheduled, keyspace
<1>11. CASE UNCHANGED vars
  BY <1>11 DEF vars, Scheduled, keyspace
<1> QED
  BY <1>1, <1>2, <1>3, <1>4, <1>5, <1>6, <1>7, <1>8, <1>9, <1>10, <1>11 DEF Next, Loop, Write

-----------------------------------------------------------------------------
(* Coverage                                                                *)

(* The two halves of HintCoverage for a key k.                             *)
Coming(k) == \E h \in Hints : Covers(h, k, expireAt[k])
Promised(k) ==
  \E w \in Writers :
    /\ writer[w].key = k
    /\ \/ writer[w].pc = "reread"
       \/ writer[w].pc = "schedule" /\ writer[w].at = expireAt[k]

LEMMA CoverageParts ==
  /\ HintCoverage <=>
       (Active => \A k \in resident : expireAt[k] # 0 => Coming(k) \/ Promised(k))
  /\ HintCoverage' <=>
       (Active' => \A k \in resident' : expireAt'[k] # 0 => Coming(k)' \/ Promised(k)')
BY DEF HintCoverage, Coming, Promised

(* Steps that disturb no hint but g, which the loop then has not in hand.  *)
LEMMA OthersComing ==
  ASSUME NEW k \in Keys, Coming(k), expireAt'[k] = expireAt[k], clock' = clock,
         NEW g, \A h \in Hints \ {g} : hint'[h] = hint[h],
         loop'.hint = {} \/ (loop'.hint = loop.hint /\ loop'.seen = loop.seen)
  PROVE  Coming(k)' \/ (g \in Hints /\ Covers(g, k, expireAt[k]))
BY DEF Coming, Covers

LEMMA StillComing ==
  ASSUME NEW k \in Keys, Coming(k), expireAt'[k] = expireAt[k], clock' = clock, hint' = hint,
         loop'.hint = {} \/ (loop'.hint = loop.hint /\ loop'.seen = loop.seen)
  PROVE  Coming(k)'
BY DEF Coming, Covers

LEMMA StillPromised ==
  ASSUME NEW k \in Keys, Promised(k), expireAt'[k] = expireAt[k],
         \A w \in Writers : \/ writer'[w] = writer[w]
                            \/ writer[w].key # k
                            \/ writer[w].pc \notin {"reread", "schedule"}
  PROVE  Promised(k)'
BY DEF Promised

LEMMA CoverageStep ==
  ASSUME IInv, [Next]_vars
  PROVE  HintCoverage'
<1> SUFFICES ASSUME Active', NEW k \in resident', expireAt'[k] # 0
             PROVE  Coming(k)' \/ Promised(k)'
  BY CoverageParts
<1> USE DEF IInv
<1>1. TypeOK' /\ k \in Keys
  BY TypeStep DEF TypeOK
<1>2. Active
  BY DEF Active, Next, vars, Pass, Start, Loop, Write, Wake, Turn, CaughtUp, TickDone, Quit,
         AdvanceStripe, Defer, Look, Drop, Expire, Reinsert, NewEntry, SetTTL, Put, Reread,
         Schedule, Remove, Stop, CloseQuit, StopNew, StopReturns, StopExpires
<1>3. k \in resident /\ expireAt[k] # 0 => Coming(k) \/ Promised(k)
  BY <1>2, CoverageParts
<1> DEFINE Goal == Coming(k)' \/ Promised(k)'
<1>4. ASSUME keyspace' = keyspace, writer' = writer, hint' = hint, clock' = clock,
             loop'.hint = {} \/ (loop'.hint = loop.hint /\ loop'.seen = loop.seen)
      PROVE  Goal
  BY <1>1, <1>3, <1>4, StillComing, StillPromised DEF keyspace
<1>5. ASSUME Pass \/ Start \/ Wake \/ Turn \/ CaughtUp \/ TickDone \/ Quit PROVE Goal
  <2>1. /\ keyspace' = keyspace /\ writer' = writer /\ hint' = hint /\ clock' = clock
        /\ loop'.hint = loop.hint /\ loop'.seen = loop.seen
    BY <1>5 DEF Pass, Start, Wake, Turn, CaughtUp, TickDone, Quit, TypeOK, keyspace
  <2> QED
    BY <1>4, <2>1
<1>6. ASSUME NEW w \in Writers, NewEntry(w) PROVE Goal
  BY <1>1, <1>3, <1>6, StillComing, StillPromised DEF NewEntry, Begin, TypeOK, keyspace
<1>7. ASSUME NEW w \in Writers, Put(w) PROVE Goal
  <2>1. CASE k = writer[w].key
    <3>1. writer'[w].pc = "schedule" /\ writer'[w].key = k /\ writer'[w].at = expireAt'[k]
      BY <1>7, <2>1 DEF Put, TypeOK
    <3> QED
      BY <3>1 DEF Promised
  <2>2. CASE k # writer[w].key
    <3>1. k \in resident /\ expireAt'[k] = expireAt[k]
      BY <1>1, <1>7, <2>2 DEF Put, TypeOK
    <3>2. \A v \in Writers : writer'[v] = writer[v] \/ writer[v].key # k
      BY <1>7, <2>2 DEF Put, TypeOK
    <3> QED
      BY <1>1, <1>3, <1>7, <3>1, <3>2, StillComing, StillPromised DEF Put
  <2> QED
    BY <2>1, <2>2
<1>8. ASSUME NEW w \in Writers, SetTTL(w) PROVE Goal
  <2>1. PICK j \in resident, ttl \in TTLs :
          /\ expireAt' = [expireAt EXCEPT ![j] = IF ttl = 0 THEN 0 ELSE time + ttl]
          /\ writer' = [writer EXCEPT ![w] = [pc |-> "reread", key |-> j, at |-> 0]]
    BY <1>8 DEF SetTTL
  <2>2. CASE k = j
    BY <2>1, <2>2 DEF Promised, TypeOK
  <2>3. CASE k # j
    <3>1. k \in resident /\ expireAt'[k] = expireAt[k]
      BY <1>1, <1>8, <2>1, <2>3 DEF SetTTL, TypeOK
    <3>2. \A v \in Writers : writer'[v] = writer[v] \/ writer[v].pc \notin {"reread", "schedule"}
      BY <1>8, <2>1 DEF SetTTL, Begin, TypeOK
    <3> QED
      BY <1>1, <1>3, <1>8, <3>1, <3>2, StillComing, StillPromised DEF SetTTL
  <2> QED
    BY <2>2, <2>3
<1>9. ASSUME NEW w \in Writers, Reread(w) PROVE Goal
  <2>1. CASE k = writer[w].key
    <3>1. writer'[w].pc = "schedule" /\ writer'[w].key = k /\ writer'[w].at = expireAt'[k]
      BY <1>1, <1>9, <2>1 DEF Reread, TypeOK, keyspace
    <3> QED
      BY <3>1 DEF Promised
  <2>2. CASE k # writer[w].key
    <3>1. \A v \in Writers : writer'[v] = writer[v] \/ writer[v].key # k
      BY <1>9, <2>2 DEF Reread, TypeOK
    <3> QED
      BY <1>1, <1>3, <1>9, <3>1, StillComing, StillPromised DEF Reread, keyspace
  <2> QED
    BY <2>1, <2>2
<1>10. ASSUME NEW w \in Writers, Schedule(w) PROVE Goal
  <2>1. writer[w].key \in Keys /\ writer[w].at \in Nat /\ writer[w].pc = "schedule"
    BY <1>10 DEF Schedule, TypeOK
  <2>2. CASE writer[w].at = 0
    <3>1. hint' = hint /\ k \in resident /\ expireAt'[k] = expireAt[k] /\ expireAt[k] # 0
      BY <1>10, <2>2 DEF Schedule, keyspace
    <3>2. CASE Coming(k)
      BY <1>1, <1>10, <3>1, <3>2, StillComing DEF Schedule
    <3>3. CASE Promised(k)
      <4>1. PICK v \in Writers :
              /\ writer[v].key = k
              /\ \/ writer[v].pc = "reread"
                 \/ writer[v].pc = "schedule" /\ writer[v].at = expireAt[k]
        BY <3>3 DEF Promised
      <4>2. v # w /\ writer'[v] = writer[v]
        BY <1>10, <2>1, <2>2, <3>1, <4>1 DEF Schedule, TypeOK
      <4> QED
        BY <3>1, <4>1, <4>2 DEF Promised
    <3> QED
      BY <1>3, <3>1, <3>2, <3>3
  <2>3. CASE writer[w].at # 0
    <3>1. PICK g \in Free :
            hint' = [hint EXCEPT ![g] = Added(writer[w].key, TickFor(writer[w].at))]
      BY <1>2, <1>10, <2>3 DEF Schedule
    <3>2. g \in Hints /\ g \notin loop.hint /\ hint[g].place = "free"
      BY <3>1 DEF Free, HandsOK
    <3>3. hint'[g] = Added(writer[w].key, TickFor(writer[w].at))
          /\ \A h \in Hints \ {g} : hint'[h] = hint[h]
      BY <3>1, <3>2 DEF TypeOK
    <3>4. k \in resident /\ expireAt'[k] = expireAt[k] /\ clock' = clock /\ loop' = loop
          /\ expireAt[k] # 0
      BY <1>10 DEF Schedule, keyspace
    <3>5. CASE Coming(k)
      <4>1. ~Covers(g, k, expireAt[k])
        BY <3>2 DEF Covers
      <4> QED
        BY <1>1, <3>3, <3>4, <3>5, <4>1, OthersComing
    <3>6. CASE Promised(k) /\ writer[w].key = k /\ writer[w].at = expireAt[k]
      <4>1. TickFor(writer[w].at) \in Nat
        BY <2>1, TickType
      <4>2. /\ hint'[g].key = k /\ hint'[g].place = "wheel"
            /\ hint'[g].tick = Later(TickFor(expireAt[k]), clock[StripeOf[k]] + 1)
            /\ Later(TickFor(expireAt[k]), clock[StripeOf[k]] + 1) \in Nat
        BY <2>1, <3>3, <3>6, <4>1, AddedType, LaterType
      <4> QED
        BY <3>2, <3>4, <4>2 DEF Coming, Covers
    <3>7. CASE Promised(k) /\ ~(writer[w].key = k /\ writer[w].at = expireAt[k])
      <4>1. PICK v \in Writers :
              /\ writer[v].key = k
              /\ \/ writer[v].pc = "reread"
                 \/ writer[v].pc = "schedule" /\ writer[v].at = expireAt[k]
        BY <3>7 DEF Promised
      <4>2. v # w /\ writer'[v] = writer[v]
        BY <1>10, <2>1, <3>7, <4>1 DEF Schedule, TypeOK
      <4> QED
        BY <3>4, <4>1, <4>2 DEF Promised
    <3> QED
      BY <1>3, <3>4, <3>5, <3>6, <3>7
  <2> QED
    BY <2>2, <2>3
<1>11. ASSUME NEW j \in Keys, Remove(j) PROVE Goal
  <2>1. k # j /\ k \in resident /\ expireAt'[k] = expireAt[k]
    BY <1>1, <1>11 DEF Remove, TypeOK
  <2> QED
    BY <1>1, <1>3, <1>11, <2>1, StillComing, StillPromised DEF Remove
<1>12. ASSUME NEW s \in Stripes, AdvanceStripe(s) PROVE Goal
  <2>1. k \in resident /\ expireAt'[k] = expireAt[k] /\ writer' = writer /\ expireAt[k] # 0
    BY <1>12 DEF AdvanceStripe, keyspace
  <2>2. CASE Promised(k)
    BY <1>1, <2>1, <2>2, StillPromised
  <2>3. CASE Coming(k)
    <3>1. PICK h \in Hints : Covers(h, k, expireAt[k])
      BY <2>3 DEF Coming
    <3>2. loop.hint = {} /\ loop'.hint = {}
      BY <1>12 DEF AdvanceStripe, TypeOK, HandsOK
    <3>3. /\ StripeOf[k] \in Stripes /\ clock[StripeOf[k]] \in Nat /\ hint[h].tick \in Nat
          /\ TickFor(expireAt[k]) \in Nat
      BY <1>1, TickType DEF TypeOK
    <3>4. clock'[StripeOf[k]] = IF StripeOf[k] = s THEN clock[s] + 1 ELSE clock[StripeOf[k]]
      BY <1>12, <3>3 DEF AdvanceStripe, TypeOK
    <3>5. CASE hint[h].place = "wheel" /\ StripeOf[k] = s /\ hint[h].tick = clock[s] + 1
      <4>1. hint'[h].place = "fired" /\ hint'[h].key = k
        BY <1>12, <3>1, <3>5 DEF AdvanceStripe, TypeOK, Covers
      <4> QED
        BY <3>2, <4>1 DEF Coming, Covers
    <3>6. CASE ~(hint[h].place = "wheel" /\ StripeOf[k] = s /\ hint[h].tick = clock[s] + 1)
      <4>1. hint'[h] = hint[h]
        BY <1>12, <3>1, <3>6 DEF AdvanceStripe, Covers
      <4>2. hint[h].tick <= Later(TickFor(expireAt[k]), clock[StripeOf[k]] + 1)
            => hint[h].tick <= Later(TickFor(expireAt[k]), clock'[StripeOf[k]] + 1)
        BY <3>3, <3>4 DEF Later
      <4> QED
        BY <2>1, <3>1, <3>2, <4>1, <4>2 DEF Coming, Covers
    <3> QED
      BY <3>5, <3>6
  <2> QED
    BY <1>3, <2>1, <2>2, <2>3
<1>13. ASSUME NEW g \in Hints, Defer(g) PROVE Goal
  <2>1. /\ k \in resident /\ expireAt'[k] = expireAt[k] /\ writer' = writer /\ expireAt[k] # 0
        /\ clock' = clock /\ loop' = loop /\ loop.hint = {}
    BY <1>13 DEF Defer, keyspace, HandsOK
  <2>2. CASE Promised(k)
    BY <1>1, <2>1, <2>2, StillPromised
  <2>3. CASE Coming(k) /\ ~Covers(g, k, expireAt[k])
    BY <1>1, <1>13, <2>1, <2>3, OthersComing DEF Defer, TypeOK
  <2>4. CASE Covers(g, k, expireAt[k])
    <3>1. /\ hint[g].key = k /\ clock[StripeOf[k]] \in Nat /\ clock[StripeOf[k]] + 1 \in Nat
          /\ TickFor(expireAt[k]) \in Nat
      BY <1>1, <2>4, TickType DEF Covers, TypeOK
    <3>2. hint'[g] = Added(k, clock[StripeOf[k]] + 1)
      BY <1>13, <3>1 DEF Defer, TypeOK
    <3>3. /\ hint'[g].key = k /\ hint'[g].place = "wheel"
          /\ hint'[g].tick = clock[StripeOf[k]] + 1
      BY <1>1, <3>1, <3>2, AddedType, LaterType
    <3>4. hint'[g].tick <= Later(TickFor(expireAt[k]), clock[StripeOf[k]] + 1)
      BY <3>1, <3>3, LaterType
    <3> QED
      BY <2>1, <3>3, <3>4 DEF Coming, Covers
  <2> QED
    BY <1>3, <2>1, <2>2, <2>3, <2>4
<1>14. ASSUME NEW g \in Hints, Look(g) PROVE Goal
  <2>1. /\ k \in resident /\ expireAt'[k] = expireAt[k] /\ writer' = writer /\ expireAt[k] # 0
        /\ clock' = clock /\ hint' = hint /\ loop.hint = {}
        /\ loop'.hint = {g} /\ loop'.seen = expireAt[hint[g].key]
    BY <1>14 DEF Look, keyspace, TypeOK, HandsOK
  <2>2. CASE Promised(k)
    BY <1>1, <2>1, <2>2, StillPromised
  <2>3. CASE Coming(k)
    BY <2>1, <2>3 DEF Coming, Covers
  <2> QED
    BY <1>3, <2>1, <2>2, <2>3
<1>15. ASSUME NEW g \in Hints, Drop(g) PROVE Goal
  <2>1. /\ k \in resident /\ expireAt'[k] = expireAt[k] /\ writer' = writer /\ expireAt[k] # 0
        /\ clock' = clock /\ loop'.hint = {} /\ loop.seen = 0 /\ hint[g].place = "fired"
        /\ g \in loop.hint
    BY <1>15 DEF Drop, keyspace, TypeOK, HandsOK
  <2>2. CASE Promised(k)
    BY <1>1, <2>1, <2>2, StillPromised
  <2>3. ~Covers(g, k, expireAt[k])
    BY <2>1 DEF Covers
  <2>4. CASE Coming(k)
    BY <1>1, <1>15, <2>1, <2>3, <2>4, OthersComing DEF Drop, TypeOK
  <2> QED
    BY <1>3, <2>1, <2>2, <2>4
<1>16. ASSUME NEW g \in Hints, Expire(g) PROVE Goal
  <2>1. /\ k \in resident /\ expireAt'[k] = expireAt[k] /\ expireAt[k] # 0
        /\ ~(Expired(k) /\ hint[g].key = k)
    BY <1>1, <1>16 DEF Expire, keyspace, TypeOK
  <2>2. /\ writer' = writer /\ clock' = clock /\ loop'.hint = {} /\ loop.seen < loop.now
        /\ hint[g].place = "fired" /\ g \in loop.hint
    BY <1>16 DEF Expire, TypeOK, HandsOK
  <2>3. CASE Promised(k)
    BY <1>1, <2>1, <2>2, <2>3, StillPromised
  <2>4. ~Covers(g, k, expireAt[k])
    <3>1. SUFFICES ASSUME hint[g].key = k, loop.seen = expireAt[k] PROVE FALSE
      BY <2>2 DEF Covers
    <3>2. time > expireAt[k]
      BY <2>2, <3>1 DEF HandsOK, TypeOK
    <3> QED
      BY <2>1, <3>1, <3>2 DEF Expired
  <2>5. CASE Coming(k)
    BY <1>1, <1>16, <2>1, <2>2, <2>4, <2>5, OthersComing DEF Expire, TypeOK
  <2> QED
    BY <1>3, <2>1, <2>3, <2>5
<1>17. ASSUME NEW g \in Hints, Reinsert(g) PROVE Goal
  <2>1. /\ k \in resident /\ expireAt'[k] = expireAt[k] /\ writer' = writer /\ expireAt[k] # 0
        /\ clock' = clock /\ loop'.hint = {} /\ hint[g].place = "fired" /\ g \in loop.hint
    BY <1>17 DEF Reinsert, keyspace, TypeOK, HandsOK
  <2>2. CASE Promised(k)
    BY <1>1, <2>1, <2>2, StillPromised
  <2>3. CASE Coming(k) /\ ~Covers(g, k, expireAt[k])
    BY <1>1, <1>17, <2>1, <2>3, OthersComing DEF Reinsert, TypeOK
  <2>4. CASE Covers(g, k, expireAt[k])
    <3>1. hint[g].key = k /\ loop.seen = expireAt[k] /\ TickFor(expireAt[k]) \in Nat
      BY <1>1, <2>1, <2>4, TickType DEF Covers, TypeOK
    <3>2. hint'[g] = Added(k, TickFor(expireAt[k]))
      BY <1>17, <3>1 DEF Reinsert, TypeOK
    <3>3. /\ hint'[g].key = k /\ hint'[g].place = "wheel"
          /\ hint'[g].tick = Later(TickFor(expireAt[k]), clock[StripeOf[k]] + 1)
          /\ Later(TickFor(expireAt[k]), clock[StripeOf[k]] + 1) \in Nat
      BY <1>1, <3>1, <3>2, AddedType, LaterType
    <3> QED
      BY <2>1, <3>3 DEF Coming, Covers
  <2> QED
    BY <1>3, <2>1, <2>2, <2>3, <2>4
<1>18. ASSUME NEW c \in Stoppers,
              Stop(c) \/ CloseQuit(c) \/ StopNew(c) \/ StopReturns(c) \/ StopExpires(c)
       PROVE  Goal
  BY <1>4, <1>18 DEF Stop, CloseQuit, StopNew, StopReturns, StopExpires
<1>19. CASE UNCHANGED vars
  BY <1>4, <1>19 DEF vars
<1> QED
  BY <1>5, <1>6, <1>7, <1>8, <1>9, <1>10, <1>11, <1>12, <1>13, <1>14, <1>15, <1>16, <1>17,
     <1>18, <1>19 DEF Next, Loop, Write

-----------------------------------------------------------------------------
(* The theorems                                                            *)

THEOREM Inductive == Spec => []IInv
<1>1. IInv /\ [Next]_vars => IInv'
  BY TypeStep, HandsStep, StripesStep, ScheduledStep, CoverageStep DEF IInv
<1> QED
  BY <1>1, InitOK, PTL DEF Spec

(* While the manager runs, every key with an expiry has a hint in its      *)
(* wheel no later than the tick after it expires, or in the loop's hands,  *)
(* or a writer about to add one: whatever writers, readers and the loop    *)
(* do to the key meanwhile, none is forgotten.                             *)
THEOREM NoneForgotten == Spec => []HintCoverage
BY Inductive, PTL DEF IInv

(* The loop removes a key only when it has expired by the wall clock of    *)
(* that moment, although it decided on older readings of the key and of    *)
(* the clock.                                                              *)
THEOREM NeverTooEarly == Spec => NeverEarly
<1> DEFINE Early(k) == /\ loop.pc = "decide" /\ loop'.pc = "process" /\ k \in resident \ resident'
                       /\ ~(time > expireAt[k] /\ expireAt[k] # 0)
<1>1. ASSUME IInv, [Next]_vars, NEW k \in Keys, Early(k) PROVE FALSE
  <2>1. PICK h \in Hints : Drop(h) \/ Expire(h) \/ Reinsert(h)
    BY <1>1 DEF vars, keyspace, Next, Loop, Write, Pass, Start, Wake, Turn, CaughtUp, TickDone,
       Quit, AdvanceStripe, Defer, Look, NewEntry, SetTTL, Put, Reread, Schedule, Remove, Stop,
       CloseQuit, StopNew, StopReturns, StopExpires
  <2> QED
    BY <1>1, <2>1 DEF Drop, Expire, Reinsert, Expired, keyspace, IInv, TypeOK
<1>2. IInv /\ [Next]_vars =>
        [\A k \in Keys : loop.pc = "decide" /\ loop'.pc = "process" /\ k \in resident \ resident'
           => time > expireAt[k] /\ expireAt[k] # 0]_vars
  BY <1>1
<1> QED
  BY <1>2, Inductive, PTL DEF Spec, NeverEarly

-----------------------------------------------------------------------------
(* Each stripe as a HintStore                                              *)

(* A hint that enters the wheel is scheduled in the store of its stripe.   *)
LEMMA Entering ==
  ASSUME IInv, NEW h \in Hints, hint[h].place # "wheel", NEW k \in Keys,
         NEW t \in Nat, t <= LastTick + 1,
         hint' = [hint EXCEPT ![h] = Added(k, t)], clock' = clock, NEW s \in Stripes
  PROVE  [Stripe(s)!Next]_<<clock[s], Due(s)>>
<1> DEFINE u == Later(t, clock[StripeOf[k]] + 1)
<1>1. /\ clock[StripeOf[k]] \in 0 .. LastTick /\ StripeOf[k] \in Stripes /\ LastTick \in Nat
      /\ hint'[h] = Added(k, t) /\ \A g \in Hints \ {h} : hint'[g] = hint[g]
  BY TickType DEF IInv, TypeOK
<1>2. /\ hint'[h].key = k /\ hint'[h].place = "wheel" /\ hint'[h].tick = u
  BY <1>1, AddedType DEF IInv
<1>3. u \in (clock[StripeOf[k]] + 1) .. (LastTick + 1)
  BY <1>1 DEF Later
<1> HIDE DEF u
<1>4. CASE s # StripeOf[k]
  <2>1. Due(s)' = Due(s)
    BY <1>1, <1>2, <1>4 DEF Due
  <2> QED
    BY <2>1
<1>5. CASE s = StripeOf[k]
  <2>1. Due(s)' = [Due(s) EXCEPT ![h] = u]
    <3>1. ASSUME NEW g \in Hints
          PROVE  Due(s)'[g] = IF g = h THEN u ELSE Due(s)[g]
      BY <1>1, <1>2, <1>5 DEF Due
    <3>2. Due(s) = [g \in Hints |-> Due(s)[g]] /\ Due(s)' = [g \in Hints |-> Due(s)'[g]]
      BY DEF Due
    <3> QED
      BY <3>1, <3>2
  <2>2. Due(s)[h] = 0
    BY DEF Due
  <2>3. Stripe(s)!Schedule(h)
    BY <1>3, <1>5, <2>1, <2>2 DEF Stripe!Schedule
  <2> QED
    BY <2>3 DEF Stripe!Next
<1> QED
  BY <1>4, <1>5

(* Steps that leave the wheels alone.                                      *)
LEMMA NotEntering ==
  ASSUME clock' = clock, NEW s \in Stripes,
         \A h \in Hints : \/ hint'[h] = hint[h]
                          \/ hint[h].place # "wheel" /\ hint'[h].place # "wheel"
  PROVE  [Stripe(s)!Next]_<<clock[s], Due(s)>>
<1>1. Due(s)' = Due(s)
  BY DEF Due
<1> QED
  BY <1>1

LEMMA StoreStep ==
  ASSUME IInv, [Next]_vars, NEW s \in Stripes
  PROVE  [Stripe(s)!Next]_<<clock[s], Due(s)>>
<1> DEFINE Goal == [Stripe(s)!Next]_<<clock[s], Due(s)>>
<1>1. ASSUME hint' = hint, clock' = clock PROVE Goal
  BY <1>1, NotEntering
<1>2. ASSUME Pass \/ Start \/ Wake \/ Turn \/ CaughtUp \/ TickDone \/ Quit PROVE Goal
  BY <1>1, <1>2 DEF Pass, Start, Wake, Turn, CaughtUp, TickDone, Quit
<1>3. ASSUME NEW w \in Writers, NewEntry(w) \/ SetTTL(w) \/ Put(w) \/ Reread(w) PROVE Goal
  BY <1>1, <1>3 DEF NewEntry, SetTTL, Put, Reread
<1>4. ASSUME NEW w \in Writers, Schedule(w) PROVE Goal
  <2>1. CASE hint' = hint
    BY <1>1, <1>4, <2>1 DEF Schedule
  <2>2. CASE hint' # hint
    <3>1. PICK h \in Free : hint' = [hint EXCEPT ![h] = Added(writer[w].key, TickFor(writer[w].at))]
      BY <1>4, <2>2 DEF Schedule
    <3>2. /\ writer[w].key \in Keys /\ writer[w].at \in Nat /\ writer[w].at <= Horizon
          /\ h \in Hints /\ hint[h].place # "wheel"
      BY <3>1 DEF IInv, TypeOK, Scheduled, Free
    <3>3. TickFor(writer[w].at) \in Nat /\ TickFor(writer[w].at) <= LastTick + 1
      BY <3>2, TickType, TicksFit
    <3> QED
      BY <1>4, <3>1, <3>2, <3>3, Entering DEF Schedule
  <2> QED
    BY <2>1, <2>2
<1>5. ASSUME NEW k \in Keys, Remove(k) PROVE Goal
  BY <1>1, <1>5 DEF Remove
<1>6. ASSUME NEW r \in Stripes, AdvanceStripe(r) PROVE Goal
  <2>1. /\ clock' = [clock EXCEPT ![r] = @ + 1] /\ clock[r] \in Nat
        /\ \A h \in Hints : hint'[h] =
             IF hint[h].place = "wheel" /\ StripeOf[hint[h].key] = r /\ hint[h].tick = clock[r] + 1
             THEN [hint[h] EXCEPT !.place = "fired"] ELSE hint[h]
    BY <1>6, TickType DEF AdvanceStripe, IInv, TypeOK
  <2>2. CASE s # r
    <3>1. clock'[s] = clock[s]
      BY <2>1, <2>2 DEF IInv, TypeOK
    <3>2. Due(s)' = Due(s)
      BY <2>1, <2>2 DEF Due, IInv, TypeOK
    <3> QED
      BY <3>1, <3>2
  <2>3. CASE s = r
    <3>1. clock'[s] = clock[s] + 1
      BY <2>1, <2>3 DEF IInv, TypeOK
    <3>2. ASSUME NEW h \in Hints
          PROVE  Due(s)'[h] = IF Due(s)[h] = clock'[s] THEN 0 ELSE Due(s)[h]
      <4>1. hint[h] \in [key: Keys, tick: Nat, place: {"free", "wheel", "fired"}]
        BY DEF IInv, TypeOK
      <4>2. CASE hint[h].place = "wheel" /\ StripeOf[hint[h].key] = s /\ hint[h].tick = clock[s] + 1
        <5>1. hint'[h].place = "fired"
          BY <2>1, <2>3, <4>1, <4>2
        <5> QED
          BY <3>1, <4>2, <5>1 DEF Due
      <4>3. CASE ~(hint[h].place = "wheel" /\ StripeOf[hint[h].key] = s /\ hint[h].tick = clock[s] + 1)
        BY <2>1, <2>3, <3>1, <4>3 DEF Due
      <4> QED
        BY <4>2, <4>3
    <3>3. Due(s)' = [h \in Hints |-> IF Due(s)[h] = clock'[s] THEN 0 ELSE Due(s)[h]]
      BY <3>2 DEF Due
    <3>4. Stripe(s)!Tick
      BY <3>1, <3>3 DEF Stripe!Tick
    <3> QED
      BY <3>4 DEF Stripe!Next
  <2> QED
    BY <2>2, <2>3
<1>7. ASSUME NEW h \in Hints, Defer(h) PROVE Goal
  <2>1. /\ hint[h].key \in Keys /\ hint[h].place # "wheel"
        /\ clock[StripeOf[hint[h].key]] + 1 \in Nat /\ clock[StripeOf[hint[h].key]] + 1 <= LastTick + 1
    BY <1>7, TickType DEF Defer, Fired, IInv, TypeOK
  <2> QED
    BY <1>7, <2>1, Entering DEF Defer
<1>8. ASSUME NEW h \in Hints, Look(h) PROVE Goal
  BY <1>1, <1>8 DEF Look
<1>9. ASSUME NEW h \in Hints, Drop(h) \/ Expire(h) PROVE Goal
  <2>1. /\ clock' = clock /\ hint' = [hint EXCEPT ![h] = FreeHint] /\ hint[h].place = "fired"
    BY <1>9 DEF Drop, Expire, IInv, HandsOK
  <2>2. \A g \in Hints : \/ hint'[g] = hint[g]
                         \/ hint[g].place # "wheel" /\ hint'[g].place # "wheel"
    BY <2>1, FreeType DEF IInv, TypeOK
  <2> QED
    BY <2>1, <2>2, NotEntering
<1>10. ASSUME NEW h \in Hints, Reinsert(h) PROVE Goal
  <2>1. /\ hint[h].key \in Keys /\ hint[h].place # "wheel" /\ loop.seen \in Nat /\ loop.seen <= Horizon
    BY <1>10 DEF Reinsert, IInv, TypeOK, HandsOK, Scheduled
  <2>2. TickFor(loop.seen) \in Nat /\ TickFor(loop.seen) <= LastTick + 1
    BY <2>1, TickType, TicksFit
  <2> QED
    BY <1>10, <2>1, <2>2, Entering DEF Reinsert
<1>11. ASSUME NEW c \in Stoppers,
              Stop(c) \/ CloseQuit(c) \/ StopNew(c) \/ StopReturns(c) \/ StopExpires(c)
       PROVE  Goal
  BY <1>1, <1>11 DEF Stop, CloseQuit, StopNew, StopReturns, StopExpires
<1>12. CASE UNCHANGED vars
  BY <1>1, <1>12 DEF vars
<1> QED
  BY <1>2, <1>3, <1>4, <1>5, <1>6, <1>7, <1>8, <1>9, <1>10, <1>11, <1>12 DEF Next, Loop, Write

(* What active expiration does to the hints of a stripe is what a          *)
(* HintStore allows: each accepted for a tick still to come, and fired at  *)
(* that tick.  The wheel implements HintStore, so it can be put in place.  *)
THEOREM StripeRefinement == Spec => StripesAreStores
<1>1. Init => \A s \in Stripes : Stripe(s)!Init
  BY FreeType DEF Init, Due, Stripe!Init
<1>2. IInv /\ [Next]_vars => [\A s \in Stripes : [Stripe(s)!Next]_<<clock[s], Due(s)>>]_vars
  BY StoreStep
<1> QED
  BY <1>1, <1>2, Inductive, PTL DEF Spec, StripesAreStores

=============================================================================
