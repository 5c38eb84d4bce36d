----------------------------- MODULE Expiration -----------------------------
(***************************************************************************)
(* Active expiration: internal/ttl/manager.go at work on the keyspace.     *)
(*                                                                         *)
(* The tick loop, the writers that hand it hints, the readers that reclaim *)
(* lazily and the callers of Stop run concurrently.  The keyspace appears  *)
(* through its lock holds, as in Engine, without shards or sizes; each     *)
(* stripe's wheel appears as the HintStore that Wheel implements.          *)
(*                                                                         *)
(* Time is the wall clock in units of which Step make a tick, counted from *)
(* the manager's epoch.                                                    *)
(***************************************************************************)
EXTENDS Naturals, FiniteSets

CONSTANTS
  Keys, Stripes, StripeOf,  \* the keyspace, and the wheel of each key
  Writers, Stoppers,        \* goroutines that write, and that call Stop
  Hints,                    \* identities of hints
  Step,                     \* the length of a tick
  MaxHintsPerTick,          \* 0 is "unlimited"
  TTLs,                     \* lifetimes a write may give; 0 is "none"
  LastWrite, Horizon        \* bounds: no call begins, and time stops

ASSUME StripeOfType == StripeOf \in [Keys -> Stripes]
ASSUME HintsFinite == IsFiniteSet(Hints)
ASSUME StepType == Step \in Nat \ {0}
ASSUME LimitsType == /\ MaxHintsPerTick \in Nat /\ TTLs \subseteq Nat
                     /\ LastWrite \in Nat /\ Horizon \in Nat
ASSUME KeysSome == Keys # {}
ASSUME HorizonFits == \A ttl \in TTLs : LastWrite + ttl <= Horizon

VARIABLES
  time,                \* the wall clock
  resident, expireAt,  \* keys present; their expiry, 0 for none
  hint,                \* hint[h]: its key and tick, and who holds it
  clock,               \* clock[s]: the current tick of stripe s
  state,               \* the manager's lifecycle; "stopping" is stopped with
                       \* the quit channel not yet closed
  loop,                \* the tick loop's position and locals
  writer,              \* writer[w]: its position and what it has to schedule
  stop                 \* stop[c]: what a call of Stop has come to

keyspace == <<resident, expireAt>>
vars == <<time, keyspace, hint, clock, state, loop, writer, stop>>

-----------------------------------------------------------------------------
Expired(k) == k \in resident /\ expireAt[k] # 0 /\ time > expireAt[k]

Later(t, earliest) == IF t < earliest THEN earliest ELSE t

(* tickFor: the first tick at or after the expiry.                         *)
TickFor(at) == (at \div Step) + (IF at % Step = 0 THEN 0 ELSE 1)
Deadline(tick) == tick * Step
LastTick == Horizon \div Step

FreeHint == [key |-> CHOOSE k \in Keys : TRUE, tick |-> 0, place |-> "free"]
Free == {h \in Hints : hint[h].place = "free"}
Fired == {h \in Hints : hint[h].place = "fired"}
Busy == {w \in Writers : writer[w].pc # "idle"}
Active == state \in {"new", "running"}

(* Mutated: a tick that has already been drained is taken as it is.        *)
Added_NoFloor(k, tick) == [key |-> k, tick |-> tick, place |-> "wheel"]

(* add: the hint h enters the wheel of its key's stripe.                   *)
Added(k, tick) ==
  [key |-> k, tick |-> Later(tick, clock[StripeOf[k]] + 1), place |-> "wheel"]

-----------------------------------------------------------------------------
(* Writers: Set and SetNX, SetTTL, Delete *)

Idle == [pc |-> "idle", key |-> CHOOSE k \in Keys : TRUE, at |-> 0]

Begin(w) ==
  /\ writer[w].pc = "idle"
  /\ time <= LastWrite
  /\ Cardinality(Free) > Cardinality(Busy)

(* NewEntry fixes the expiry before the entry is stored.                   *)
NewEntry(w) ==
  /\ Begin(w)
  /\ \E k \in Keys, ttl \in TTLs :
       writer' = [writer EXCEPT ![w] =
                    [pc |-> "store", key |-> k, at |-> IF ttl = 0 THEN 0 ELSE time + ttl]]
  /\ UNCHANGED <<time, keyspace, hint, clock, state, loop, stop>>

Put(w) ==
  /\ writer[w].pc = "store"
  /\ resident' = resident \union {writer[w].key}
  /\ expireAt' = [expireAt EXCEPT ![writer[w].key] = writer[w].at]
  /\ writer' = [writer EXCEPT ![w].pc = "schedule"]
  /\ UNCHANGED <<time, hint, clock, state, loop, stop>>

SetTTL(w) ==
  /\ Begin(w)
  /\ \E k \in resident, ttl \in TTLs :
       /\ ~Expired(k)
       /\ expireAt' = [expireAt EXCEPT ![k] = IF ttl = 0 THEN 0 ELSE time + ttl]
       /\ writer' = [writer EXCEPT ![w] = [pc |-> "reread", key |-> k, at |-> 0]]
  /\ UNCHANGED <<time, resident, hint, clock, state, loop, stop>>

Reread(w) ==
  /\ writer[w].pc = "reread"
  /\ writer' = [writer EXCEPT ![w] =
                  IF writer[w].key \in resident
                  THEN [@ EXCEPT !.pc = "schedule", !.at = expireAt[writer[w].key]]
                  ELSE Idle]
  /\ UNCHANGED <<time, keyspace, hint, clock, state, loop, stop>>

(* Mutated: only a key that never expires is given a hint.                 *)
Schedule_Inverted(w) ==
  /\ writer[w].pc = "schedule"
  /\ IF writer[w].at # 0 \/ ~Active
     THEN UNCHANGED hint
     ELSE \E h \in Free :
            hint' = [hint EXCEPT ![h] = Added(writer[w].key, TickFor(writer[w].at))]
  /\ writer' = [writer EXCEPT ![w] = Idle]
  /\ UNCHANGED <<time, keyspace, clock, state, loop, stop>>

(* schedule and Manager.Add: no hint without an expiry, and none once the  *)
(* manager is stopped.                                                     *)
Schedule(w) ==
  /\ writer[w].pc = "schedule"
  /\ IF writer[w].at = 0 \/ ~Active
     THEN UNCHANGED hint
     ELSE \E h \in Free :
            hint' = [hint EXCEPT ![h] = Added(writer[w].key, TickFor(writer[w].at))]
  /\ writer' = [writer EXCEPT ![w] = Idle]
  /\ UNCHANGED <<time, keyspace, clock, state, loop, stop>>

(* A key leaves: deleted, evicted, or found expired by a reader.           *)
Remove(k) ==
  /\ k \in resident
  /\ time <= LastWrite
  /\ resident' = resident \ {k}
  /\ expireAt' = [expireAt EXCEPT ![k] = 0]
  /\ UNCHANGED <<time, hint, clock, state, loop, writer, stop>>

-----------------------------------------------------------------------------
(* The tick loop *)

Start ==
  /\ state = "new"
  /\ state' = "running"
  /\ loop' = [loop EXCEPT !.pc = "wait"]
  /\ UNCHANGED <<time, keyspace, hint, clock, writer, stop>>

(* The timer and the quit channel may both be ready: select takes either.  *)
Wake ==
  /\ loop.pc = "wait"
  /\ Deadline(loop.current + 1) <= time
  /\ loop' = [loop EXCEPT !.pc = "tick", !.now = time]
  /\ UNCHANGED <<time, keyspace, hint, clock, state, writer, stop>>

(* catchUp takes every elapsed tick, one at a time.                        *)
Turn ==
  /\ loop.pc = "tick"
  /\ Deadline(loop.current + 1) <= loop.now
  /\ loop' = [loop EXCEPT !.pc = "advance", !.current = @ + 1, !.todo = Stripes]
  /\ UNCHANGED <<time, keyspace, hint, clock, state, writer, stop>>

CaughtUp ==
  /\ loop.pc = "tick"
  /\ Deadline(loop.current + 1) > loop.now
  /\ loop' = [loop EXCEPT !.pc = "wait", !.now = 0]
  /\ UNCHANGED <<time, keyspace, hint, clock, state, writer, stop>>

(* wheel.advance, stripe after stripe, each under its own mutex.           *)
AdvanceStripe(s) ==
  /\ loop.pc = "advance"
  /\ s \in loop.todo
  /\ clock' = [clock EXCEPT ![s] = @ + 1]
  /\ hint' = [h \in Hints |->
                IF /\ hint[h].place = "wheel"
                   /\ StripeOf[hint[h].key] = s
                   /\ hint[h].tick = clock[s] + 1
                THEN [hint[h] EXCEPT !.place = "fired"] ELSE hint[h]]
  /\ loop' = [loop EXCEPT !.todo = @ \ {s},
                          !.pc = IF loop.todo = {s} THEN "process" ELSE "advance"]
  /\ UNCHANGED <<time, keyspace, state, writer, stop>>

OverLimit == MaxHintsPerTick > 0 /\ Cardinality(Fired) > MaxHintsPerTick

(* Mutated: what is over the limit is let go.                              *)
Defer_Dropped(h) ==
  /\ loop.pc = "process" /\ OverLimit /\ h \in Fired
  /\ hint' = [hint EXCEPT ![h] = FreeHint]
  /\ UNCHANGED <<time, keyspace, clock, state, loop, writer, stop>>

(* process first defers what exceeds the limit to the next tick.           *)
Defer(h) ==
  /\ loop.pc = "process" /\ OverLimit /\ h \in Fired
  /\ hint' = [hint EXCEPT ![h] = Added(hint[h].key, clock[StripeOf[hint[h].key]] + 1)]
  /\ UNCHANGED <<time, keyspace, clock, state, loop, writer, stop>>

(* ExpiryOf, in a lock hold of its own.                                    *)
Look(h) ==
  /\ loop.pc = "process" /\ ~OverLimit /\ h \in Fired
  /\ loop' = [loop EXCEPT !.pc = "decide", !.hint = {h},
                          !.seen = expireAt[hint[h].key]]
  /\ UNCHANGED <<time, keyspace, hint, clock, state, writer, stop>>

(* A key that is gone and one without an expiry are the same to process.   *)
Drop(h) ==
  /\ loop.pc = "decide" /\ h \in loop.hint
  /\ loop.seen = 0
  /\ hint' = [hint EXCEPT ![h] = FreeHint]
  /\ loop' = [loop EXCEPT !.pc = "process", !.hint = {}]
  /\ UNCHANGED <<time, keyspace, clock, state, writer, stop>>

(* Mutated: the expiry is not checked again under the write lock.          *)
Expire_Unchecked(h) ==
  LET k == hint[h].key IN
  /\ loop.pc = "decide" /\ h \in loop.hint
  /\ loop.seen # 0 /\ loop.now > loop.seen
  /\ resident' = resident \ {k}
  /\ expireAt' = [expireAt EXCEPT ![k] = 0]
  /\ hint' = [hint EXCEPT ![h] = FreeHint]
  /\ loop' = [loop EXCEPT !.pc = "process", !.hint = {}, !.seen = 0]
  /\ UNCHANGED <<time, clock, state, writer, stop>>

(* Expire checks again under the write lock, against the clock as it is    *)
(* then; if it declines, the hint is dropped all the same.                 *)
Expire(h) ==
  LET k == hint[h].key IN
  /\ loop.pc = "decide" /\ h \in loop.hint
  /\ loop.seen # 0 /\ loop.now > loop.seen
  /\ IF Expired(k)
     THEN resident' = resident \ {k} /\ expireAt' = [expireAt EXCEPT ![k] = 0]
     ELSE UNCHANGED keyspace
  /\ hint' = [hint EXCEPT ![h] = FreeHint]
  /\ loop' = [loop EXCEPT !.pc = "process", !.hint = {}, !.seen = 0]
  /\ UNCHANGED <<time, clock, state, writer, stop>>

(* Not yet: the hint follows the expiry that was read.                     *)
Reinsert(h) ==
  /\ loop.pc = "decide" /\ h \in loop.hint
  /\ loop.seen # 0 /\ loop.now <= loop.seen
  /\ hint' = [hint EXCEPT ![h] = Added(hint[h].key, TickFor(loop.seen))]
  /\ loop' = [loop EXCEPT !.pc = "process", !.hint = {}, !.seen = 0]
  /\ UNCHANGED <<time, keyspace, clock, state, writer, stop>>

(* advanceOne returns; a Stop in the meantime ends the catch-up.           *)
TickDone ==
  /\ loop.pc = "process" /\ Fired = {}
  /\ loop' = [loop EXCEPT !.pc = IF state = "stopped" THEN "done" ELSE "tick"]
  /\ UNCHANGED <<time, keyspace, hint, clock, state, writer, stop>>

Quit ==
  /\ loop.pc = "wait" /\ state = "stopped"
  /\ loop' = [loop EXCEPT !.pc = "done"]
  /\ UNCHANGED <<time, keyspace, hint, clock, state, writer, stop>>

-----------------------------------------------------------------------------
(* Stop *)

(* Only the call that moves the state from running waits for the loop.     *)
Stop(c) ==
  /\ stop[c] \in {"none", "error"}
  /\ IF state = "running"
     THEN state' = "stopping" /\ stop' = [stop EXCEPT ![c] = "closing"]
     ELSE stop' = [stop EXCEPT ![c] = "new"] /\ UNCHANGED state
  /\ UNCHANGED <<time, keyspace, hint, clock, loop, writer>>

CloseQuit(c) ==
  /\ stop[c] = "closing"
  /\ state' = "stopped"
  /\ stop' = [stop EXCEPT ![c] = "waiting"]
  /\ UNCHANGED <<time, keyspace, hint, clock, loop, writer>>

(* "Never started, or already stopped": a second compare-and-swap.         *)
StopNew(c) ==
  /\ stop[c] = "new"
  /\ state' = IF state = "new" THEN "stopped" ELSE state
  /\ stop' = [stop EXCEPT ![c] = "returned"]
  /\ UNCHANGED <<time, keyspace, hint, clock, loop, writer>>

StopReturns(c) ==
  /\ stop[c] = "waiting" /\ loop.pc = "done"
  /\ stop' = [stop EXCEPT ![c] = "returned"]
  /\ UNCHANGED <<time, keyspace, hint, clock, state, loop, writer>>

(* The context may expire first.                                           *)
StopExpires(c) ==
  /\ stop[c] = "waiting" /\ loop.pc # "done"
  /\ stop' = [stop EXCEPT ![c] = "error"]
  /\ UNCHANGED <<time, keyspace, hint, clock, state, loop, writer>>

-----------------------------------------------------------------------------
(* Time passes; beyond LastWrite only once every call has returned.        *)
Pass ==
  /\ time < Horizon
  /\ time >= LastWrite => Busy = {}
  /\ time' = time + 1
  /\ UNCHANGED <<keyspace, hint, clock, state, loop, writer, stop>>

Init ==
  /\ time = 0
  /\ resident = {}
  /\ expireAt = [k \in Keys |-> 0]
  /\ hint = [h \in Hints |-> FreeHint]
  /\ clock = [s \in Stripes |-> 0]
  /\ state = "new"
  /\ loop = [pc |-> "off", current |-> 0, now |-> 0, todo |-> {}, hint |-> {}, seen |-> 0]
  /\ writer = [w \in Writers |-> Idle]
  /\ stop = [c \in Stoppers |-> "none"]

Write(w) == Put(w) \/ Reread(w) \/ Schedule(w)

Loop ==
  \/ Wake \/ Turn \/ CaughtUp \/ TickDone \/ Quit
  \/ \E s \in Stripes : AdvanceStripe(s)
  \/ \E h \in Hints : Defer(h) \/ Look(h) \/ Drop(h) \/ Expire(h) \/ Reinsert(h)

Next ==
  \/ Pass \/ Start \/ Loop
  \/ \E w \in Writers : NewEntry(w) \/ SetTTL(w) \/ Write(w)
  \/ \E k \in Keys : Remove(k)
  \/ \E c \in Stoppers : Stop(c) \/ CloseQuit(c) \/ StopNew(c) \/ StopReturns(c) \/ StopExpires(c)

Spec == Init /\ [][Next]_vars

(* The wall clock runs, and so do the loop's goroutine and the callers'.   *)
Fairness ==
  /\ SF_vars(Pass) /\ WF_vars(Loop)
  /\ \A w \in Writers : WF_vars(Write(w))
FairSpec == Spec /\ Fairness

-----------------------------------------------------------------------------
(* Properties *)

TypeOK ==
  /\ time \in 0..Horizon
  /\ resident \subseteq Keys
  /\ expireAt \in [Keys -> Nat]
  /\ \A k \in Keys \ resident : expireAt[k] = 0
  /\ hint \in [Hints -> [key: Keys, tick: Nat, place: {"free", "wheel", "fired"}]]
  /\ clock \in [Stripes -> 0..LastTick]
  /\ state \in {"new", "running", "stopping", "stopped"}
  /\ loop \in [pc: {"off", "wait", "tick", "advance", "process", "decide", "done"},
               current: 0..LastTick, now: 0..Horizon, todo: SUBSET Stripes,
               hint: SUBSET Hints, seen: Nat]
  /\ writer \in [Writers -> [pc: {"idle", "store", "reread", "schedule"},
                             key: Keys, at: Nat]]
  /\ stop \in [Stoppers -> {"none", "new", "closing", "waiting", "returned", "error"}]

(* The hint h will be looked at no later than one tick after key k expires *)
(* at time "at" - or at the very next tick, if that has passed.            *)
Covers(h, k, at) ==
  /\ hint[h].key = k
  /\ \/ /\ hint[h].place = "wheel"
        /\ hint[h].tick <= Later(TickFor(at), clock[StripeOf[k]] + 1)
     \/ /\ hint[h].place = "fired"
        /\ h \in loop.hint => loop.seen = at

(* Every key with an expiry has a hint on its way, or a writer about to    *)
(* add it: deletions, overwrites and TTL changes never touch the wheel,    *)
(* and the loop works from readings that may be stale, yet no key is       *)
(* forgotten (ttl.go, "Hints, not truth").                                 *)
HintCoverage ==
  Active =>
    \A k \in resident :
      expireAt[k] # 0 =>
        \/ \E h \in Hints : Covers(h, k, expireAt[k])
        \/ \E w \in Writers :
             /\ writer[w].key = k
             /\ \/ writer[w].pc = "reread"
                \/ writer[w].pc = "schedule" /\ writer[w].at = expireAt[k]

(* The loop removes a key only when it has expired, although it decides on *)
(* a reading of the key and of the clock that are both old.                *)
NeverEarly ==
  [][\A k \in Keys : loop.pc = "decide" /\ loop'.pc = "process" /\ k \in resident \ resident'
       => time > expireAt[k] /\ expireAt[k] # 0]_vars

(* Each stripe is used as a store of hints, so a Wheel can take its place. *)
Due(s) ==
  [h \in Hints |->
     IF hint[h].place = "wheel" /\ StripeOf[hint[h].key] = s THEN hint[h].tick ELSE 0]
Stripe(s) == INSTANCE HintStore WITH
  Horizon <- LastTick + 1, clock <- clock[s], due <- Due(s)
StripesAreStores ==
  /\ \A s \in Stripes : Stripe(s)!Init
  /\ [][\A s \in Stripes : [Stripe(s)!Next]_<<clock[s], Due(s)>>]_vars

(* An expired key is eventually removed or overwritten without anybody     *)
(* reading it, as long as the manager runs.                                *)
ExpiredReclaimed ==
  \A k \in Keys : Expired(k) /\ state = "running" ~> ~Expired(k) \/ state # "running"

(* Stop waits for the tick loop to exit (ttl.go, Manager.Stop).            *)
StopWaits ==
  (\E c \in Stoppers : stop[c] = "returned") => loop.pc \in {"off", "done"}

=============================================================================
