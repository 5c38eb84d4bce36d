------------------------------- MODULE Engine -------------------------------
(***************************************************************************)
(* The sharded storage engine: internal/storage/engine.go, shard.go and    *)
(* memory.go, with the victim selection of internal/eviction.              *)
(*                                                                         *)
(* Every goroutine that calls the engine is a process p with a program     *)
(* counter.  A step is what the code does atomically: one hold of a        *)
(* shard's lock, or one atomic load, store or compare-and-swap of the      *)
(* global tracker.  A hold that also moves the tracker is split around     *)
(* that access, because the tracker is shared by all shards.               *)
(*                                                                         *)
(* Deadlines are arbitrary, so "the deadline passes" is a step of the      *)
(* environment that any live entry with a TTL may take at any time.  The   *)
(* statistics counters (gets, hits, ...) are left out.                     *)
(***************************************************************************)
EXTENDS Footprint

CONSTANTS
  Procs,                 \* goroutines that call the engine
  Keys, Shards, ShardOf, \* the key space, the shards and the hash
  Limits,                \* values max_memory may take; 0 is "unlimited"
  AdmitAttempts,         \* admitAttempts
  MaxEvictionsPerWrite,  \* maxEvictionsPerWrite
  SampleSize,            \* eviction_sample_size
  Policies,              \* installable policies: TRUE evicts, FALSE is "none"
  TTLs,                  \* expiries a write may ask for: "none", "live"
  Calls,                 \* which entry points the processes use
  None                   \* "no process"

ASSUME KeysFinite   == IsFiniteSet(Keys) /\ Keys # {}
ASSUME ShardOfType  == ShardOf \in [Keys -> Shards]
ASSUME LimitsType   == Limits \subseteq Nat /\ Limits # {}
ASSUME BoundsType   == /\ AdmitAttempts \in Nat \ {0}
                       /\ MaxEvictionsPerWrite \in Nat \ {0}
                       /\ SampleSize \in Nat \ {0}
ASSUME PoliciesType == Policies \subseteq BOOLEAN
ASSUME TTLsType     == TTLs \subseteq {"none", "live"}
ASSUME NoneType     == None \notin Procs

VARIABLES
  data,     \* data[k]: the entry resident under k
  memory,   \* memory[s]: Shard.memoryUsed
  withTTL,  \* withTTL[s]: Shard.keysWithTTL
  lock,     \* lock[s]: the process inside shard s's write lock
  used,     \* MemoryTracker.usedMemory
  max,      \* MemoryTracker.maxMemory
  evicts,   \* whether the installed policy evicts (lru, lfu, fifo) or not (none)
  closed,   \* ShardedEngine.closed
  hints,    \* keys handed to the expiry scheduler
  pc, call, \* where each process is, and what it was asked to do
  hand,     \* the key and entry a process moves inside its lock hold
  adm,      \* locals of admit and admitAndStore
  sweep     \* shards a Close has still to clear

store == <<data, memory, withTTL>>
config == <<max, evicts>>
locals == <<pc, call, hand, adm, sweep>>
vars == <<store, lock, used, config, closed, hints, locals>>

-----------------------------------------------------------------------------
KeysOf(s) == {k \in Keys : ShardOf[k] = s}
LiveKeys(s) == {k \in KeysOf(s) : Live(data[k])}

-----------------------------------------------------------------------------
(* Calls *)

Ops == {"idle", "set", "setnx", "get", "delete", "expire", "setttl", "close"}
NoCall == [op |-> "idle", key |-> CHOOSE k \in Keys : TRUE, entry |-> Absent]
NoAdm == [attempt |-> 0, limit |-> 0, seen |-> 0, need |-> 0,
          victims |-> {}, evicted |-> 0, cost |-> 0]
NoHand == [key |-> CHOOSE k \in Keys : TRUE, entry |-> Absent]

Home(p) == ShardOf[call[p].key]

Free(s) == lock[s] = None

Goto(p, label) == pc' = [pc EXCEPT ![p] = label]

Return(p) ==
  /\ pc' = [pc EXCEPT ![p] = "idle"]
  /\ call' = [call EXCEPT ![p] = NoCall]
  /\ hand' = [hand EXCEPT ![p] = NoHand]
  /\ adm' = [adm EXCEPT ![p] = NoAdm]

Begin(p, op, k, e, label) ==
  /\ op \in Calls
  /\ ~closed
  /\ pc[p] = "idle"
  /\ call' = [call EXCEPT ![p] = [op |-> op, key |-> k, entry |-> e]]
  /\ Goto(p, label)
  /\ UNCHANGED <<store, lock, used, config, closed, hints, hand, adm, sweep>>

-----------------------------------------------------------------------------
(* The write path: Set and SetNX *)

Write(p) ==
  \E k \in Keys, size \in 1..MaxSize, ttl \in TTLs, op \in {"set", "setnx"} :
    Begin(p, op, k, [size |-> size, ttl |-> ttl], "put")

(* Shard.put takes the write lock; a live resident blocks a SetNX.         *)
PutBlocked(p) ==
  /\ pc[p] = "put"
  /\ Free(Home(p))
  /\ call[p].op = "setnx" /\ Live(data[call[p].key])
  /\ Return(p)
  /\ UNCHANGED <<store, lock, used, config, closed, hints, sweep>>

(* Mutated: the check runs under a read lock and the store takes its own.  *)
PutLock_ReadLock(p) ==
  /\ pc[p] = "put"
  /\ Free(Home(p))
  /\ ~(call[p].op = "setnx" /\ Live(data[call[p].key]))
  /\ hand' = [hand EXCEPT ![p] = [key |-> call[p].key, entry |-> call[p].entry]]
  /\ adm' = [adm EXCEPT ![p].limit = max]
  /\ Goto(p, "reserve")
  /\ UNCHANGED <<store, lock, used, config, closed, hints, call, sweep>>

PutLock(p) ==
  /\ pc[p] = "put"
  /\ Free(Home(p))
  /\ ~(call[p].op = "setnx" /\ Live(data[call[p].key]))
  /\ lock' = [lock EXCEPT ![Home(p)] = p]
  /\ hand' = [hand EXCEPT ![p] = [key |-> call[p].key, entry |-> call[p].entry]]
  /\ adm' = [adm EXCEPT ![p].limit = max]
  /\ Goto(p, "reserve")
  /\ UNCHANGED <<store, used, config, closed, hints, call, sweep>>

(* MemoryTracker.Reserve, its compare-and-swap: check and commit in one.   *)
Refund(p) == IF data[hand[p].key].size > used THEN used ELSE data[hand[p].key].size
Reserved(p) == (used - Refund(p)) + hand[p].entry.size
(* Mutated: the limit is tested before the new entry is added.             *)
Admissible_BeforeAdding(p) ==
  adm[p].limit = 0 \/ (used - Refund(p)) < adm[p].limit

Admissible(p) == adm[p].limit = 0 \/ Reserved(p) <= adm[p].limit

Reserve(p) ==
  /\ pc[p] = "reserve"
  /\ Admissible(p)
  /\ used' = Reserved(p)
  /\ adm' = [adm EXCEPT ![p].limit = 0]
  /\ Goto(p, "store")
  /\ UNCHANGED <<store, lock, config, closed, hints, call, hand, sweep>>

(* Refused: put returns ErrOutOfMemory, which releases the lock.           *)
ReserveRefused(p) ==
  /\ pc[p] = "reserve"
  /\ ~Admissible(p)
  /\ lock' = [lock EXCEPT ![Home(p)] = None]
  /\ hand' = [hand EXCEPT ![p] = NoHand]
  /\ adm' = [adm EXCEPT ![p].limit = 0]
  /\ Goto(p, "admit")
  /\ UNCHANGED <<store, used, config, closed, hints, call, sweep>>

(* Mutated: the displaced entry's accounting is not released.              *)
Store_NoRelease(p) ==
  LET k == hand[p].key
      s == ShardOf[k]
      e == hand[p].entry
  IN  /\ pc[p] = "store"
      /\ data' = [data EXCEPT ![k] = e]
      /\ memory' = [memory EXCEPT ![s] = @ + e.size]
      /\ withTTL' = [withTTL EXCEPT ![s] = @ + TTLCount(e)]
      /\ lock' = [lock EXCEPT ![s] = None]
      /\ hand' = [hand EXCEPT ![p] = NoHand]
      /\ Goto(p, "schedule")
      /\ UNCHANGED <<used, config, closed, hints, call, adm, sweep>>

(* release what is displaced, store the entry, unlock.                     *)
Store(p) ==
  LET k == hand[p].key
      s == ShardOf[k]
      e == hand[p].entry
  IN  /\ pc[p] = "store"
      /\ data' = [data EXCEPT ![k] = e]
      /\ memory' = [memory EXCEPT ![s] = (@ - data[k].size) + e.size]
      /\ withTTL' = [withTTL EXCEPT ![s] = (@ - TTLCount(data[k])) + TTLCount(e)]
      /\ lock' = [lock EXCEPT ![s] = None]
      /\ hand' = [hand EXCEPT ![p] = NoHand]
      /\ Goto(p, "schedule")
      /\ UNCHANGED <<used, config, closed, hints, call, adm, sweep>>

(* ShardedEngine.schedule, after the lock is gone: no expiry, no hint.     *)
Schedule(p) ==
  /\ pc[p] = "schedule"
  /\ hints' = IF HasTTL(call[p].entry) THEN hints \union {call[p].key} ELSE hints
  /\ Return(p)
  /\ UNCHANGED <<store, lock, used, config, closed, sweep>>

-----------------------------------------------------------------------------
(* Admission control: admit, SelectVictims and evict *)

(* admitAndStore's loop: another attempt, or ErrOutOfMemory.               *)
Retry(p) ==
  IF adm[p].attempt + 1 < AdmitAttempts
  THEN /\ adm' = [adm EXCEPT ![p] = [NoAdm EXCEPT !.attempt = adm[p].attempt + 1,
                                                  !.cost = adm[p].cost]]
       /\ Goto(p, "put")
       /\ UNCHANGED <<call, hand>>
  ELSE Return(p)

AdmitUnlimited(p) ==
  /\ pc[p] = "admit"
  /\ max = 0
  /\ Retry(p)
  /\ UNCHANGED <<store, lock, used, config, closed, hints, sweep>>

AdmitTooLarge(p) ==
  /\ pc[p] = "admit"
  /\ max # 0 /\ call[p].entry.size > max
  /\ Return(p)
  /\ UNCHANGED <<store, lock, used, config, closed, hints, sweep>>

AdmitLimit(p) ==
  /\ pc[p] = "admit"
  /\ max # 0 /\ call[p].entry.size <= max
  /\ adm' = [adm EXCEPT ![p].limit = max, ![p].evicted = 0]
  /\ Goto(p, "measure")
  /\ UNCHANGED <<store, lock, used, config, closed, hints, call, hand, sweep>>

Measure(p) ==
  /\ pc[p] = "measure"
  /\ adm' = [adm EXCEPT ![p].seen = used]
  /\ Goto(p, "credit")
  /\ UNCHANGED <<store, lock, used, config, closed, hints, call, hand, sweep>>

(* residentSize is read after used, under another hold: the two may        *)
(* belong to different moments.                                            *)
Credit(p) == data[call[p].key].size
RoomMade(p) == adm[p].seen + call[p].entry.size <= adm[p].limit + Credit(p)

AdmitRoom(p) ==
  /\ pc[p] = "credit"
  /\ Free(Home(p))
  /\ RoomMade(p)
  /\ Retry(p)
  /\ UNCHANGED <<store, lock, used, config, closed, hints, sweep>>

(* Mutated: the cap lets one more round through.                           *)
Capped_OffByOne(p) == adm[p].evicted > MaxEvictionsPerWrite

Capped(p) == adm[p].evicted >= MaxEvictionsPerWrite

AdmitCapped(p) ==
  /\ pc[p] = "credit"
  /\ Free(Home(p))
  /\ ~RoomMade(p) /\ Capped(p)
  /\ Return(p)
  /\ UNCHANGED <<store, lock, used, config, closed, hints, sweep>>

AdmitShort(p) ==
  /\ pc[p] = "credit"
  /\ Free(Home(p))
  /\ ~RoomMade(p) /\ ~Capped(p)
  /\ adm' = [adm EXCEPT ![p].seen = 0,
                        ![p].need = (adm[p].seen + call[p].entry.size)
                                    - (Credit(p) + adm[p].limit)]
  /\ Goto(p, "sample")
  /\ UNCHANGED <<store, lock, used, config, closed, hints, call, hand, sweep>>

(* A sample of the live entries, and the shortest prefix of some ranking   *)
(* of it that frees what is needed (the whole sample if none does).        *)
Samples(s) ==
  {S \in SUBSET LiveKeys(s) :
     \/ Cardinality(S) = SampleSize
     \/ S = LiveKeys(s) /\ Cardinality(S) <= SampleSize}

IsVictims(V, S, need) ==
  /\ V \subseteq S
  /\ V = S \/ Bytes(data, V) >= need
  /\ \E last \in V : Bytes(data, V \ {last}) < need

SelectVictims(p) ==
  /\ pc[p] = "sample"
  /\ evicts
  /\ Free(Home(p))
  /\ \E S \in Samples(Home(p)) : \E V \in SUBSET S :
       /\ IsVictims(V, S, adm[p].need)
       /\ adm' = [adm EXCEPT ![p].victims = V, ![p].need = 0]
  /\ Goto(p, "evict")
  /\ UNCHANGED <<store, lock, used, config, closed, hints, call, hand, sweep>>

NoVictims(p) ==
  /\ pc[p] = "sample"
  /\ ~evicts \/ (Free(Home(p)) /\ LiveKeys(Home(p)) = {})
  /\ Return(p)
  /\ UNCHANGED <<store, lock, used, config, closed, hints, sweep>>

(* Mutated: a victim that is already gone does not count.                  *)
Evicted_CountFound(p, k, n) ==
  LET rest == adm[p].victims \ {k}
      count == adm[p].evicted + n
      done == rest = {} \/ count >= MaxEvictionsPerWrite
  IN  [adm[p] EXCEPT !.evicted = count, !.cost = @ + n,
                     !.victims = IF done THEN {} ELSE rest]

(* After each victim: the next one, or measure again.                      *)
Evicted(p, k, n) ==
  LET rest == adm[p].victims \ {k}
      count == adm[p].evicted + 1
      done == rest = {} \/ count >= MaxEvictionsPerWrite
  IN  [adm[p] EXCEPT !.evicted = count, !.cost = @ + n,
                     !.victims = IF done THEN {} ELSE rest]

(* Counted whether or not the key was still there.                         *)
EvictMissing(p) ==
  /\ pc[p] = "evict"
  /\ Free(Home(p))
  /\ \E k \in adm[p].victims :
       /\ ~Present(data[k])
       /\ adm' = [adm EXCEPT ![p] = Evicted(p, k, 0)]
       /\ Goto(p, IF Evicted(p, k, 0).victims = {} THEN "measure" ELSE "evict")
  /\ UNCHANGED <<store, lock, used, config, closed, hints, call, hand, sweep>>

(* removeLocked, its first half: drop the entry and the shard's accounting *)
(* of it.  The second half, Settle, takes it off the tracker.              *)
Remove(p, k) ==
  LET s == ShardOf[k] IN
  /\ Free(s)
  /\ Present(data[k])
  /\ data' = [data EXCEPT ![k] = Absent]
  /\ memory' = [memory EXCEPT ![s] = @ - data[k].size]
  /\ withTTL' = [withTTL EXCEPT ![s] = @ - TTLCount(data[k])]
  /\ lock' = [lock EXCEPT ![s] = p]
  /\ hand' = [hand EXCEPT ![p] = [key |-> k, entry |-> data[k]]]
  /\ Goto(p, "settle")

Evict(p) ==
  /\ pc[p] = "evict"
  /\ \E k \in adm[p].victims :
       /\ Remove(p, k)
       /\ adm' = [adm EXCEPT ![p] = Evicted(p, k, 1)]
  /\ UNCHANGED <<used, config, closed, hints, call, sweep>>

(* MemoryTracker.Sub never goes below zero.                                *)
Less(n) == IF n > used THEN 0 ELSE used - n

Settle(p) ==
  LET s == ShardOf[hand[p].key] IN
  /\ pc[p] = "settle"
  /\ used' = Less(hand[p].entry.size)
  /\ lock' = [lock EXCEPT ![s] = None]
  /\ IF call[p].op \in {"set", "setnx"}
     THEN /\ hand' = [hand EXCEPT ![p] = NoHand]
          /\ Goto(p, IF adm[p].victims = {} THEN "measure" ELSE "evict")
          /\ UNCHANGED <<call, adm>>
     ELSE Return(p)
  /\ UNCHANGED <<store, config, closed, hints, sweep>>

-----------------------------------------------------------------------------
(* Delete, expiration, TTL changes *)

(* Entry points; each then acts under its own lock hold.                   *)
Start(p) ==
  \E k \in Keys :
    \/ Begin(p, "delete", k, Absent, "remove")
    \/ Begin(p, "expire", k, Absent, "remove")
    \/ Begin(p, "get", k, Absent, "read")
    \/ \E ttl \in TTLs :
         Begin(p, "setttl", k, [size |-> 1, ttl |-> ttl], "setttl")

(* Shard.Get: a hit, or a miss; an expired entry is reclaimed on the way.  *)
Read(p) ==
  /\ pc[p] = "read"
  /\ Free(Home(p))
  /\ IF IsExpired(data[call[p].key])
     THEN Goto(p, "remove") /\ UNCHANGED <<call, hand, adm>>
     ELSE Return(p)
  /\ UNCHANGED <<store, lock, used, config, closed, hints, sweep>>

(* Shard.Delete takes any resident entry; Shard.expire, behind the active  *)
(* and the lazy route alike, only one that is expired under the lock.      *)
(* Mutated: the finding of the earlier read is trusted.                    *)
Removable_Unchecked(p) == Present(data[call[p].key])

Removable(p) ==
  /\ Present(data[call[p].key])
  /\ call[p].op # "delete" => IsExpired(data[call[p].key])

Take(p) ==
  /\ pc[p] = "remove"
  /\ Removable(p)
  /\ Remove(p, call[p].key)
  /\ UNCHANGED <<used, config, closed, hints, call, adm, sweep>>

NothingToTake(p) ==
  /\ pc[p] = "remove"
  /\ Free(Home(p))
  /\ ~Removable(p)
  /\ Return(p)
  /\ UNCHANGED <<store, lock, used, config, closed, hints, sweep>>

(* Mutated: the expiry that replaces the old one is not counted.           *)
SetTTL_NotCounted(p) ==
  LET k == call[p].key
      t == call[p].entry.ttl
  IN  /\ pc[p] = "setttl"
      /\ Free(Home(p))
      /\ Live(data[k])
      /\ data' = [data EXCEPT ![k].ttl = t]
      /\ withTTL' = [withTTL EXCEPT ![Home(p)] = @ - TTLCount(data[k])]
      /\ Goto(p, "reread")
      /\ UNCHANGED <<memory, lock, used, config, closed, hints, call, hand, adm, sweep>>

(* Shard.SetTTL: in place, and only on a live entry.                       *)
SetTTL(p) ==
  LET k == call[p].key
      t == call[p].entry.ttl
  IN  /\ pc[p] = "setttl"
      /\ Free(Home(p))
      /\ Live(data[k])
      /\ data' = [data EXCEPT ![k].ttl = t]
      /\ withTTL' = [withTTL EXCEPT ![Home(p)] =
                       (@ - TTLCount(data[k])) + (IF t = "live" THEN 1 ELSE 0)]
      /\ Goto(p, "reread")
      /\ UNCHANGED <<memory, lock, used, config, closed, hints, call, hand, adm, sweep>>

SetTTLMissing(p) ==
  /\ pc[p] = "setttl"
  /\ Free(Home(p))
  /\ ~Live(data[call[p].key])
  /\ Return(p)
  /\ UNCHANGED <<store, lock, used, config, closed, hints, sweep>>

(* expiryOf, in another hold: whatever is resident by now is scheduled.    *)
Reread(p) ==
  LET e == data[call[p].key] IN
  /\ pc[p] = "reread"
  /\ Free(Home(p))
  /\ IF Present(e)
     THEN /\ call' = [call EXCEPT ![p].entry = e]
          /\ Goto(p, "schedule")
          /\ UNCHANGED <<hand, adm>>
     ELSE Return(p)
  /\ UNCHANGED <<store, lock, used, config, closed, hints, sweep>>

-----------------------------------------------------------------------------
(* Close, reconfiguration, time *)

Close(p) ==
  /\ "close" \in Calls
  /\ ~closed
  /\ pc[p] = "idle"
  /\ closed' = TRUE
  /\ call' = [call EXCEPT ![p].op = "close"]
  /\ sweep' = [sweep EXCEPT ![p] = Shards]
  /\ Goto(p, "clear")
  /\ UNCHANGED <<store, lock, used, config, hints, hand, adm>>

(* Mutated: the shard's bytes are not given back.                          *)
ClearTracker_Kept(p) ==
  \E s \in sweep[p] :
    /\ pc[p] = "clear"
    /\ Free(s)
    /\ lock' = [lock EXCEPT ![s] = p]
    /\ Goto(p, "reset")
    /\ UNCHANGED <<store, used, config, closed, hints, call, hand, adm, sweep>>

(* Shard.Clear, one shard after another: the tracker first, then the map.  *)
ClearTracker(p) ==
  \E s \in sweep[p] :
    /\ pc[p] = "clear"
    /\ Free(s)
    /\ lock' = [lock EXCEPT ![s] = p]
    /\ used' = Less(memory[s])
    /\ Goto(p, "reset")
    /\ UNCHANGED <<store, config, closed, hints, call, hand, adm, sweep>>

ClearShard(p) ==
  \E s \in sweep[p] :
    /\ pc[p] = "reset"
    /\ lock[s] = p
    /\ data' = [k \in Keys |-> IF ShardOf[k] = s THEN Absent ELSE data[k]]
    /\ memory' = [memory EXCEPT ![s] = 0]
    /\ withTTL' = [withTTL EXCEPT ![s] = 0]
    /\ lock' = [lock EXCEPT ![s] = None]
    /\ sweep' = [sweep EXCEPT ![p] = @ \ {s}]
    /\ Goto(p, "clear")
    /\ UNCHANGED <<used, config, closed, hints, call, hand, adm>>

Cleared(p) ==
  /\ pc[p] = "clear"
  /\ sweep[p] = {}
  /\ Return(p)
  /\ UNCHANGED <<store, lock, used, config, closed, hints, sweep>>

(* A call on a closed engine returns at once.                              *)
Refused(p) ==
  /\ closed
  /\ pc[p] = "idle"
  /\ UNCHANGED vars

(* Hot reload: SetMaxMemory and the policy, each on its own.               *)
SetMaxMemory ==
  /\ max' \in Limits \ {max}
  /\ UNCHANGED <<store, lock, used, evicts, closed, hints, locals>>

SetPolicy ==
  /\ evicts' \in Policies \ {evicts}
  /\ UNCHANGED <<store, lock, used, max, closed, hints, locals>>

(* A deadline passes, of a resident entry or of one still on its way in.   *)
Lapse(k) ==
  /\ data[k].ttl = "live"
  /\ data' = [data EXCEPT ![k].ttl = "expired"]
  /\ UNCHANGED <<memory, withTTL, lock, used, config, closed, hints, locals>>

LapseIncoming(p) ==
  /\ pc[p] = "put"
  /\ call[p].entry.ttl = "live"
  /\ call' = [call EXCEPT ![p].entry.ttl = "expired"]
  /\ UNCHANGED <<store, lock, used, config, closed, hints, pc, hand, adm, sweep>>

-----------------------------------------------------------------------------
(* The specification *)

Init ==
  /\ data = [k \in Keys |-> Absent]
  /\ memory = [s \in Shards |-> 0]
  /\ withTTL = [s \in Shards |-> 0]
  /\ lock = [s \in Shards |-> None]
  /\ used = 0
  /\ max \in Limits
  /\ evicts \in Policies
  /\ closed = FALSE
  /\ hints = {}
  /\ pc = [p \in Procs |-> "idle"]
  /\ call = [p \in Procs |-> NoCall]
  /\ hand = [p \in Procs |-> NoHand]
  /\ adm = [p \in Procs |-> NoAdm]
  /\ sweep = [p \in Procs |-> {}]

(* A call that has begun, up to its return.                                *)
Advance(p) ==
  \/ PutBlocked(p) \/ PutLock(p) \/ Reserve(p) \/ ReserveRefused(p) \/ Store(p)
  \/ Schedule(p)
  \/ AdmitUnlimited(p) \/ AdmitTooLarge(p) \/ AdmitLimit(p) \/ Measure(p)
  \/ AdmitRoom(p) \/ AdmitCapped(p) \/ AdmitShort(p)
  \/ SelectVictims(p) \/ NoVictims(p) \/ EvictMissing(p) \/ Evict(p) \/ Settle(p)
  \/ Read(p) \/ Take(p) \/ NothingToTake(p)
  \/ SetTTL(p) \/ SetTTLMissing(p) \/ Reread(p)
  \/ ClearTracker(p) \/ ClearShard(p) \/ Cleared(p)

Request(p) == Write(p) \/ Start(p) \/ Close(p) \/ Refused(p)

Environment ==
  \/ SetMaxMemory \/ SetPolicy
  \/ \E k \in Keys : Lapse(k)
  \/ \E p \in Procs : LapseIncoming(p)

Next == Environment \/ \E p \in Procs : Request(p) \/ Advance(p)

Spec == Init /\ [][Next]_vars

-----------------------------------------------------------------------------
(* Properties *)

Labels == {"idle", "put", "reserve", "store", "schedule", "admit", "measure",
           "credit", "sample", "evict", "settle", "read", "remove", "setttl",
           "reread", "clear", "reset"}

Admission == [attempt: Nat, limit: Nat, seen: Nat, need: Nat,
              victims: SUBSET Keys, evicted: Nat, cost: Nat]

(* Every variable holds a value of its kind; in particular no counter is   *)
(* ever negative.                                                          *)
TypeOK ==
  /\ data \in [Keys -> Slot]
  /\ memory \in [Shards -> Nat]
  /\ withTTL \in [Shards -> Nat]
  /\ lock \in [Shards -> Procs \union {None}]
  /\ used \in Nat
  /\ max \in Limits
  /\ evicts \in BOOLEAN
  /\ closed \in BOOLEAN
  /\ hints \subseteq Keys
  /\ pc \in [Procs -> Labels]
  /\ call \in [Procs -> [op: Ops, key: Keys, entry: Slot]]
  /\ hand \in [Procs -> [key: Keys, entry: Slot]]
  /\ adm \in [Procs -> Admission]
  /\ sweep \in [Procs -> SUBSET Shards]

(* What the store holds once every lock hold in progress has completed the *)
(* half it owes: a reserved entry counts as stored, an entry whose bytes   *)
(* are still charged as resident.                                          *)
Committed ==
  [k \in Keys |->
     LET p == lock[ShardOf[k]] IN
     IF p = None THEN data[k]
     ELSE IF pc[p] \in {"store", "settle"} /\ hand[p].key = k THEN hand[p].entry
     ELSE IF pc[p] = "reset" THEN Absent
     ELSE data[k]]

(* The global tracker is exact at every instant, up to the lock holds that *)
(* are half way (shard.go: "the global tracker and the shard counter move  *)
(* by the same amount or not at all").                                     *)
AccountingExact == used = Bytes(Committed, Keys)

(* Each shard's own counters are those of the entries it holds: its bytes, *)
(* and the number of entries carrying an expiry.                           *)
ShardExact ==
  \A s \in Shards :
    /\ memory[s] = Bytes(data, KeysOf(s))
    /\ withTTL[s] = Cardinality(Expiring(data, KeysOf(s)))

(* max_memory is a hard limit: whatever the interleaving of writers on     *)
(* different shards, usage stays within some limit that was configured.    *)
HardLimit == \E l \in Limits : l = 0 \/ used <= l

(* The clamps in Reserve and Sub are defensive: nobody ever gives back     *)
(* more than the tracker counts.                                           *)
ClampsNeverBite ==
  \A p \in Procs :
    /\ pc[p] = "reserve" => data[hand[p].key].size <= used
    /\ pc[p] = "settle" => hand[p].entry.size <= used
    /\ pc[p] = "clear" => \A s \in sweep[p] : Free(s) => memory[s] <= used

(* One write evicts at most maxEvictionsPerWrite entries in each of its at *)
(* most admitAttempts passes.                                              *)
EvictionBounded ==
  \A p \in Procs : /\ adm[p].attempt < AdmitAttempts
                   /\ adm[p].cost <= (adm[p].attempt + 1) * MaxEvictionsPerWrite

(* A SetNX never replaces a live entry, though it decides under one step   *)
(* and stores in a later one.                                              *)
SetNXNeverReplaces ==
  [][\A p \in Procs :
       pc[p] = "store" /\ pc'[p] = "schedule" /\ call[p].op = "setnx"
         => ~Live(data[call[p].key])]_vars

(* Reclaiming, active or lazy, never destroys a live entry: it may have    *)
(* been found expired, overwritten, and only then reclaimed.               *)
LiveNeverReclaimed ==
  [][\A p \in Procs : \A k \in Keys :
       pc'[p] = "settle" /\ pc[p] # "settle" /\ call[p].op \in {"get", "expire"}
         => (data'[k] # data[k] => IsExpired(data[k]))]_vars

(* A SetNX that a live key blocks has cost no victim (engine.go, comment   *)
(* of admitAndStore; shard.go, comment of SetNX).                          *)
BlockedSetNXCostsNothing ==
  [][\A p \in Procs :
       pc[p] = "put" /\ pc'[p] = "idle" => adm[p].cost = 0]_vars

(* Every call returns: the lock holds end, and admission gives up.         *)
Fairness ==
  \A p \in Procs : SF_vars(Advance(p))
FairSpec == Spec /\ Fairness
CallsReturn == \A p \in Procs : pc[p] # "idle" ~> pc[p] = "idle"

(* The engine implements the bounded cache: a write takes effect at the    *)
(* compare-and-swap that reserves its bytes, a removal at the one that     *)
(* gives them back.                                                        *)
Cache == INSTANCE BoundedCache WITH content <- Committed, charged <- used
ImplementsBoundedCache == Cache!Spec

=============================================================================
