------------------------------ MODULE Commands ------------------------------
(* The commands on the keyspace as clients see them                        *)
(* (internal/server/commands.go), down to the shard and the entry          *)
(* (internal/storage: engine.go, shard.go, entry.go): every lock that is   *)
(* taken and every reading of the clock is a step, and a reader keeps the  *)
(* pointer to the entry it found after it has let go of the lock.          *)
(*                                                                         *)
(* Memory is left out (see Engine): a write may be refused and an entry    *)
(* evicted at any time.                                                    *)
EXTENDS Glob, FiniteSets

CONSTANTS
  Keys,        \* keys, as sequences of bytes
  Values,      \* values
  Sessions,    \* connections
  Shards, ShardOf,
  Lazy,        \* ttl.lazy_expiration
  Uses,        \* the commands each session issues, as pairs
  Patterns,    \* the patterns of KEYS
  Amounts,     \* the numbers given to EX and to EXPIRE
  Ids,         \* a bound of the model: entries that exist at a time
  MaxNow,      \* a bound of the model: how far the clock, an int64 too, runs
  MaxInt       \* the largest integer, math.MaxInt64

ASSUME KeysAssumption == IsFiniteSet(Keys) /\ \A k \in Keys : k \in Seq(0..255)
ASSUME ShardsAssumption == Shards \in Nat \ {0} /\ ShardOf \in [Keys -> 1..Shards]
ASSUME IdsAssumption == "none" \notin Ids
ASSUME AmountsAssumption == Amounts \subseteq Int /\ MaxInt \in Nat /\ MaxNow \in 1..MaxInt

VARIABLES
  now,     \* the clock
  data,    \* the shards' maps: the entry under each key
  ses,     \* what each session is doing
  answer,  \* the reply given in the last step
  sees     \* history: what has been live since each session's command began

commandsVars == <<now, data, ses, answer, sees>>

None == "none"
Absent == [id |-> None, value |-> None, exp |-> 0]
Quiet == [at |-> "idle", name |-> None, key |-> <<>>, ptr |-> Absent, value |-> None,
          ttl |-> 0, shard |-> 1, found |-> {}, n |-> 0]

Nothing == [by |-> None, name |-> None, key |-> <<>>, found |-> {}, n |-> 0]

-----------------------------------------------------------------------------
(* The entry: whoever points to it has its id.                             *)

Wrap(x) == IF x > MaxInt THEN x - 2 * (MaxInt + 1) ELSE x
Deadline(ttl) == IF ttl > 0 THEN Wrap(now + ttl) ELSE 0
IsExpired(e) == e.exp # 0 /\ now > e.exp
Remaining(e) == IF e.exp = 0 THEN -1 ELSE IF e.exp <= now THEN 0 ELSE e.exp - now

Live(k) == data[k] # Absent /\ ~IsExpired(data[k])
Without(k) == [data EXCEPT ![k] = Absent]

(* expiryFor: the check that the deadline will fit.                        *)
ExpiryFits(amount) == amount > 0 /\ amount <= MaxInt - now

InUse == {data[k].id : k \in Keys} \union {ses[s].ptr.id : s \in Sessions}

-----------------------------------------------------------------------------
(* Sessions                                                                *)

At(s, place) == ses[s].at = place
Change(s, to) == ses' = [ses EXCEPT ![s] = to] /\ answer' = Nothing
MoveTo(s, place) == Change(s, [ses[s] EXCEPT !.at = place])
ReplyTo(s, found, n) ==
  [by |-> s, name |-> ses[s].name, key |-> ses[s].key, found |-> found, n |-> n]
Done(s, found, n) ==
  /\ ses' = [ses EXCEPT ![s] = Quiet]
  /\ answer' = ReplyTo(s, found, n)

Begin(s, name, at, key) ==
  /\ At(s, "idle") /\ <<s, name>> \in Uses
  /\ Change(s, [Quiet EXCEPT !.at = at, !.name = name, !.key = key])
  /\ UNCHANGED <<now, data>>
BeginWith(s, name, at, key, value, ttl) ==
  /\ At(s, "idle") /\ <<s, name>> \in Uses
  /\ Change(s, [Quiet EXCEPT !.at = at, !.name = name, !.key = key,
                             !.value = value, !.ttl = ttl])
  /\ UNCHANGED <<now, data>>

(* GET, TTL and EXISTS look the key up under the lock, and use what they   *)
(* found after they have let it go.                                        *)
Look(s, k, name) == Begin(s, name, "lookup", k)

Lookup(s) ==
  /\ At(s, "lookup")
  /\ LET e == data[ses[s].key]
     IN  IF e = Absent THEN Done(s, {}, 0)
         ELSE Change(s, [ses[s] EXCEPT !.at = "check", !.ptr = e])
  /\ UNCHANGED <<now, data>>

(* Mutated: an entry that was there is an entry that is there.             *)
CheckExpiry_Unchecked(s) ==
  /\ At(s, "check")
  /\ IF ses[s].name = "TTL" THEN MoveTo(s, "remaining")
     ELSE Done(s, {ses[s].ptr.value}, 1)
  /\ UNCHANGED <<now, data>>

CheckExpiry(s) ==
  /\ At(s, "check")
  /\ LET e == ses[s].ptr
     IN  IF IsExpired(e)
         THEN IF ses[s].name = "GET" /\ Lazy THEN MoveTo(s, "reclaim") ELSE Done(s, {}, 0)
         ELSE IF ses[s].name = "TTL" THEN MoveTo(s, "remaining")
         ELSE Done(s, {e.value}, 1)
  /\ UNCHANGED <<now, data>>

(* Shard.expire: whatever holds the key by then, if it is expired.         *)
LazyExpire(s) ==
  /\ At(s, "reclaim")
  /\ LET k == ses[s].key
     IN  data' = IF Live(k) THEN data ELSE Without(k)
  /\ Done(s, {}, 0)
  /\ UNCHANGED now

(* A key whose time ran out between two readings of the clock answers as   *)
(* gone.                                                                   *)
ReadTTL(s) ==
  /\ At(s, "remaining")
  /\ LET left == Remaining(ses[s].ptr)
     IN  Done(s, {}, IF left = 0 THEN -2 ELSE left)
  /\ UNCHANGED <<now, data>>

(* SET and SETNX: the expiry is checked, the entry is made, and it is put  *)
(* under the key, or refused for lack of memory.                           *)
Write(s, k, v, amount) ==
  \/ /\ amount = 0
     /\ \E name \in {"SET", "SETNX"} :
          BeginWith(s, name, "new", k, v, 0)
  \/ /\ amount # 0 /\ ExpiryFits(amount)
     /\ BeginWith(s, "SET", "new", k, v, amount)

NewEntry(s) ==
  /\ At(s, "new")
  /\ \E i \in Ids \ InUse :
       Change(s, [ses[s] EXCEPT !.at = "put",
                    !.ptr = [id |-> i, value |-> ses[s].value, exp |-> Deadline(ses[s].ttl)]])
  /\ UNCHANGED <<now, data>>

Put(s) ==
  /\ At(s, "put")
  /\ LET taken == ses[s].name = "SETNX" /\ Live(ses[s].key)
     IN  /\ data' = IF taken THEN data ELSE [data EXCEPT ![ses[s].key] = ses[s].ptr]
         /\ Done(s, {}, IF taken THEN 0 ELSE 1)
  /\ UNCHANGED now

PutRefused(s) ==
  /\ At(s, "put")
  /\ Done(s, {}, -1)
  /\ UNCHANGED <<now, data>>

-----------------------------------------------------------------------------
(* DEL and EXPIRE                                                          *)

(* Shard.Delete takes what is there, expired or not.                       *)
Del(s, k) == Begin(s, "DEL", "delete", k)

Delete(s) ==
  /\ At(s, "delete")
  /\ LET k == ses[s].key
     IN  /\ data' = Without(k)
         /\ Done(s, {}, IF data[k] = Absent THEN 0 ELSE 1)
  /\ UNCHANGED now

(* Mutated: only what cannot be stored is turned away.                     *)
Expire_NoDelete(s, k, amount) ==
  /\ amount <= MaxInt - now
  /\ BeginWith(s, "EXPIRE", "set ttl", k, None, amount)

(* A number of seconds that is not positive deletes; one whose deadline    *)
(* would not fit is refused.                                               *)
Expire(s, k, amount) ==
  \/ /\ amount <= 0
     /\ Begin(s, "EXPIRE", "delete", k)
  \/ /\ ExpiryFits(amount)
     /\ BeginWith(s, "EXPIRE", "set ttl", k, None, amount)

(* UpdateExpiry writes to the entry, under the lock: whoever holds it sees *)
(* the new deadline.                                                       *)
SetTTL(s) ==
  /\ At(s, "set ttl")
  /\ LET k == ses[s].key
         e == [data[k] EXCEPT !.exp = Deadline(ses[s].ttl)]
     IN  \/ /\ Live(k)
            /\ data' = [data EXCEPT ![k] = e]
            /\ answer' = ReplyTo(s, {}, 1)
            /\ ses' = [t \in Sessions |->
                         IF t = s THEN Quiet
                         ELSE IF ses[t].ptr.id = e.id THEN [ses[t] EXCEPT !.ptr = e]
                         ELSE ses[t]]
         \/ ~Live(k) /\ data' = data /\ Done(s, {}, 0)
  /\ UNCHANGED now

-----------------------------------------------------------------------------
(* KEYS and DBSIZE walk the shards, one lock at a time                     *)

AskKeys(s, p) == Begin(s, "KEYS", "walk", p)
AskSize(s) == Begin(s, "DBSIZE", "walk", <<>>)

Selects(p, k) == MatchesEveryKey(p) \/ MatchGlob(p, k)

InShard(i) == {k \in Keys : ShardOf[k] = i /\ data[k] # Absent}

(* Mutated: the last shard is left out.                                    *)
LastShard_OffByOne(i) == i + 1 >= Shards

LastShard(i) == i = Shards

Walk(s) ==
  /\ At(s, "walk")
  /\ LET i == ses[s].shard
         here == {k \in InShard(i) : Live(k) /\ Selects(ses[s].key, k)}
         found == IF ses[s].name = "KEYS" THEN ses[s].found \union here ELSE {}
         n == ses[s].n + (IF ses[s].name = "KEYS" THEN Cardinality(here)
                          ELSE Cardinality(InShard(i)))
     IN  IF LastShard(i) THEN Done(s, found, n)
         ELSE Change(s, [ses[s] EXCEPT !.shard = i + 1, !.found = found, !.n = n])
  /\ UNCHANGED <<now, data>>

-----------------------------------------------------------------------------
(* The clock, the TTL manager, eviction                                    *)

Tick ==
  /\ now < MaxNow
  /\ now' = now + 1
  /\ answer' = Nothing
  /\ UNCHANGED <<data, ses>>

(* The TTL manager, through Shard.expire, and eviction.                    *)
Reclaim(k) ==
  /\ data[k] # Absent /\ IsExpired(data[k])
  /\ data' = Without(k)
  /\ answer' = Nothing
  /\ UNCHANGED <<now, ses>>

Evict(k) ==
  /\ data[k] # Absent
  /\ data' = Without(k)
  /\ answer' = Nothing
  /\ UNCHANGED <<now, ses>>

Session(s) ==
  \/ (\E k \in Keys, name \in {"GET", "TTL", "EXISTS"} : Look(s, k, name))
  \/ Lookup(s) \/ CheckExpiry(s) \/ LazyExpire(s) \/ ReadTTL(s)
  \/ (\E k \in Keys, v \in Values, amount \in Amounts \union {0} : Write(s, k, v, amount))
  \/ NewEntry(s) \/ Put(s) \/ PutRefused(s)
  \/ (\E k \in Keys : Del(s, k)) \/ Delete(s)
  \/ (\E k \in Keys, amount \in Amounts : Expire(s, k, amount)) \/ SetTTL(s)
  \/ (\E p \in Patterns : AskKeys(s, p)) \/ AskSize(s) \/ Walk(s)

System ==
  \/ (\E s \in Sessions : Session(s))
  \/ (\E k \in Keys : Reclaim(k) \/ Evict(k))
  \/ Tick

(* What a client may take for granted: the keys that have been live ever   *)
(* since its command began, and the values that keys have had meanwhile.   *)
Present == [always |-> {k \in Keys : Live(k)},
            ever |-> {<<k, data[k].value>> : k \in {h \in Keys : Live(h)}}]
Unseen == [always |-> {}, ever |-> {}]

Reads == {"GET", "EXISTS", "TTL", "KEYS"}

Observe ==
  sees' = [s \in Sessions |->
    IF At(s, "idle")
    THEN IF ses'[s].name \in Reads THEN Present' ELSE Unseen
    ELSE IF ses[s].name \notin Reads THEN Unseen
    ELSE [always |-> sees[s].always \intersect Present'.always,
          ever |-> sees[s].ever \union Present'.ever]]

CommandsInit ==
  /\ now = 1
  /\ data = [k \in Keys |-> Absent]
  /\ ses = [s \in Sessions |-> Quiet]
  /\ answer = Nothing
  /\ sees = [s \in Sessions |-> Unseen]

CommandsNext == System /\ Observe

CommandsSpec == CommandsInit /\ [][CommandsNext]_commandsVars

-----------------------------------------------------------------------------
(* Properties *)

Wanted(p, k) == p = <<STAR>> \/ Means(p, k)
Ever(s, k) == \E v \in Values : <<k, v>> \in sees[s].ever

(* engine.go, "Keys returns every live key matching pattern": the answer   *)
(* of KEYS, which no lock covers as a whole, has every matching key that   *)
(* was live all along, none that never was, and none twice.                *)
KeysComplete ==
  answer.name = "KEYS" =>
    LET s == answer.by
        p == answer.key
    IN  /\ \A k \in sees[s].always : Wanted(p, k) => k \in answer.found
        /\ \A k \in answer.found : Wanted(p, k) /\ Ever(s, k)
        /\ answer.n = Cardinality(answer.found)

(* A value that GET returns, and a key that EXISTS or TTL report, was live *)
(* at some moment of the command, although the entry is used after its     *)
(* shard's lock was released.                                              *)
HitsAreReal ==
  LET s == answer.by
  IN  /\ answer.name = "GET" => \A v \in answer.found : <<answer.key, v>> \in sees[s].ever
      /\ answer.name = "EXISTS" /\ answer.n = 1 => Ever(s, answer.key)
      /\ answer.name = "TTL" /\ answer.n \notin {0, -2} => Ever(s, answer.key)

(* commands.go, expire: no EXPIRE that was applied leaves "a key that      *)
(* never dies", whatever number the client computed.                       *)
NoImmortal ==
  answer.name = "EXPIRE" /\ answer.n = 1 =>
    LET e == data[answer.key] IN e # Absent => e.exp # 0

(* commands.go, get: a miss, "including a key that has expired", is null:  *)
(* a key that was live from the beginning to the end of GET is found.      *)
MissIsReal ==
  answer.name = "GET" /\ answer.found = {} => answer.key \notin sees[answer.by].always

(* commands.go, expiryFor: a deadline that does not fit is refused, lest   *)
(* it "land in the past and expire the key instantly".                     *)
NotInstantly ==
  answer.name = "EXPIRE" /\ answer.n = 1 =>
    LET e == data[answer.key] IN e # Absent => e.exp >= now

=============================================================================
