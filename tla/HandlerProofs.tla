---------------------------- MODULE HandlerProofs ----------------------------
(* What Handler promises of the replies of one connection, for every set of *)
(* requests, every cap of a batch, every limit on the output and every      *)
(* configuration of the authenticator: nothing that was earned is lost, and *)
(* what is held back is bounded.                                            *)
(* And what Commands promises of the replies of all connections, for any    *)
(* number of sessions, keys and entries: HitsAreReal, NoImmortal and        *)
(* KeysComplete, by an invariant about the entries that sessions share.     *)
EXTENDS Handler, Commands, FiniteSetTheorems, TLAPS

USE HandlerLimits

-----------------------------------------------------------------------------
(* What the two properties need of the types.  Whatever the decoder makes   *)
(* of the bytes, it moves the loop from "decode" to "dispatch", to "last    *)
(* flush" or not at all.                                                    *)
Tallies ==
  /\ out \in [commands : Nat, bytes : Nat]
  /\ ran \in Nat /\ got \in Nat
  /\ at \in Places

(* The reason is set by the step that ends the loop: a write that failed, a *)
(* breach of the limit on the output or a panic leaves no step that could   *)
(* change it.                                                               *)
Reasoned ==
  /\ at \in {"decode", "dispatch", "verify", "compare", "handle", "noauth", "batch", "flush"}
       => why = "open"
  /\ at = "last flush" => why \notin {"output", "write", "panic"}

(* Every reply is in the buffer or delivered, and at most the reply being   *)
(* made can take the batch over its caps.                                   *)
Owed == why \notin {"output", "write", "panic"} => ran = got + out.commands
Delivered == at = "over" /\ why \notin {"output", "write", "panic"} => out.commands = 0
Capped ==
  at \in {"decode", "dispatch", "verify", "compare", "handle", "noauth"} =>
    out.commands < MaxPipeline /\ out.bytes < FlushAt

IInv == Tallies /\ Reasoned /\ Owed /\ Delivered /\ Capped

USE DEF Places

Output == [commands : Nat, bytes : Nat]

LEMMA Outputs ==
  /\ NoOutput \in Output /\ NoOutput.commands = 0 /\ NoOutput.bytes = 0
  /\ \A o \in Output, size \in Nat :
       LET more == [commands |-> o.commands + 1, bytes |-> o.bytes + size]
       IN  more \in Output /\ more.commands = o.commands + 1
<1>1. NoOutput \in Output /\ NoOutput.commands = 0 /\ NoOutput.bytes = 0
  BY DEF NoOutput, Output
<1>2. ASSUME NEW o \in Output, NEW size \in Nat
      PROVE  LET more == [commands |-> o.commands + 1, bytes |-> o.bytes + size]
             IN  more \in Output /\ more.commands = o.commands + 1
  <2>1. o.commands + 1 \in Nat /\ o.bytes + size \in Nat
    BY DEF Output
  <2> QED
    BY <2>1 DEF Output
<1> QED
  BY <1>1, <1>2

(* The facts of the invariant, as the steps below use them.                 *)
LEMMA Facts ==
  ASSUME IInv
  PROVE  /\ out \in Output /\ out.commands \in Nat /\ out.bytes \in Nat
         /\ ran \in Nat /\ got \in Nat /\ at \in Places
         /\ why \notin {"output", "write", "panic"} => ran = got + out.commands
BY DEF IInv, Tallies, Owed, Output

LEMMA Sums ==
  ASSUME NEW a \in Nat, NEW b \in Nat, NEW c \in Nat, a = b + c
  PROVE  /\ a + 1 \in Nat /\ b + c \in Nat /\ a + 1 = b + (c + 1)
         /\ a = (b + c) + 0 /\ (c = 0 => a = b)
OBVIOUS

LEMMA OneMore ==
  ASSUME IInv, why = "open"
  PROVE  ran + 1 \in Nat /\ ran + 1 = got + (out.commands + 1)
<1>1. ran = got + out.commands
  BY Facts
<1>2. ran \in Nat /\ got \in Nat /\ out.commands \in Nat
  BY Facts
<1> QED
  BY <1>1, <1>2, Sums

LEMMA InitHolds == Init => IInv
<1> SUFFICES ASSUME Init PROVE IInv
  OBVIOUS
<1>1. out = NoOutput /\ ran = 0 /\ got = 0 /\ at = "decode" /\ why = "open"
  BY DEF Init
<1> QED
  BY <1>1, Outputs DEF IInv, Tallies, Reasoned, Owed, Delivered, Capped, Output

(* A step that moves the loop without touching what is counted.             *)
LEMMA Moves ==
  ASSUME IInv, UNCHANGED <<out, ran, got, why>>,
         at' = at \/ /\ at \in {"decode", "dispatch", "verify", "compare"}
                     /\ at' \in {"dispatch", "verify", "compare", "handle", "noauth"}
  PROVE  IInv'
BY DEF IInv, Tallies, Reasoned, Owed, Delivered, Capped

LEMMA FailKeeps ==
  ASSUME IInv, NEW reason \in {"protocol", "eof", "idle", "shutdown", "too large"},
         at = "decode", Fail(reason)
  PROVE  IInv'
<1>1. PICK size \in ReplySizes :
        out' = IF Answered(reason) THEN [commands |-> out.commands + 1, bytes |-> out.bytes + size]
               ELSE out
  BY DEF Fail
<1>2. /\ at' = "last flush" /\ why' = reason /\ got' = got
      /\ ran' = IF Answered(reason) THEN ran + 1 ELSE ran
  BY DEF Fail
<1>3. why = "open" /\ size \in Nat
  BY DEF IInv, Reasoned
<1>4. out' \in Output /\ ran' \in Nat /\ ran' = got' + out'.commands
  <2>1. CASE Answered(reason)
    <3>1. out' \in Output /\ out'.commands = out.commands + 1 /\ ran' = ran + 1
      BY <1>1, <1>2, <1>3, <2>1, Facts, Outputs
    <3>2. ran + 1 \in Nat /\ ran + 1 = got + (out.commands + 1)
      BY <1>3, OneMore
    <3> QED
      BY <1>2, <3>1, <3>2
  <2>2. CASE ~Answered(reason)
    BY <1>1, <1>2, <1>3, <2>2, Facts
  <2> QED
    BY <2>1, <2>2
<1> QED
  BY <1>2, <1>4, Facts DEF IInv, Tallies, Reasoned, Owed, Delivered, Capped, Output

LEMMA ReplyKeeps == ASSUME IInv, NEW size \in ReplySizes, Reply(size) PROVE IInv'
<1>1. /\ out' = [commands |-> out.commands + 1, bytes |-> out.bytes + size]
      /\ ran' = ran + 1 /\ got' = got /\ at \in {"handle", "noauth"}
      /\ \/ at' = "over" /\ why' = "output"
         \/ at' = "batch" /\ why' = why
  BY DEF Reply
<1>2. why = "open" /\ size \in Nat
  BY <1>1 DEF IInv, Reasoned
<1>3. out' \in Output /\ out'.commands = out.commands + 1
  BY <1>1, <1>2, Facts, Outputs
<1>4. ran' \in Nat /\ ran' = got' + out'.commands
  <2>1. ran + 1 \in Nat /\ ran + 1 = got + (out.commands + 1)
    BY <1>2, OneMore
  <2> QED
    BY <1>1, <1>3, <2>1
<1> QED
  BY <1>1, <1>2, <1>3, <1>4, Facts DEF IInv, Tallies, Reasoned, Owed, Delivered, Capped, Output

LEMMA BatchKeeps == ASSUME IInv, Batch PROVE IInv'
<1>1. /\ at = "batch" /\ UNCHANGED <<out, ran, got, why>>
      /\ at' = IF BatchEnds THEN "flush" ELSE "decode"
  BY DEF Batch, Goto
<1>2. out.commands \in Nat /\ out.bytes \in Nat
  BY DEF IInv, Tallies
<1>3. CASE BatchEnds
  BY <1>1, <1>3 DEF IInv, Tallies, Reasoned, Owed, Delivered, Capped
<1>4. CASE ~BatchEnds
  <2>1. out.commands < MaxPipeline /\ out.bytes < FlushAt
    BY <1>2, <1>4 DEF BatchEnds
  <2> QED
    BY <1>1, <1>4, <2>1 DEF IInv, Tallies, Reasoned, Owed, Delivered, Capped
<1> QED
  BY <1>3, <1>4

LEMMA FlushKeeps == ASSUME IInv, Flush \/ LastFlush PROVE IInv'
<1>1. /\ got' = got + out.commands /\ out' = NoOutput /\ ran' = ran
      /\ at \in {"flush", "last flush"} /\ at' \in {"over", "decode"}
      /\ at' = "decode" => at = "flush" /\ why' = why
      /\ why' = why \/ why' \in {"quit", "shutdown"}
  BY DEF Flush, LastFlush
<1>2. why \notin {"output", "write", "panic"} /\ ran = got + out.commands
  BY <1>1, Facts DEF IInv, Reasoned
<1>3. out' \in Output /\ out'.commands = 0 /\ out'.bytes = 0
  BY <1>1, Outputs
<1>4. got' \in Nat /\ ran' \in Nat /\ ran' = got' + out'.commands
  <2>1. got + out.commands \in Nat /\ ran = (got + out.commands) + 0
    <3>1. ran \in Nat /\ got \in Nat /\ out.commands \in Nat
      BY Facts
    <3> QED
      BY <1>2, <3>1, Sums
  <2> QED
    BY <1>1, <1>3, <2>1, Facts
<1>5. 0 < MaxPipeline /\ 0 < FlushAt
  OBVIOUS
<1>6. Tallies' /\ Owed' /\ Delivered' /\ Capped'
  BY <1>1, <1>3, <1>4, <1>5 DEF Tallies, Owed, Delivered, Capped, Output
<1>7. Reasoned'
  BY <1>1 DEF IInv, Reasoned
<1> QED
  BY <1>6, <1>7 DEF IInv

(* What ends the connection and drops the batch.                            *)
LEMMA DropKeeps == ASSUME IInv, FlushFails \/ Panics PROVE IInv'
<1>1. /\ out' = NoOutput /\ at' = "over" /\ why' \in {"write", "panic"}
      /\ ran' = ran /\ got' = got
  BY DEF FlushFails, Panics
<1>2. Tallies'
  BY <1>1, Outputs, Facts DEF Tallies, Output
<1>3. Reasoned' /\ Owed' /\ Delivered' /\ Capped'
  BY <1>1 DEF Reasoned, Owed, Delivered, Capped
<1> QED
  BY <1>2, <1>3 DEF IInv

LEMMA NextKeeps == ASSUME IInv, [Next]_vars PROVE IInv'
<1>1. CASE UNCHANGED vars
  BY <1>1, Moves DEF vars
<1>2. CASE Send \/ Arrive \/ Cancel \/ Reload \/ Fill
  BY <1>2, Moves DEF Send, Arrive, Cancel, Reload, Fill
<1>3. CASE Command \/ Gate \/ Required \/ Compare
  BY <1>3, Moves DEF Command, Gate, Required, Compare, Goto
<1>4. CASE Malformed \/ ReadFails
  BY <1>4, FailKeeps DEF Malformed, ReadFails
<1> QED
  BY <1>1, <1>2, <1>3, <1>4, ReplyKeeps, BatchKeeps, FlushKeeps, DropKeeps DEF Next, Step

LEMMA IInvHolds == Spec => []IInv
<1>1. Init => IInv
  BY InitHolds
<1>2. IInv /\ [Next]_vars => IInv'
  BY NextKeeps
<1> QED
  BY <1>1, <1>2, PTL DEF Spec

(* Whatever is pipelined and however the connection ends, a reply that was  *)
(* earned is in the output buffer or delivered, unless the write failed,    *)
(* the limit on the output was reached or the handler panicked (Handle,     *)
(* handleDecodeError).                                                      *)
THEOREM NothingIsOwed == Spec => []NothingOwed
<1>1. IInv => NothingOwed
  <2> SUFFICES ASSUME IInv, why \notin {"output", "write", "panic"}
               PROVE  ran = got + out.commands /\ (at = "over" => ran = got)
    BY DEF NothingOwed
  <2>1. ran = got + out.commands /\ (at = "over" => out.commands = 0)
    BY DEF IInv, Owed, Delivered
  <2> QED
    BY <2>1, Facts, Sums
<1> QED
  BY <1>1, IInvHolds, PTL

(* What is held back while more is read stays below both caps of a batch    *)
(* (batchEnds, outputBuffer).                                               *)
THEOREM BatchesBounded == Spec => []BatchBounded
<1>1. IInv => BatchBounded
  BY DEF IInv, Capped, BatchBounded
<1> QED
  BY <1>1, IInvHolds, PTL

-----------------------------------------------------------------------------
(* Sessions and the entries they point to.                                  *)

Entry == [id : Ids, value : Values, exp : Int]
Pointer == Entry \union {Absent}
Looks == {"GET", "TTL", "EXISTS"}

Record == [at : {"idle", "lookup", "check", "reclaim", "remaining", "new", "put",
                 "delete", "set ttl", "walk"},
           name : Looks \union {None, "SET", "SETNX", "DEL", "EXPIRE", "KEYS", "DBSIZE"},
           key : Keys \union Patterns \union {<<>>}, ptr : Pointer,
           value : Values \union {None}, ttl : Int,
           shard : 1..Shards, found : SUBSET Keys, n : Int]

(* Where a session is says which command it runs, and whether it points to  *)
(* an entry.                                                                *)
Placed(c) ==
  /\ c.at = "idle" => c = Quiet
  /\ c.at \in {"lookup", "check"} => c.name \in Looks
  /\ c.at = "reclaim" => c.name = "GET"
  /\ c.at = "remaining" => c.name = "TTL"
  /\ c.at \in {"new", "put"} => c.name \in {"SET", "SETNX"} /\ c.value \in Values /\ c.ttl >= 0
  /\ c.at = "delete" => c.name \in {"DEL", "EXPIRE"}
  /\ c.at = "set ttl" => c.name = "EXPIRE" /\ c.ttl \in 1..MaxInt
  /\ c.at = "walk" => c.name \in {"KEYS", "DBSIZE"} /\ (c.name = "KEYS" => c.key \in Patterns)
  /\ c.at \notin {"idle", "walk"} => c.key \in Keys
  /\ c.at \in {"check", "reclaim", "remaining", "put"} <=> c.ptr \in Entry

Shaped ==
  /\ now \in 1..MaxInt
  /\ data \in [Keys -> Pointer]
  /\ ses \in [Sessions -> Record]
  /\ \A s \in Sessions : Placed(ses[s])
  /\ sees \in [Sessions -> [always : SUBSET Keys, ever : SUBSET (Keys \X Values)]]

(* An entry is under one key, and everybody who points to it sees it as it  *)
(* is; one that is still to be put is under none, and its maker's alone.    *)
Shared ==
  /\ \A k \in Keys, h \in Keys : data[k] # Absent /\ data[k].id = data[h].id => k = h
  /\ \A k \in Keys, s \in Sessions :
        data[k] # Absent /\ data[k].id = ses[s].ptr.id => data[k] = ses[s].ptr /\ ses[s].at # "put"
  /\ \A s, t \in Sessions :
        ses[s].at = "put" /\ ses[s].ptr.id = ses[t].ptr.id => s = t

(* An entry a reader holds is expired, for good, or has been seen live.     *)
Met(c, seen) == <<c.key, c.ptr.value>> \in seen.ever
Found(c, seen) ==
  /\ c.at = "check" => IsExpired(c.ptr) \/ Met(c, seen)
  /\ c.at = "remaining" => Met(c, seen)

(* The shards a walk has behind it.                                         *)
Walked(c, seen) ==
  c.at = "walk" /\ c.name = "KEYS" =>
    /\ \A k \in seen.always : Selects(c.key, k) /\ ShardOf[k] < c.shard => k \in c.found
    /\ \A k \in c.found : /\ Selects(c.key, k) /\ ShardOf[k] < c.shard
                          /\ \E v \in Values : <<k, v>> \in seen.ever
    /\ c.n = Cardinality(c.found)

Witnessed == \A s \in Sessions : Found(ses[s], sees[s]) /\ Walked(ses[s], sees[s])

(* What the last answer was given for.  KEYS is about what the matcher      *)
(* selects, whatever that is.                                               *)
Told ==
  answer.name = "KEYS" =>
    LET seen == sees[answer.by]
    IN  /\ answer.key \in Patterns /\ answer.by \in Sessions
        /\ \A k \in seen.always : Selects(answer.key, k) => k \in answer.found
        /\ \A k \in answer.found :
              k \in Keys /\ Selects(answer.key, k) /\ \E v \in Values : <<k, v>> \in seen.ever
        /\ answer.n = Cardinality(answer.found)

Said == HitsAreReal /\ NoImmortal /\ Told

CommandsInv == Shaped /\ Shared /\ Witnessed /\ Said

LEMMA Pointers ==
  /\ Absent \in Pointer /\ Absent \notin Entry
  /\ Absent.id \notin Ids /\ \A e \in Entry : e.id # Absent.id
  /\ \A e \in Pointer : e # Absent => e \in Entry
BY IdsAssumption DEF Absent, Pointer, Entry, None

LEMMA QuietFine == Quiet \in Record /\ Placed(Quiet) /\ Quiet.ptr = Absent /\ Quiet.at = "idle"
<1>1. 1 \in 1..Shards
  BY ShardsAssumption
<1>2. Quiet.ptr \notin Entry /\ Absent \in Pointer
  BY Pointers DEF Quiet
<1> QED
  BY <1>1, <1>2 DEF Quiet, Record, Placed, Looks

-----------------------------------------------------------------------------
(* What a step lets the sessions see.                                       *)

LEMMA SeesType ==
  ASSUME Shaped, Observe, data' \in [Keys -> Pointer]
  PROVE  sees' \in [Sessions -> [always : SUBSET Keys, ever : SUBSET (Keys \X Values)]]
<1> DEFINE Kind == [always : SUBSET Keys, ever : SUBSET (Keys \X Values)]
<1>1. Present' \in Kind
  <2>1. {k \in Keys : Live(k)}' \in SUBSET Keys
    OBVIOUS
  <2>2. ASSUME NEW k \in Keys, Live(k)' PROVE data'[k].value \in Values
    BY <2>2, Pointers DEF Live, Entry
  <2>3. {<<k, data[k].value>> : k \in {h \in Keys : Live(h)}}' \in SUBSET (Keys \X Values)
    BY <2>2
  <2> QED
    BY <2>1, <2>3 DEF Present
<1>2. Unseen \in Kind
  BY DEF Unseen
<1>3. ASSUME NEW s \in Sessions
      PROVE  [always |-> sees[s].always \intersect Present'.always,
              ever |-> sees[s].ever \union Present'.ever] \in Kind
  BY <1>1 DEF Shaped
<1> HIDE DEF Kind
<1>4. sees' \in [Sessions -> Kind]
  BY <1>1, <1>2, <1>3 DEF Observe
<1> QED
  BY <1>4 DEF Kind

LEMMA SeesMore ==
  ASSUME Observe, NEW s \in Sessions, ~At(s, "idle"), ses[s].name \in Reads
  PROVE  /\ sees'[s].always \subseteq sees[s].always
         /\ \A k \in sees'[s].always : k \in Keys /\ Live(k)'
         /\ sees[s].ever \subseteq sees'[s].ever
         /\ \A k \in Keys : Live(k)' => <<k, data'[k].value>> \in sees'[s].ever
<1>1. sees'[s] = [always |-> sees[s].always \intersect Present'.always,
                  ever |-> sees[s].ever \union Present'.ever]
  BY DEF Observe
<1>2. Present'.always = {k \in Keys : Live(k)'}
  BY DEF Present
<1>3. Present'.ever = {<<k, data'[k].value>> : k \in {h \in Keys : Live(h)'}}
  BY DEF Present
<1> QED
  BY <1>1, <1>2, <1>3

(* What was so of a session's command stays so while others run.            *)
LEMMA OthersWitness ==
  ASSUME Shaped, Witnessed, Observe, now' \in Int, now' >= now,
         NEW s \in Sessions, ses'[s] = ses[s]
  PROVE  (Found(ses[s], sees[s]) /\ Walked(ses[s], sees[s]))'
<1>1. Placed(ses[s]) /\ Found(ses[s], sees[s]) /\ Walked(ses[s], sees[s]) /\ now \in Int
  BY DEF Shaped, Witnessed
<1>2. CASE ses[s].at \in {"check", "remaining"}
  <2>1. sees[s].ever \subseteq sees'[s].ever
    BY <1>1, <1>2, SeesMore DEF Placed, Looks, Reads, At
  <2>2. ses[s].ptr \in Entry /\ ses[s].ptr.exp \in Int
    BY <1>1, <1>2 DEF Placed, Entry
  <2>3. IsExpired(ses[s].ptr) => IsExpired(ses[s].ptr)'
    BY <1>1, <2>2 DEF IsExpired
  <2>4. Found(ses[s], sees[s])'
    BY <1>1, <2>1, <2>3 DEF Found, Met
  <2> QED
    BY <1>2, <2>4 DEF Walked
<1>3. CASE ses[s].at = "walk" /\ ses[s].name = "KEYS"
  <2>1. sees'[s].always \subseteq sees[s].always /\ sees[s].ever \subseteq sees'[s].ever
    BY <1>3, SeesMore DEF Reads, At
  <2>2. Walked(ses[s], sees[s])'
    BY <1>1, <1>3, <2>1 DEF Walked
  <2> QED
    BY <1>3, <2>2 DEF Found
<1>4. CASE ses[s].at \notin {"check", "remaining", "walk"} \/ (ses[s].at = "walk" /\ ses[s].name # "KEYS")
  BY <1>4 DEF Found, Walked
<1> QED
  BY <1>2, <1>3, <1>4

(* Entries that go, and pointers that are dropped, take nothing from what   *)
(* is shared.                                                               *)
LEMMA SharedKept ==
  ASSUME Shaped, Shared,
         \A k \in Keys : data'[k] \in {data[k], Absent},
         \A s \in Sessions :
            \/ ses'[s].ptr = Absent /\ ses'[s].at # "put"
            \/ ses'[s].ptr = ses[s].ptr /\ (ses'[s].at = "put" => ses[s].at = "put")
  PROVE  Shared'
<1>1. \A k \in Keys : data[k] \in Pointer
  BY DEF Shaped
<1>2. \A k \in Keys, h \in Keys : data'[k] # Absent /\ data'[k].id = data'[h].id => k = h
  BY <1>1, Pointers DEF Shared
<1>3. \A k \in Keys, s \in Sessions :
        data'[k] # Absent /\ data'[k].id = ses'[s].ptr.id
          => data'[k] = ses'[s].ptr /\ ses'[s].at # "put"
  BY <1>1, Pointers DEF Shared
<1>4. \A s \in Sessions : ses[s].at = "put" => ses[s].ptr \in Entry
  BY DEF Shaped, Placed
<1>5. \A s, t \in Sessions :
        ses'[s].at = "put" /\ ses'[s].ptr.id = ses'[t].ptr.id => s = t
  BY <1>4, Pointers DEF Shared
<1> QED
  BY <1>2, <1>3, <1>5 DEF Shared

LEMMA NothingSaid == ASSUME answer' = Nothing PROVE Said'
BY DEF Said, HitsAreReal, NoImmortal, Told, Nothing, None

(* A step of one session, put together.                                     *)
LEMMA Assembled ==
  ASSUME CommandsInv, Observe, NEW s \in Sessions, NEW c \in Record, Placed(c),
         ses' = [ses EXCEPT ![s] = c], now' = now, data' \in [Keys -> Pointer],
         Shared', Found(c, sees'[s]), Walked(c, sees'[s]), Said'
  PROVE  CommandsInv'
<1>1. Shaped'
  BY SeesType DEF CommandsInv, Shaped
<1>2. \A t \in Sessions : Found(ses[t], sees[t])' /\ Walked(ses[t], sees[t])'
  <2>1. now' \in Int /\ now' >= now
    BY DEF CommandsInv, Shaped
  <2>2. ASSUME NEW t \in Sessions, t # s PROVE (Found(ses[t], sees[t]) /\ Walked(ses[t], sees[t]))'
    <3>1. ses'[t] = ses[t]
      BY <2>2 DEF CommandsInv, Shaped
    <3> QED
      BY <3>1, <2>1, OthersWitness DEF CommandsInv
  <2>3. ses'[s] = c
    BY DEF CommandsInv, Shaped
  <2>4. Found(ses[s], sees[s])' /\ Walked(ses[s], sees[s])'
    BY <2>3 DEF Found, Met, IsExpired, Walked
  <2> QED
    BY <2>2, <2>4
<1> QED
  BY <1>1, <1>2 DEF CommandsInv, Witnessed

-----------------------------------------------------------------------------
(* The actions.                                                             *)

(* A command that begins has looked at nothing yet.                         *)
LEMMA BeginKeeps ==
  ASSUME CommandsInv, Observe, UNCHANGED <<now, data>>,
         NEW s \in Sessions, NEW c \in Record, Placed(c), c.ptr = Absent, Change(s, c),
         c.at \notin {"check", "remaining", "put"},
         c.at = "walk" => c.found = {} /\ c.shard = 1 /\ c.n = 0
  PROVE  CommandsInv'
<1>1. ses' = [ses EXCEPT ![s] = c] /\ answer' = Nothing /\ ses \in [Sessions -> Record]
  BY DEF Change, CommandsInv, Shaped
<1>2. Shared'
  BY <1>1, SharedKept DEF CommandsInv
<1>3. Found(c, sees'[s])
  BY DEF Found
<1>4. Walked(c, sees'[s])
  <2>1. sees' \in [Sessions -> [always : SUBSET Keys, ever : SUBSET (Keys \X Values)]]
    BY SeesType DEF CommandsInv, Shaped
  <2>2. \A k \in Keys : ~(ShardOf[k] < 1)
    BY ShardsAssumption
  <2>3. Cardinality({}) = 0
    BY FS_EmptySet
  <2> QED
    BY <2>1, <2>2, <2>3 DEF Walked
<1> QED
  BY <1>1, <1>2, <1>3, <1>4, NothingSaid, Assembled DEF CommandsInv, Shaped

(* A command that ends leaves its session as it found it.                   *)
LEMMA EndKeeps ==
  ASSUME CommandsInv, Observe, now' = now, NEW s \in Sessions, NEW found, NEW n,
         Done(s, found, n), Shared', data' \in [Keys -> Pointer], Said'
  PROVE  CommandsInv'
<1>1. Found(Quiet, sees'[s]) /\ Walked(Quiet, sees'[s])
  BY DEF Found, Walked, Quiet
<1> QED
  BY <1>1, QuietFine, Assembled DEF Done

LEMMA EndShared ==
  ASSUME CommandsInv, NEW s \in Sessions, NEW found, NEW n, Done(s, found, n),
         \A k \in Keys : data'[k] \in {data[k], Absent}
  PROVE  Shared'
BY QuietFine, SharedKept DEF Done, CommandsInv, Shaped

(* Replies that none of the three properties is about.                      *)
LEMMA PlainSaid ==
  ASSUME NEW s, NEW n, Done(s, {}, n),
         \/ ses[s].name \in {"SET", "SETNX", "DEL", "DBSIZE", "GET"}
         \/ ses[s].name = "EXISTS" /\ n = 0
         \/ ses[s].name = "TTL" /\ n \in {0, -2}
         \/ ses[s].name = "EXPIRE" /\ n # 1
  PROVE  Said'
BY DEF Done, ReplyTo, Said, HitsAreReal, NoImmortal, Told

LEMMA LookKeeps ==
  ASSUME CommandsInv, Observe, NEW s \in Sessions, NEW k \in Keys, NEW name \in Looks,
         Look(s, k, name)
  PROVE  CommandsInv'
<1> DEFINE c == [Quiet EXCEPT !.at = "lookup", !.name = name, !.key = k]
<1>1. c \in Record /\ Placed(c) /\ c.ptr = Absent /\ c.at = "lookup"
  <2>1. c \in Record
    BY QuietFine DEF Quiet, Record, Looks
  <2>2. c.at = "lookup" /\ c.ptr = Absent /\ c.name = name /\ c.key = k
    BY DEF Quiet
  <2> HIDE DEF c
  <2> QED
    BY <2>1, <2>2, Pointers DEF Placed, Looks
<1>2. Change(s, c) /\ UNCHANGED <<now, data>>
  BY DEF Look, Begin
<1> HIDE DEF c
<1> QED
  BY <1>1, <1>2, BeginKeeps

LEMMA LookupKeeps == ASSUME CommandsInv, Observe, NEW s \in Sessions, Lookup(s) PROVE CommandsInv'
<1> DEFINE e == data[ses[s].key]
<1>1. /\ ses[s] \in Record /\ Placed(ses[s]) /\ ses[s].name \in Looks /\ ses[s].key \in Keys
      /\ data \in [Keys -> Pointer] /\ ses \in [Sessions -> Record]
  BY DEF CommandsInv, Shaped, Lookup, At, Placed
<1>2. CASE e = Absent
  <2>1. Done(s, {}, 0) /\ UNCHANGED <<now, data>>
    BY <1>2 DEF Lookup
  <2>2. Said'
    BY <2>1, <1>1, PlainSaid DEF Looks
  <2> QED
    BY <1>1, <2>1, <2>2, EndKeeps, EndShared
<1>3. CASE e # Absent
  <2> DEFINE c == [ses[s] EXCEPT !.at = "check", !.ptr = e]
  <2>1. Change(s, c) /\ UNCHANGED <<now, data>> /\ e \in Entry /\ ses[s].at = "lookup"
    BY <1>1, <1>3, Pointers DEF Lookup, At
  <2>2. c \in Record /\ Placed(c)
    BY <1>1, <2>1 DEF Record, Placed, Looks, Pointer
  <2>3. Found(c, sees'[s])
    <3>1. PICK k \in Keys : k = ses[s].key
      BY <1>1
    <3>2. Live(k)' \/ IsExpired(e)
      BY <1>3, <2>1, <3>1 DEF Live, IsExpired
    <3>3. Live(k)' => <<k, e.value>> \in sees'[s].ever
      BY <1>1, <2>1, <3>1, SeesMore DEF At, Looks, Reads
    <3> QED
      BY <1>1, <3>1, <3>2, <3>3 DEF Found, Met, Record
  <2>4. Walked(c, sees'[s])
    BY <1>1 DEF Walked, Record
  <2>5. Shared'
    <3>1. ses' = [ses EXCEPT ![s] = c] /\ c.ptr = e /\ c.at = "check" /\ data' = data
      BY <1>1, <2>1 DEF Change, Record
    <3> HIDE DEF c
    <3>2. \A k \in Keys, t \in Sessions :
            data[k] # Absent /\ data[k].id = ses'[t].ptr.id
              => data[k] = ses'[t].ptr /\ ses'[t].at # "put"
      BY <1>1, <3>1 DEF CommandsInv, Shared
    <3>3. \A t, u \in Sessions : ses'[t].at = "put" /\ ses'[t].ptr.id = ses'[u].ptr.id => t = u
      BY <1>1, <1>3, <3>1 DEF CommandsInv, Shared
    <3> QED
      BY <3>1, <3>2, <3>3 DEF CommandsInv, Shared
  <2> HIDE DEF c
  <2> QED
    BY <1>1, <2>1, <2>2, <2>3, <2>4, <2>5, NothingSaid, Assembled DEF Change
<1> QED
  BY <1>2, <1>3

LEMMA CheckExpiryKeeps ==
  ASSUME CommandsInv, Observe, NEW s \in Sessions, CheckExpiry(s) PROVE CommandsInv'
<1> DEFINE e == ses[s].ptr
<1>1. /\ ses[s] \in Record /\ Placed(ses[s]) /\ ses[s].name \in Looks /\ ses[s].key \in Keys
      /\ data \in [Keys -> Pointer] /\ ses \in [Sessions -> Record] /\ e \in Entry
      /\ ses[s].at = "check" /\ UNCHANGED <<now, data>>
  BY DEF CommandsInv, Shaped, CheckExpiry, At, Placed
<1>2. ~IsExpired(e) => Met(ses[s], sees[s])
  BY <1>1 DEF CommandsInv, Witnessed, Found
<1>3. sees[s].ever \subseteq sees'[s].ever
  BY <1>1, SeesMore DEF Looks, Reads, At
<1>4. ASSUME NEW place \in {"reclaim", "remaining"}, MoveTo(s, place),
             place = "reclaim" => ses[s].name = "GET",
             place = "remaining" => ses[s].name = "TTL" /\ ~IsExpired(e)
      PROVE  CommandsInv'
  <2> DEFINE c == [ses[s] EXCEPT !.at = place]
  <2>1. c \in Record /\ Placed(c)
    BY <1>1, <1>4 DEF Record, Placed, Looks
  <2>2. Change(s, c)
    BY <1>4 DEF MoveTo
  <2>3. Found(c, sees'[s])
    BY <1>1, <1>2, <1>3, <1>4 DEF Found, Met, Record
  <2>4. Walked(c, sees'[s])
    BY <1>1, <1>4 DEF Walked, Record
  <2>5. Shared'
    BY <1>1, <1>4, <2>2, SharedKept DEF Change, CommandsInv, Record
  <2> HIDE DEF c
  <2> QED
    BY <1>1, <2>1, <2>2, <2>3, <2>4, <2>5, NothingSaid, Assembled DEF Change
<1>5. CASE IsExpired(e) /\ Done(s, {}, 0)
  <2>1. Said'
    BY <1>1, <1>5, PlainSaid DEF Looks
  <2> QED
    BY <1>1, <1>5, <2>1, EndKeeps, EndShared
<1>6. CASE ~IsExpired(e) /\ ses[s].name # "TTL" /\ Done(s, {e.value}, 1)
  <2>1. <<ses[s].key, e.value>> \in sees'[s].ever /\ e.value \in Values
    BY <1>1, <1>2, <1>3, <1>6 DEF Met, Entry
  <2>2. Said'
    BY <1>1, <1>6, <2>1 DEF Done, ReplyTo, Said, HitsAreReal, NoImmortal, Told, Looks, Ever
  <2> QED
    BY <1>1, <1>6, <2>2, EndKeeps, EndShared
<1> QED
  BY <1>1, <1>4, <1>5, <1>6 DEF CheckExpiry

(* What LazyExpire answers is a miss, and what it removes is gone.          *)
LEMMA LazyExpireKeeps ==
  ASSUME CommandsInv, Observe, NEW s \in Sessions, LazyExpire(s) PROVE CommandsInv'
<1>1. /\ ses[s].key \in Keys /\ ses[s].name = "GET" /\ data \in [Keys -> Pointer]
      /\ Done(s, {}, 0) /\ now' = now
  BY DEF CommandsInv, Shaped, LazyExpire, At, Placed
<1>2. data' \in [Keys -> Pointer] /\ \A k \in Keys : data'[k] \in {data[k], Absent}
  BY <1>1, Pointers DEF LazyExpire, Without
<1>3. Said'
  BY <1>1, PlainSaid
<1> QED
  BY <1>1, <1>2, <1>3, EndKeeps, EndShared

LEMMA ReadTTLKeeps ==
  ASSUME CommandsInv, Observe, NEW s \in Sessions, ReadTTL(s) PROVE CommandsInv'
<1>1. /\ ses[s].key \in Keys /\ ses[s].name = "TTL" /\ data \in [Keys -> Pointer]
      /\ ses[s].at = "remaining" /\ ses[s].ptr \in Entry /\ UNCHANGED <<now, data>>
  BY DEF CommandsInv, Shaped, ReadTTL, At, Placed
<1>2. PICK n : Done(s, {}, n)
  BY DEF ReadTTL
<1>3. <<ses[s].key, ses[s].ptr.value>> \in sees'[s].ever
  <2>1. sees[s].ever \subseteq sees'[s].ever
    BY <1>1, SeesMore DEF Reads, At
  <2> QED
    BY <1>1, <2>1 DEF CommandsInv, Witnessed, Found, Met
<1>4. Said'
  <2>1. ses[s].ptr.value \in Values
    BY <1>1 DEF Entry
  <2>2. answer' = ReplyTo(s, {}, n)
    BY <1>2 DEF Done
  <2> QED
    BY <1>1, <1>3, <2>1, <2>2 DEF ReplyTo, Said, HitsAreReal, NoImmortal, Told, Ever
<1> QED
  BY <1>1, <1>2, <1>4, EndKeeps, EndShared

-----------------------------------------------------------------------------

LEMMA WriteKeeps ==
  ASSUME CommandsInv, Observe, NEW s \in Sessions, NEW k \in Keys, NEW v \in Values,
         NEW amount \in Amounts \union {0}, Write(s, k, v, amount)
  PROVE  CommandsInv'
<1>1. PICK name \in {"SET", "SETNX"}, ttl \in {0, amount} :
        BeginWith(s, name, "new", k, v, ttl) /\ ttl \in Int /\ ttl >= 0
  BY AmountsAssumption DEF Write, ExpiryFits
<1> DEFINE c == [Quiet EXCEPT !.at = "new", !.name = name, !.key = k, !.value = v, !.ttl = ttl]
<1>2. c \in Record /\ Placed(c) /\ c.ptr = Absent /\ c.at = "new"
  <2>1. c \in Record
    BY <1>1, QuietFine DEF Quiet, Record, Looks
  <2>2. c.at = "new" /\ c.ptr = Absent /\ c.name = name /\ c.key = k /\ c.value = v /\ c.ttl = ttl
    BY DEF Quiet
  <2> HIDE DEF c
  <2> QED
    BY <1>1, <2>1, <2>2, Pointers DEF Placed, Looks
<1>3. Change(s, c) /\ UNCHANGED <<now, data>>
  BY <1>1 DEF BeginWith
<1> HIDE DEF c
<1> QED
  BY <1>2, <1>3, BeginKeeps

LEMMA WrapInt == ASSUME NEW x \in Int PROVE Wrap(x) \in Int
BY AmountsAssumption DEF Wrap

LEMMA NewEntryKeeps ==
  ASSUME CommandsInv, Observe, NEW s \in Sessions, NewEntry(s) PROVE CommandsInv'
<1>0. /\ ses[s] \in Record /\ Placed(ses[s]) /\ ses[s].at = "new"
      /\ data \in [Keys -> Pointer] /\ ses \in [Sessions -> Record] /\ now \in Int
      /\ UNCHANGED <<now, data>>
  BY DEF CommandsInv, Shaped, NewEntry, At
<1>1. /\ ses[s].key \in Keys /\ ses[s].name \in {"SET", "SETNX"}
      /\ ses[s].value \in Values /\ ses[s].ttl \in Int
  BY <1>0 DEF Placed, Record
<1>2. PICK i \in Ids \ InUse :
        Change(s, [ses[s] EXCEPT !.at = "put",
          !.ptr = [id |-> i, value |-> ses[s].value, exp |-> Deadline(ses[s].ttl)]])
  BY DEF NewEntry
<1> DEFINE e == [id |-> i, value |-> ses[s].value, exp |-> Deadline(ses[s].ttl)]
           c == [ses[s] EXCEPT !.at = "put", !.ptr = e]
<1>3. e \in Entry
  BY <1>0, <1>1, WrapInt DEF Deadline, Entry
<1>4. Change(s, c) /\ e.id \notin InUse
  BY <1>2
<1> HIDE DEF e
<1>5. c \in Record /\ Placed(c) /\ c.ptr = e /\ c.at = "put"
  BY <1>0, <1>1, <1>3 DEF Record, Placed, Looks, Pointer
<1>6. Found(c, sees'[s]) /\ Walked(c, sees'[s])
  BY <1>5 DEF Found, Walked
<1> HIDE DEF c
<1>7. Shared'
  <2>1. ses' = [ses EXCEPT ![s] = c]
    BY <1>4 DEF Change
  <2>2. \A k \in Keys : data[k].id # e.id
    BY <1>4 DEF InUse
  <2>3. \A t \in Sessions : ses[t].ptr.id # e.id
    BY <1>4 DEF InUse
  <2>4. \A k \in Keys, t \in Sessions :
          data[k] # Absent /\ data[k].id = ses'[t].ptr.id
            => data[k] = ses'[t].ptr /\ ses'[t].at # "put"
    BY <1>0, <1>1, <1>5, <2>1, <2>2 DEF CommandsInv, Shared
  <2>5. \A t, u \in Sessions : ses'[t].at = "put" /\ ses'[t].ptr.id = ses'[u].ptr.id => t = u
    BY <1>0, <1>1, <1>5, <2>1, <2>3 DEF CommandsInv, Shared
  <2> QED
    BY <1>0, <1>1, <2>4, <2>5 DEF CommandsInv, Shared
<1> QED
  BY <1>0, <1>1, <1>4, <1>5, <1>6, <1>7, NothingSaid, Assembled DEF Change

LEMMA PutKeeps ==
  ASSUME CommandsInv, Observe, NEW s \in Sessions, Put(s) \/ PutRefused(s) PROVE CommandsInv'
<1>1. /\ ses[s].key \in Keys /\ ses[s].name \in {"SET", "SETNX"} /\ ses[s].at = "put"
      /\ ses[s].ptr \in Entry /\ data \in [Keys -> Pointer] /\ ses \in [Sessions -> Record]
      /\ now' = now
  BY DEF CommandsInv, Shaped, Put, PutRefused, At, Placed
<1>2. PICK n : Done(s, {}, n)
  BY DEF Put, PutRefused
<1>3. Said'
  BY <1>1, <1>2, PlainSaid
<1>4. CASE data' = data
  BY <1>1, <1>2, <1>3, <1>4, EndKeeps, EndShared
<1>5. CASE data' = [data EXCEPT ![ses[s].key] = ses[s].ptr]
  <2>1. data' \in [Keys -> Pointer]
    BY <1>1, <1>5 DEF Pointer
  <2>2. ses' = [ses EXCEPT ![s] = Quiet]
    BY <1>2 DEF Done
  <2>3. \A k \in Keys : data[k] # Absent => data[k].id # ses[s].ptr.id
    BY <1>1 DEF CommandsInv, Shared
  <2>4. \A t \in Sessions : t # s => ses[t].ptr.id # ses[s].ptr.id
    BY <1>1 DEF CommandsInv, Shared
  <2>5. \A k \in Keys, h \in Keys : data'[k] # Absent /\ data'[k].id = data'[h].id => k = h
    <3>1. \A k \in Keys : data[k].id # ses[s].ptr.id
      BY <1>1, <2>3, Pointers
    <3> QED
      BY <1>1, <1>5, <3>1 DEF CommandsInv, Shared
  <2>6. \A k \in Keys, t \in Sessions :
          data'[k] # Absent /\ data'[k].id = ses'[t].ptr.id
            => data'[k] = ses'[t].ptr /\ ses'[t].at # "put"
    <3>1. Quiet.ptr = Absent /\ Quiet.at = "idle" /\ \A e \in Pointer : e # Absent => e.id # Absent.id
      BY QuietFine, Pointers
    <3>2. ASSUME NEW k \in Keys, NEW t \in Sessions, t # s, data'[k] # Absent,
                 data'[k].id = ses'[t].ptr.id
          PROVE  data'[k] = ses'[t].ptr /\ ses'[t].at # "put"
      BY <1>1, <1>5, <2>2, <2>4, <3>2 DEF CommandsInv, Shared
    <3>3. ASSUME NEW k \in Keys, data'[k] # Absent PROVE data'[k].id # ses'[s].ptr.id
      BY <1>1, <2>1, <2>2, <3>1, <3>3
    <3> QED
      BY <3>2, <3>3
  <2>7. \A t, u \in Sessions : ses'[t].at = "put" /\ ses'[t].ptr.id = ses'[u].ptr.id => t = u
    <3>1. \A t \in Sessions : ses[t].at = "put" => ses[t].ptr.id # Absent.id
      BY Pointers DEF CommandsInv, Shaped, Placed
    <3> QED
      BY <1>1, <2>2, <3>1, QuietFine DEF CommandsInv, Shared
  <2>8. Shared'
    BY <2>5, <2>6, <2>7 DEF Shared
  <2> QED
    BY <1>1, <1>2, <1>3, <2>1, <2>8, EndKeeps
<1> QED
  BY <1>4, <1>5 DEF Put, PutRefused

-----------------------------------------------------------------------------

LEMMA DelKeeps ==
  ASSUME CommandsInv, Observe, NEW s \in Sessions, NEW k \in Keys, NEW name \in {"DEL", "EXPIRE"},
         Begin(s, name, "delete", k)
  PROVE  CommandsInv'
<1> DEFINE c == [Quiet EXCEPT !.at = "delete", !.name = name, !.key = k]
<1>1. c \in Record /\ Placed(c) /\ c.ptr = Absent /\ c.at = "delete"
  <2>1. c \in Record
    BY QuietFine DEF Quiet, Record, Looks
  <2>2. c.at = "delete" /\ c.ptr = Absent /\ c.name = name /\ c.key = k
    BY DEF Quiet
  <2> HIDE DEF c
  <2> QED
    BY <2>1, <2>2, Pointers DEF Placed, Looks
<1>2. Change(s, c) /\ UNCHANGED <<now, data>>
  BY DEF Begin
<1> HIDE DEF c
<1> QED
  BY <1>1, <1>2, BeginKeeps

(* An EXPIRE that deletes answers 1 as well: nothing is left to live on.    *)
LEMMA DeleteKeeps == ASSUME CommandsInv, Observe, NEW s \in Sessions, Delete(s) PROVE CommandsInv'
<1>1. /\ ses[s].key \in Keys /\ ses[s].name \in {"DEL", "EXPIRE"} /\ now' = now
      /\ data \in [Keys -> Pointer] /\ data' = Without(ses[s].key)
  BY DEF CommandsInv, Shaped, Delete, At, Placed
<1>2. data' \in [Keys -> Pointer] /\ \A k \in Keys : data'[k] \in {data[k], Absent}
  BY <1>1, Pointers DEF Without
<1>3. PICK n : Done(s, {}, n)
  BY DEF Delete
<1>4. Said'
  <2>1. answer' = ReplyTo(s, {}, n) /\ data'[ses[s].key] = Absent
    BY <1>1, <1>3 DEF Done, Without
  <2> QED
    BY <1>1, <2>1 DEF ReplyTo, Said, HitsAreReal, NoImmortal, Told
<1> QED
  BY <1>1, <1>2, <1>3, <1>4, EndKeeps, EndShared

LEMMA ExpireKeeps ==
  ASSUME CommandsInv, Observe, NEW s \in Sessions, NEW k \in Keys, NEW amount \in Amounts,
         Expire(s, k, amount)
  PROVE  CommandsInv'
<1>1. CASE Begin(s, "EXPIRE", "delete", k)
  BY <1>1, DelKeeps
<1>2. CASE ExpiryFits(amount) /\ BeginWith(s, "EXPIRE", "set ttl", k, None, amount)
  <2> DEFINE c == [Quiet EXCEPT !.at = "set ttl", !.name = "EXPIRE", !.key = k,
                                !.value = None, !.ttl = amount]
  <2>1. amount \in 1..MaxInt
    <3>1. now \in Int /\ now >= 1
      BY AmountsAssumption DEF CommandsInv, Shaped
    <3>2. amount > 0 /\ amount <= MaxInt - now
      BY <1>2 DEF ExpiryFits
    <3>3. amount \in Int /\ MaxInt \in Int
      BY AmountsAssumption
    <3> QED
      BY <3>1, <3>2, <3>3
  <2>2. c \in Record /\ Placed(c) /\ c.ptr = Absent /\ c.at = "set ttl"
    <3>1. c \in Record
      BY <2>1, QuietFine, AmountsAssumption DEF Quiet, Record, Looks
    <3>2. c.at = "set ttl" /\ c.ptr = Absent /\ c.name = "EXPIRE" /\ c.key = k /\ c.ttl = amount
      BY DEF Quiet
    <3> HIDE DEF c
    <3> QED
      BY <2>1, <3>1, <3>2, Pointers DEF Placed, Looks
  <2>3. Change(s, c) /\ UNCHANGED <<now, data>>
    BY <1>2 DEF BeginWith
  <2> HIDE DEF c
  <2> QED
    BY <2>2, <2>3, BeginKeeps
<1> QED
  BY <1>1, <1>2 DEF Expire

(* A deadline is never 0, which would mean that the key lives for ever,     *)
(* although the sum that makes it may pass the largest integer.             *)
LEMMA DeadlineSome ==
  ASSUME now \in 1..MaxInt, NEW ttl \in 1..MaxInt
  PROVE  Deadline(ttl) \in Int /\ Deadline(ttl) # 0
BY AmountsAssumption DEF Deadline, Wrap

LEMMA SetTTLKeeps == ASSUME CommandsInv, Observe, NEW s \in Sessions, SetTTL(s) PROVE CommandsInv'
<1>1. /\ ses[s].key \in Keys /\ ses[s].name = "EXPIRE" /\ ses[s].ttl \in 1..MaxInt
      /\ data \in [Keys -> Pointer] /\ ses \in [Sessions -> Record] /\ now' = now
      /\ now \in 1..MaxInt
  BY DEF CommandsInv, Shaped, SetTTL, At, Placed
<1>2. CASE data' = data /\ Done(s, {}, 0)
  <2>1. Said'
    BY <1>1, <1>2, PlainSaid
  <2> QED
    BY <1>1, <1>2, <2>1, EndKeeps, EndShared
<1>3. CASE ~(data' = data /\ Done(s, {}, 0))
  <2>0. PICK k \in Keys : k = ses[s].key
    BY <1>1
  <2> DEFINE d == Deadline(ses[s].ttl)
             e == [data[k] EXCEPT !.exp = d]
  <2>1. /\ Live(k) /\ data' = [data EXCEPT ![k] = e] /\ answer' = ReplyTo(s, {}, 1)
        /\ ses' = [t \in Sessions |->
                     IF t = s THEN Quiet
                     ELSE IF ses[t].ptr.id = e.id THEN [ses[t] EXCEPT !.ptr = e]
                     ELSE ses[t]]
    BY <1>3, <2>0 DEF SetTTL
  <2>2. data[k] \in Entry /\ data[k] # Absent
    BY <1>1, <2>1, Pointers DEF Live
  <2>3. d \in Int /\ d # 0
    BY <1>1, DeadlineSome
  <2> HIDE DEF d
  <2>4. e \in Entry /\ e.id = data[k].id /\ e.value = data[k].value /\ e.exp = d
    BY <2>2, <2>3 DEF Entry
  <2> HIDE DEF e
  (* Who points to the entry has it as it was, and has not still to put it. *)
  <2>5. \A t \in Sessions : ses[t].ptr.id = e.id => ses[t].ptr = data[k] /\ ses[t].at # "put"
    BY <2>2, <2>4 DEF CommandsInv, Shared
  <2>6. ASSUME NEW t \in Sessions
        PROVE  /\ ses'[t] \in Record /\ Placed(ses'[t])
               /\ t # s => /\ \A f \in {"at", "name", "key", "shard", "found", "n"} :
                                ses'[t][f] = ses[t][f]
                           /\ ses'[t].ptr = IF ses[t].ptr.id = e.id THEN e ELSE ses[t].ptr
               /\ t = s => ses'[t] = Quiet
    <3>1. ses[t] \in Record /\ Placed(ses[t])
      BY DEF CommandsInv, Shaped
    <3>2. CASE t = s
      BY <2>1, <3>2, QuietFine
    <3>3. CASE t # s /\ ses[t].ptr.id # e.id
      BY <2>1, <3>1, <3>3
    <3>4. CASE t # s /\ ses[t].ptr.id = e.id
      <4>1. ses[t].ptr \in Entry /\ ses'[t] = [ses[t] EXCEPT !.ptr = e]
        BY <2>1, <2>2, <2>5, <3>4
      <4>2. ses[t].at # "idle"
        BY <3>1, <4>1, QuietFine DEF Placed
      <4>3. ses'[t] \in Record /\ Placed(ses'[t])
        BY <2>4, <3>1, <4>1, <4>2 DEF Record, Placed, Pointer
      <4> QED
        BY <3>1, <3>4, <4>1, <4>3 DEF Record
    <3> QED
      BY <3>2, <3>3, <3>4
  <2>7. data' \in [Keys -> Pointer] /\ ses' \in [Sessions -> Record]
    BY <1>1, <2>1, <2>4, <2>6 DEF Pointer
  <2>8. Shaped'
    BY <1>1, <2>6, <2>7, SeesType DEF CommandsInv, Shaped
  <2>9. Shared'
    <3>1. \A h \in Keys : data'[h].id = data[h].id /\ (data'[h] # Absent <=> data[h] # Absent)
      BY <1>1, <2>1, <2>2, <2>4, Pointers
    <3>2. \A h \in Keys : h # k => data'[h] = data[h] /\ (data[h] # Absent => data[h].id # e.id)
      BY <1>1, <2>1, <2>2, <2>4 DEF CommandsInv, Shared
    <3>3. \A t \in Sessions : t # s => ses'[t].ptr.id = ses[t].ptr.id /\ ses'[t].at = ses[t].at
      BY <2>6
    <3>4. ASSUME NEW h \in Keys, NEW t \in Sessions,
                 data'[h] # Absent, data'[h].id = ses'[t].ptr.id
          PROVE  data'[h] = ses'[t].ptr /\ ses'[t].at # "put"
      <4>1. t # s
        BY <2>6, <2>7, <3>4, Pointers, QuietFine
      <4>2. data[h] # Absent /\ data[h].id = ses[t].ptr.id
        BY <3>1, <3>3, <3>4, <4>1
      <4>3. data[h] = ses[t].ptr /\ ses[t].at # "put"
        BY <4>2 DEF CommandsInv, Shared
      <4>4. CASE h = k
        BY <1>1, <2>1, <2>4, <2>6, <3>3, <4>1, <4>2, <4>3, <4>4
      <4>5. CASE h # k
        BY <2>6, <3>2, <3>3, <4>1, <4>2, <4>3, <4>5
      <4> QED
        BY <4>4, <4>5
    <3>5. \A t, u \in Sessions : ses'[t].at = "put" /\ ses'[t].ptr.id = ses'[u].ptr.id => t = u
      <4>1. \A t \in Sessions : ses[t].at = "put" => ses[t].ptr.id # Absent.id
        BY Pointers DEF CommandsInv, Shaped, Placed
      <4>2. ses'[s].at = "idle" /\ ses'[s].ptr = Absent
        BY <2>6, QuietFine
      <4> QED
        BY <3>3, <4>1, <4>2 DEF CommandsInv, Shared
    <3> QED
      BY <3>1, <3>4, <3>5 DEF CommandsInv, Shared
  <2>10. Witnessed'
    <3>1. ASSUME NEW t \in Sessions, t # s
          PROVE  (Found(ses[t], sees[t]) /\ Walked(ses[t], sees[t]))'
      <4>1. /\ Placed(ses[t]) /\ Found(ses[t], sees[t]) /\ Walked(ses[t], sees[t])
            /\ ses[t] \in Record
        BY DEF CommandsInv, Shaped, Witnessed
      <4>2. CASE ses[t].ptr.id # e.id
        <5>1. ses'[t] = ses[t] /\ now' \in Int /\ now' >= now
          BY <1>1, <2>1, <3>1, <4>2
        <5> QED
          BY <5>1, OthersWitness DEF CommandsInv
      <4>3. CASE ses[t].ptr.id = e.id
        <5>1. /\ ses'[t].at = ses[t].at /\ ses'[t].key = ses[t].key /\ ses'[t].ptr = e
              /\ ses[t].ptr = data[k]
          BY <2>5, <2>6, <3>1, <4>3
        <5>2. ses[t].at \in {"check", "reclaim", "remaining"}
          BY <2>2, <2>5, <4>1, <4>3, <5>1 DEF Placed
        <5>3. ses[t].at \in {"check", "remaining"} => Met(ses[t], sees[t])
          BY <2>1, <4>1, <5>1 DEF Found, Live
        <5>4. ses[t].at \in {"check", "remaining"} => sees[t].ever \subseteq sees'[t].ever
          BY <4>1, SeesMore DEF Placed, Looks, Reads, At
        <5>5. Found(ses[t], sees[t])'
          BY <2>4, <5>1, <5>3, <5>4 DEF Found, Met
        <5>6. Walked(ses[t], sees[t])'
          BY <5>1, <5>2 DEF Walked
        <5> QED
          BY <5>5, <5>6
      <4> QED
        BY <4>2, <4>3
    <3>2. (Found(ses[s], sees[s]) /\ Walked(ses[s], sees[s]))'
      BY <2>6, QuietFine DEF Found, Walked
    <3> QED
      BY <3>1, <3>2 DEF Witnessed
  <2>11. Said'
    <3>1. data'[k].exp = d
      BY <1>1, <2>1, <2>4
    <3> QED
      BY <1>1, <2>0, <2>1, <2>3, <3>1 DEF ReplyTo, Said, HitsAreReal, NoImmortal, Told
  <2> QED
    BY <2>8, <2>9, <2>10, <2>11 DEF CommandsInv
<1> QED
  BY <1>2, <1>3

-----------------------------------------------------------------------------
(* The walk.                                                                *)

LEMMA AskKeeps ==
  ASSUME CommandsInv, Observe, NEW s \in Sessions,
         AskSize(s) \/ \E p \in Patterns : AskKeys(s, p)
  PROVE  CommandsInv'
<1>1. PICK name \in {"KEYS", "DBSIZE"}, p \in Patterns \union {<<>>} :
        Begin(s, name, "walk", p) /\ (name = "KEYS" => p \in Patterns)
  BY DEF AskSize, AskKeys
<1> DEFINE c == [Quiet EXCEPT !.at = "walk", !.name = name, !.key = p]
<1>2. c \in Record /\ Placed(c)
  <2>1. c \in Record
    BY <1>1, QuietFine DEF Quiet, Record, Looks
  <2>2. c.at = "walk" /\ c.ptr = Absent /\ c.name = name /\ c.key = p
    BY DEF Quiet
  <2> HIDE DEF c
  <2> QED
    BY <1>1, <2>1, <2>2, Pointers DEF Placed, Looks
<1>3. c.ptr = Absent /\ c.at = "walk" /\ c.found = {} /\ c.shard = 1 /\ c.n = 0
  BY DEF Quiet
<1>4. Change(s, c) /\ UNCHANGED <<now, data>>
  BY <1>1 DEF Begin
<1> HIDE DEF c
<1> QED
  BY <1>2, <1>3, <1>4, BeginKeeps

LEMMA WalkKeeps == ASSUME CommandsInv, Observe, NEW s \in Sessions, Walk(s) PROVE CommandsInv'
<1> DEFINE i == ses[s].shard
           p == ses[s].key
           here == {k \in InShard(i) : Live(k) /\ Selects(p, k)}
           found == IF ses[s].name = "KEYS" THEN ses[s].found \union here ELSE {}
           n == ses[s].n + (IF ses[s].name = "KEYS" THEN Cardinality(here)
                            ELSE Cardinality(InShard(i)))
           c == [ses[s] EXCEPT !.shard = i + 1, !.found = found, !.n = n]
<1>1. /\ ses[s] \in Record /\ Placed(ses[s]) /\ ses[s].at = "walk" /\ UNCHANGED <<now, data>>
      /\ data \in [Keys -> Pointer] /\ ses \in [Sessions -> Record]
  BY DEF CommandsInv, Shaped, Walk, At
<1>2. /\ ses[s].name \in {"KEYS", "DBSIZE"} /\ (ses[s].name = "KEYS" => p \in Patterns)
      /\ i \in 1..Shards /\ ses[s].found \in SUBSET Keys /\ ses[s].n \in Int /\ ses[s].ptr = Absent
  BY <1>1 DEF Placed, Record, Pointer
<1>3. /\ IsFiniteSet(InShard(i)) /\ IsFiniteSet(here) /\ IsFiniteSet(ses[s].found)
      /\ InShard(i) \subseteq Keys
      /\ Cardinality(here) \in Nat /\ Cardinality(InShard(i)) \in Nat
  BY <1>2, KeysAssumption, FS_Subset, FS_CardinalityType DEF InShard
<1>4. found \in SUBSET Keys /\ n \in Int
  BY <1>2, <1>3
(* After the shard, everything behind the walk is found.                    *)
<1>5. ASSUME ses[s].name = "KEYS"
      PROVE  /\ \A k \in sees'[s].always : Selects(p, k) /\ ShardOf[k] <= i => k \in found
             /\ \A k \in found : /\ k \in Keys /\ Selects(p, k) /\ ShardOf[k] <= i
                                 /\ \E v \in Values : <<k, v>> \in sees'[s].ever
             /\ n = Cardinality(found)
  <2>1. /\ \A k \in sees[s].always : Selects(p, k) /\ ShardOf[k] < i => k \in ses[s].found
        /\ \A k \in ses[s].found : /\ Selects(p, k) /\ ShardOf[k] < i
                                   /\ \E v \in Values : <<k, v>> \in sees[s].ever
        /\ ses[s].n = Cardinality(ses[s].found)
    BY <1>1, <1>5 DEF CommandsInv, Witnessed, Walked
  <2>2. /\ sees'[s].always \subseteq sees[s].always
        /\ \A k \in sees'[s].always : k \in Keys /\ Live(k)'
        /\ sees[s].ever \subseteq sees'[s].ever
        /\ \A k \in Keys : Live(k)' => <<k, data'[k].value>> \in sees'[s].ever
    BY <1>1, <1>5, SeesMore DEF At, Reads
  <2>3. \A k \in Keys : Live(k)' <=> Live(k)
    BY <1>1 DEF Live, IsExpired
  <2>4. \A k \in Keys : ShardOf[k] \in 1..Shards
    BY ShardsAssumption
  <2>5. \A k \in here : /\ k \in Keys /\ ShardOf[k] = i /\ Live(k) /\ Selects(p, k)
                        /\ data[k].value \in Values
    <3>1. \A k \in Keys : data[k] # Absent => data[k].value \in Values
      BY <1>1, Pointers DEF Entry
    <3> QED
      BY <3>1 DEF InShard
  <2>6. \A k \in Keys : ShardOf[k] = i /\ Live(k) /\ Selects(p, k) => k \in here
    BY DEF InShard, Live
  <2>7. ses[s].found \intersect here = {}
    BY <1>2, <2>1, <2>4, <2>5
  <2>8. found = ses[s].found \union here /\ n = ses[s].n + Cardinality(here)
    BY <1>5
  <2>9. n = Cardinality(found)
    <3>1. Cardinality(ses[s].found \union here)
            = Cardinality(ses[s].found) + Cardinality(here) - Cardinality({})
      BY <1>3, <2>7, FS_Union
    <3> HIDE DEF here, found, n
    <3> QED
      BY <1>2, <1>3, <2>1, <2>8, <3>1, FS_EmptySet, FS_CardinalityType
  <2> HIDE DEF here, n, found
  <2>10. \A k \in sees'[s].always : Selects(p, k) /\ ShardOf[k] <= i => k \in found
    BY <1>2, <2>1, <2>2, <2>3, <2>4, <2>6, <2>8
  <2>11. \A k \in found : /\ k \in Keys /\ Selects(p, k) /\ ShardOf[k] <= i
                          /\ \E v \in Values : <<k, v>> \in sees'[s].ever
    <3>1. ASSUME NEW k \in ses[s].found
          PROVE  /\ k \in Keys /\ Selects(p, k) /\ ShardOf[k] <= i
                 /\ \E v \in Values : <<k, v>> \in sees'[s].ever
      <4>1. k \in Keys /\ Selects(p, k) /\ ShardOf[k] < i
            /\ \E v \in Values : <<k, v>> \in sees[s].ever
        BY <1>2, <2>1, <3>1
      <4> QED
        BY <1>2, <2>2, <2>4, <4>1
    <3>2. ASSUME NEW k \in here
          PROVE  /\ k \in Keys /\ Selects(p, k) /\ ShardOf[k] <= i
                 /\ \E v \in Values : <<k, v>> \in sees'[s].ever
      <4>1. k \in Keys /\ ShardOf[k] = i /\ Live(k) /\ Selects(p, k) /\ data[k].value \in Values
        BY <2>5, <3>2
      <4>2. <<k, data[k].value>> \in sees'[s].ever
        BY <1>1, <2>2, <2>3, <4>1
      <4> QED
        BY <1>2, <4>1, <4>2
    <3> QED
      BY <2>8, <3>1, <3>2
  <2> QED
    BY <2>9, <2>10, <2>11
<1> HIDE DEF found, n, here
<1>6. CASE LastShard(i) /\ Done(s, found, n)
  <2>1. sees' \in [Sessions -> [always : SUBSET Keys, ever : SUBSET (Keys \X Values)]]
    BY <1>1, SeesType DEF CommandsInv
  <2>2. \A k \in sees'[s].always : ShardOf[k] <= i
    BY <1>6, <2>1, ShardsAssumption DEF LastShard
  <2>3. answer' = ReplyTo(s, found, n)
    BY <1>6 DEF Done
  <2>4. Said'
    BY <1>2, <1>5, <2>2, <2>3 DEF ReplyTo, Said, HitsAreReal, NoImmortal, Told
  <2> QED
    BY <1>1, <1>6, <2>4, EndKeeps, EndShared
<1>7. CASE ~LastShard(i) /\ Change(s, c)
  <2>1. i + 1 \in 1..Shards
    BY <1>2, <1>7, ShardsAssumption DEF LastShard
  <2>2. /\ c.at = "walk" /\ c.name = ses[s].name /\ c.key = p /\ c.ptr = Absent
        /\ c.shard = i + 1 /\ c.found = found /\ c.n = n
    BY <1>1, <1>2 DEF Record
  <2>3. c \in Record /\ Placed(c)
    BY <1>1, <1>2, <1>4, <2>1, Pointers DEF Record, Placed
  <2> HIDE DEF c
  <2>4. Found(c, sees'[s])
    BY <2>2 DEF Found
  <2>5. Walked(c, sees'[s])
    <3>1. sees' \in [Sessions -> [always : SUBSET Keys, ever : SUBSET (Keys \X Values)]]
      BY <1>1, SeesType DEF CommandsInv
    <3>2. \A k \in Keys : ShardOf[k] <= i <=> ShardOf[k] < i + 1
      BY <1>2, ShardsAssumption
    <3> QED
      BY <1>5, <2>2, <3>1, <3>2 DEF Walked
  <2>6. Shared'
    BY <1>1, <1>7, <2>2, SharedKept DEF Change, CommandsInv
  <2> QED
    BY <1>1, <1>7, <2>3, <2>4, <2>5, <2>6, NothingSaid, Assembled DEF Change
<1> QED
  BY <1>6, <1>7 DEF Walk, found, n, here

-----------------------------------------------------------------------------
(* The clock, the TTL manager and eviction move no session.                 *)

LEMMA SystemKeeps ==
  ASSUME CommandsInv, Observe, Tick \/ \E k \in Keys : Reclaim(k) \/ Evict(k)
  PROVE  CommandsInv'
<1>1. /\ data \in [Keys -> Pointer] /\ now \in 1..MaxInt
      /\ ses' = ses /\ answer' = Nothing
  BY DEF CommandsInv, Shaped, Tick, Reclaim, Evict
<1>2. data' \in [Keys -> Pointer] /\ \A k \in Keys : data'[k] \in {data[k], Absent}
  BY <1>1, Pointers DEF Tick, Reclaim, Evict, Without
<1>3. now' \in 1..MaxInt /\ now' >= now
  BY <1>1, AmountsAssumption DEF Tick, Reclaim, Evict
<1>4. Shaped'
  BY <1>1, <1>2, <1>3, SeesType DEF CommandsInv, Shaped
<1>5. Shared'
  BY <1>1, <1>2, SharedKept DEF CommandsInv
<1>6. Witnessed'
  BY <1>1, <1>3, OthersWitness DEF CommandsInv, Witnessed
<1> QED
  BY <1>1, <1>4, <1>5, <1>6, NothingSaid DEF CommandsInv

LEMMA SessionKeeps == ASSUME CommandsInv, Observe, NEW s \in Sessions, Session(s) PROVE CommandsInv'
<1>1. CASE \E k \in Keys, name \in {"GET", "TTL", "EXISTS"} : Look(s, k, name)
  BY <1>1, LookKeeps DEF Looks
<1>2. CASE Lookup(s) \/ CheckExpiry(s) \/ LazyExpire(s) \/ ReadTTL(s)
  BY <1>2, LookupKeeps, CheckExpiryKeeps, LazyExpireKeeps, ReadTTLKeeps
<1>3. CASE \E k \in Keys, v \in Values, amount \in Amounts \union {0} : Write(s, k, v, amount)
  BY <1>3, WriteKeeps
<1>4. CASE NewEntry(s) \/ Put(s) \/ PutRefused(s)
  BY <1>4, NewEntryKeeps, PutKeeps
<1>5. CASE \E k \in Keys : Del(s, k)
  BY <1>5, DelKeeps DEF Del
<1>6. CASE Delete(s) \/ SetTTL(s)
  BY <1>6, DeleteKeeps, SetTTLKeeps
<1>7. CASE \E k \in Keys, amount \in Amounts : Expire(s, k, amount)
  BY <1>7, ExpireKeeps
<1>8. CASE (\E p \in Patterns : AskKeys(s, p)) \/ AskSize(s)
  BY <1>8, AskKeeps
<1>9. CASE Walk(s)
  BY <1>9, WalkKeeps
<1> QED
  BY <1>1, <1>2, <1>3, <1>4, <1>5, <1>6, <1>7, <1>8, <1>9 DEF Session

LEMMA CommandsInvHolds == CommandsSpec => []CommandsInv
<1>1. CommandsInit => CommandsInv
  <2> SUFFICES ASSUME CommandsInit PROVE CommandsInv
    OBVIOUS
  <2>1. Shaped
    <3>1. 1 \in 1..MaxInt
      BY AmountsAssumption
    <3> QED
      BY <3>1, Pointers, QuietFine DEF CommandsInit, Shaped, Unseen
  <2>2. Shared /\ Witnessed
    BY QuietFine DEF CommandsInit, Shared, Witnessed, Found, Walked
  <2>3. Said
    BY DEF CommandsInit, Said, HitsAreReal, NoImmortal, Told, Nothing, None
  <2> QED
    BY <2>1, <2>2, <2>3 DEF CommandsInv
<1>2. CommandsInv /\ [CommandsNext]_commandsVars => CommandsInv'
  <2>1. ASSUME CommandsInv, UNCHANGED commandsVars PROVE CommandsInv'
    BY <2>1 DEF commandsVars, CommandsInv, Shaped, Shared, Witnessed, Found, Met, IsExpired, Walked,
                Said, HitsAreReal, NoImmortal, Told, Ever
  <2> QED
    BY <2>1, SessionKeeps, SystemKeeps DEF CommandsNext, System
<1> QED
  BY <1>1, <1>2, PTL DEF CommandsSpec

(* A value GET returns, and a key EXISTS or TTL report, was live at some    *)
(* moment of the command, for any number of sessions, keys and entries: the *)
(* entry may be overwritten, evicted and given another deadline while the   *)
(* reader still holds it (Engine.Get, Engine.TTL, Shard.UpdateExpiry).      *)
THEOREM HitsAreAlwaysReal == CommandsSpec => []HitsAreReal
<1>1. CommandsInv => HitsAreReal
  BY DEF CommandsInv, Said
<1> QED
  BY <1>1, CommandsInvHolds, PTL

(* No EXPIRE that was applied leaves a key that never dies, whatever number *)
(* the client computed, and although the sum that makes the deadline may    *)
(* wrap when the clock moves between the check and the lock (expiryFor,     *)
(* Shard.UpdateExpiry).                                                     *)
THEOREM NoneIsImmortal == CommandsSpec => []NoImmortal
<1>1. CommandsInv => NoImmortal
  BY DEF CommandsInv, Said
<1> QED
  BY <1>1, CommandsInvHolds, PTL

(* If the matcher agrees with the reference on the patterns and keys used,  *)
(* KEYS, one lock per shard, answers every matching key that was live all   *)
(* along, none that never was, and none twice (Engine.Keys, Shard.Keys).    *)
THEOREM KeysAreComplete ==
  ASSUME \A p \in Patterns, k \in Keys : MatchGlob(p, k) = Means(p, k)
  PROVE  CommandsSpec => []KeysComplete
<1>1. ASSUME NEW p \in Patterns, NEW k \in Keys PROVE Wanted(p, k) <=> Selects(p, k)
  BY DEF Wanted, Selects, MatchesEveryKey
<1>2. CommandsInv => KeysComplete
  <2> SUFFICES ASSUME CommandsInv, answer.name = "KEYS"
               PROVE  /\ \A k \in sees[answer.by].always : Wanted(answer.key, k) => k \in answer.found
                      /\ \A k \in answer.found : Wanted(answer.key, k) /\ Ever(answer.by, k)
                      /\ answer.n = Cardinality(answer.found)
    BY DEF KeysComplete
  <2>1. sees[answer.by].always \subseteq Keys
    BY DEF CommandsInv, Shaped, Said, Told
  <2> QED
    BY <1>1, <2>1 DEF CommandsInv, Said, Told, Ever
<1> QED
  BY <1>2, CommandsInvHolds, PTL
=============================================================================
