-------------------------------- MODULE Scan --------------------------------
(***************************************************************************)
(* Snapshot scans: internal/storage/scan.go, with Shard.Keys and           *)
(* Shard.liveKeys.                                                         *)
(*                                                                         *)
(* One mutex covers the registry for the length of a page, but a page      *)
(* takes each shard's lock once per snapshot and once per batch, and       *)
(* writers come in between.  A page is split there.                        *)
(*                                                                         *)
(* The order of keys within a snapshot is the order of a Go map, so a      *)
(* snapshot is a set of which batches take arbitrary members.  The LRU     *)
(* list is the order of last use; whatever has gone idle is a suffix of    *)
(* it, so the least recently used cursors there are.                       *)
(***************************************************************************)
EXTENDS Naturals, FiniteSets, FiniteSetsExt

CONSTANTS
  Keys, Shards, ShardOf,  \* the keyspace; the shards are 1..Shards
  Volatile,               \* the keys that writers create and remove meanwhile
  Owners, Ids,            \* connections and cursor ids
  MaxPerOwner, MaxBytes,  \* MaxScanCursorsPerConn, MaxScanSnapshotBytes
  Overhead, KeyCost,      \* what a cursor and a key in a snapshot cost
  Counts                  \* page sizes a client asks for

ASSUME ShardOfType == Shards \in Nat /\ ShardOf \in [Keys -> 1..Shards]
ASSUME KeysFinite == IsFiniteSet(Keys) /\ IsFiniteSet(Ids)
ASSUME VolatileType == Volatile \subseteq Keys
(* One cursor fits: with a smaller cap the engine refuses every scan.       *)
ASSUME OverheadFits == Overhead <= MaxBytes
ASSUME BoundsType == /\ MaxPerOwner \in Nat /\ MaxBytes \in Nat
                     /\ Overhead \in Nat /\ KeyCost \in Nat
                     /\ Counts \subseteq Nat \ {0}

Start == "0"

VARIABLES
  live,      \* keys present and not expired
  reg,       \* the registry: cursors, the pairs <<i, j>> of which j was used
             \* after i, counters
  page,      \* the page in progress, under the registry's mutex
  engine,    \* open, closing once closed is set, closed after closeAll
  asked,     \* asked[o]: the page o asked for, past the closed check
  due, got   \* for each cursor: keys present ever since its scan began, and
             \* keys its owner has been given

vars == <<live, reg, page, engine, asked, due, got>>
history == <<due, got>>

-----------------------------------------------------------------------------
(* The registry *)

NoCursor == [owner |-> {}, shard |-> 0, size |-> 0, rest |-> {}]
NoPage == [owner |-> {}, id |-> Start, count |-> 0]
Nothing == [id |-> Start, count |-> 0]

Cost(n) == Overhead + n * KeyCost

Opened(r) == {i \in Ids : r.cursor[i].owner # {}}
Held(r, o) == {i \in Opened(r) : r.cursor[i].owner = {o}}
Idle == page = NoPage

(* The bytes the cursors D are accounted at: one cell per byte, so that a  *)
(* sum of sizes is a cardinality.                                          *)
Cells(f, D) == {c \in D \X (1..MaxBytes) : c[2] <= f[c[1]].size}
Bytes(f, D) == Cardinality(Cells(f, D))

(* Mutated: the slot of the connection is not given back.                  *)
DropAll_KeepSlot(r, D) ==
  [r EXCEPT !.cursor = [i \in Ids |-> IF i \in D THEN NoCursor ELSE r.cursor[i]],
            !.order = {e \in r.order : e[1] \notin D /\ e[2] \notin D},
            !.bytes = @ - Bytes(r.cursor, D)]

(* dropLocked, for each of a set of cursors.                               *)
DropAll(r, D) ==
  [cursor  |-> [i \in Ids |-> IF i \in D THEN NoCursor ELSE r.cursor[i]],
   order   |-> {e \in r.order : e[1] \notin D /\ e[2] \notin D},
   bytes   |-> r.bytes - Bytes(r.cursor, D),
   perConn |-> [o \in Owners |-> r.perConn[o] - Cardinality(Held(r, o) \cap D)]]

(* MoveToFront and PushFront: i was used last.                             *)
Foremost(r, i) ==
  {e \in r.order : e[1] # i /\ e[2] # i} \union ((Opened(r) \ {i}) \X {i})

(* The n least recently used cursors other than those of keep.             *)
Oldest(r, keep, n) ==
  LET others == Opened(r) \ keep
  IN  {i \in others : Cardinality({j \in others : <<j, i>> \in r.order}) < n}

Evictable(r, keep) == 0..Cardinality(Opened(r) \ keep)

Fits(r, keep, want, n) == DropAll(r, Oldest(r, keep, n)).bytes + want <= MaxBytes

(* makeRoomLocked: evict as few as it takes, or everyone in vain.          *)
RoomFor(r, keep, want) == \E n \in Evictable(r, keep) : Fits(r, keep, want, n)

Evicting(r, keep, want) ==
  LET enough == {n \in Evictable(r, keep) : Fits(r, keep, want, n)}
      n == IF enough = {} THEN Cardinality(Opened(r) \ keep)
           ELSE CHOOSE m \in enough : \A x \in enough : m <= x
  IN  DropAll(r, Oldest(r, keep, n))

-----------------------------------------------------------------------------
(* A page begins *)

(* Scan checks for a closed engine, then waits for the mutex.              *)
AskFor(o, id) ==
  /\ engine = "open"
  /\ asked[o] = Nothing
  /\ \E n \in Counts : asked' = [asked EXCEPT ![o] = [id |-> id, count |-> n]]
  /\ UNCHANGED <<live, reg, page, engine, history>>

Ask(o) == \E id \in Ids \union {Start} : AskFor(o, id)

(* sweepLocked: the cursors idle past the timeout, oldest first.           *)
Swept(r, n) == DropAll(r, Oldest(r, {}, n))

Answer(o) == asked' = [asked EXCEPT ![o] = Nothing]

Turn(o) == asked[o] # Nothing /\ Idle

Refuse(o, r) ==
  /\ reg' = r
  /\ Answer(o)
  /\ UNCHANGED <<live, page, engine, history>>

(* openLocked: the connection's limit comes first, then the byte cap.  Ids *)
(* are random, so a new one is not that of a cursor dropped just before.   *)
Open(o) ==
  /\ Turn(o) /\ asked[o].id = Start
  /\ \E n \in Evictable(reg, {}), i \in Ids :
       LET r == Swept(reg, n)
           room == Evicting(r, {}, Overhead)
       IN  /\ i \notin Opened(reg)
           /\ r.perConn[o] < MaxPerOwner
           /\ reg' = [cursor  |-> [room.cursor EXCEPT ![i] =
                        [owner |-> {o}, shard |-> 0, size |-> Overhead, rest |-> {}]],
                      order   |-> Foremost(room, i),
                      bytes   |-> room.bytes + Overhead,
                      perConn |-> [room.perConn EXCEPT ![o] = @ + 1]]
           /\ page' = [owner |-> {o}, id |-> i, count |-> asked[o].count]
           /\ due' = [due EXCEPT ![i] = live]
           /\ got' = [got EXCEPT ![i] = {}]
  /\ Answer(o)
  /\ UNCHANGED <<live, engine>>

TooMany(o) ==
  /\ Turn(o) /\ asked[o].id = Start
  /\ \E n \in Evictable(reg, {}) :
       LET r == Swept(reg, n) IN r.perConn[o] >= MaxPerOwner /\ Refuse(o, r)

(* Mutated: anyone may use any cursor.                                     *)
Known_Anyones(o, i, r) == i \in Opened(r)

(* Another connection's cursor is no cursor at all.                        *)
Known(o, i, r) == i \in Held(r, o)

Resume(o) ==
  LET i == asked[o].id IN
  /\ Turn(o) /\ i # Start
  /\ \E n \in Evictable(reg, {}) :
       LET r == Swept(reg, n) IN
       /\ Known(o, i, r)
       /\ reg' = [r EXCEPT !.order = Foremost(r, i)]
  /\ page' = [owner |-> {o}, id |-> i, count |-> asked[o].count]
  /\ Answer(o)
  /\ UNCHANGED <<live, engine, history>>

Unknown(o) ==
  LET i == asked[o].id IN
  /\ Turn(o) /\ i # Start
  /\ \E n \in Evictable(reg, {}) :
       LET r == Swept(reg, n) IN ~Known(o, i, r) /\ Refuse(o, r)

-----------------------------------------------------------------------------
(* A page proceeds *)

Current == reg.cursor[page.id]
Exhausted == Current.rest = {}

(* Mutated: the position stops one short, at the last key of the batch.    *)
Batch_OffByOne ==
  LET c == Current
      n == IF page.count < Cardinality(c.rest) THEN page.count ELSE Cardinality(c.rest)
  IN  /\ ~Idle /\ page.count > 0 /\ ~Exhausted
      /\ \E B \in kSubset(n, c.rest) : \E last \in B :
           /\ reg' = [reg EXCEPT !.cursor[page.id].rest = (@ \ B) \union {last}]
           /\ got' = IF page.owner = c.owner
                     THEN [got EXCEPT ![page.id] = @ \union (B \cap live)]
                     ELSE got
      /\ page' = [page EXCEPT !.count = @ - n]
      /\ UNCHANGED <<live, engine, asked, due>>

(* liveKeys: one batch, judged under one hold of the shard's lock.         *)
Batch ==
  LET c == Current
      n == IF page.count < Cardinality(c.rest) THEN page.count ELSE Cardinality(c.rest)
  IN  /\ ~Idle /\ page.count > 0 /\ ~Exhausted
      /\ \E B \in kSubset(n, c.rest) :
           /\ reg' = [reg EXCEPT !.cursor[page.id].rest = @ \ B]
           /\ got' = IF page.owner = c.owner
                     THEN [got EXCEPT ![page.id] = @ \union (B \cap live)]
                     ELSE got
      /\ page' = [page EXCEPT !.count = @ - n]
      /\ UNCHANGED <<live, engine, asked, due>>

KeysOf(s) == {k \in live : ShardOf[k] = s}

(* The snapshot it steps off is released before the next is admitted.      *)
Released ==
  [reg EXCEPT !.cursor[page.id].size = 0, !.cursor[page.id].rest = {},
              !.bytes = @ - Current.size]

(* advanceLocked, with the snapshot of the next shard.                     *)
Advance ==
  LET next == Current.shard + 1
      need == Cost(Cardinality(KeysOf(next)))
      room == Evicting(Released, {page.id}, need)
  IN  /\ ~Idle /\ page.count > 0 /\ Exhausted /\ next <= Shards
      /\ RoomFor(Released, {page.id}, need)
      /\ reg' = [room EXCEPT
                   !.cursor[page.id] = [@ EXCEPT !.shard = next, !.size = need,
                                                 !.rest = KeysOf(next)],
                   !.bytes = @ + need]
      /\ UNCHANGED <<live, page, engine, asked, history>>

(* It does not fit with every other cursor gone: the scan is over, and the *)
(* keys of this page are not delivered.                                    *)
AdvanceRefused ==
  LET next == Current.shard + 1
      need == Cost(Cardinality(KeysOf(next)))
      room == Evicting(Released, {page.id}, need)
  IN  /\ ~Idle /\ page.count > 0 /\ Exhausted /\ next <= Shards
      /\ ~RoomFor(Released, {page.id}, need)
      /\ reg' = DropAll(room, {page.id})
      /\ page' = NoPage
      /\ UNCHANGED <<live, engine, asked, history>>

(* Every shard has been walked: the cursor goes, and "0" is returned.      *)
Finish ==
  /\ ~Idle /\ page.count > 0 /\ Exhausted /\ Current.shard = Shards
  /\ reg' = DropAll(reg, {page.id})
  /\ page' = NoPage
  /\ UNCHANGED <<live, engine, asked, history>>

PageDone ==
  /\ ~Idle /\ page.count = 0
  /\ page' = NoPage
  /\ UNCHANGED <<live, reg, engine, asked, history>>

-----------------------------------------------------------------------------
(* Connections come to an end, the engine closes, keys come and go.        *)
(* Shard.Clear is each key's Vanish; a writer past the closed check may    *)
(* still Create one.                                                       *)

Release(o) ==
  /\ Idle /\ asked[o] = Nothing
  /\ reg' = DropAll(reg, Held(reg, o))
  /\ UNCHANGED <<live, page, engine, asked, history>>

Close ==
  /\ engine = "open"
  /\ engine' = "closing"
  /\ UNCHANGED <<live, reg, page, asked, history>>

CloseAll ==
  /\ engine = "closing" /\ Idle
  /\ engine' = "closed"
  /\ reg' = DropAll(reg, Opened(reg))
  /\ UNCHANGED <<live, page, asked, history>>

Create(k) ==
  /\ k \notin live
  /\ live' = live \union {k}
  /\ UNCHANGED <<reg, page, engine, asked, history>>

(* Deleted, evicted or expired: no scan owes it any longer.                *)
Vanish(k) ==
  /\ k \in live
  /\ live' = live \ {k}
  /\ due' = [i \in Ids |-> due[i] \ {k}]
  /\ UNCHANGED <<reg, page, engine, asked, got>>

Init ==
  /\ live \in SUBSET Keys
  /\ reg = [cursor |-> [i \in Ids |-> NoCursor], order |-> {}, bytes |-> 0,
            perConn |-> [o \in Owners |-> 0]]
  /\ page = NoPage
  /\ engine = "open"
  /\ asked = [o \in Owners |-> Nothing]
  /\ due = [i \in Ids |-> {}]
  /\ got = [i \in Ids |-> {}]

Page == Batch \/ Advance \/ AdvanceRefused \/ Finish \/ PageDone
Begin(o) == Open(o) \/ TooMany(o) \/ Resume(o) \/ Unknown(o)

Next ==
  \/ Page \/ Close \/ CloseAll
  \/ \E o \in Owners : Ask(o) \/ Begin(o) \/ Release(o)
  \/ \E k \in Volatile : Create(k) \/ Vanish(k)

Spec == Init /\ [][Next]_vars

(* A page in progress is run; a connection asks again and again for the    *)
(* next page of each scan it has open.  Answering o is what Begin(o) does, and *)
(* one of its actions can whenever it is o's turn.                         *)
Continue(o, i) == i \in Held(reg, o) /\ AskFor(o, i)
Fairness ==
  /\ WF_vars(Page)
  /\ \A o \in Owners : SF_asked(Turn(o) /\ Answer(o))
  /\ \A o \in Owners, i \in Ids : SF_vars(Continue(o, i))
FairSpec == Spec /\ Fairness

-----------------------------------------------------------------------------
(* Properties *)

Cursor == [owner: {{}} \union {{o} : o \in Owners}, shard: 0..Shards,
           size: 0..MaxBytes, rest: SUBSET Keys]
Registry == [cursor: [Ids -> Cursor], order: SUBSET (Ids \X Ids), bytes: Nat,
             perConn: [Owners -> Nat]]

TypeOK ==
  /\ live \subseteq Keys
  /\ reg \in Registry
  /\ page \in [owner: {{}} \union {{o} : o \in Owners}, id: Ids \union {Start}, count: Nat]
  /\ engine \in {"open", "closing", "closed"}
  /\ asked \in [Owners -> [id: Ids \union {Start}, count: Nat]]
  /\ due \in [Ids -> SUBSET Keys] /\ got \in [Ids -> SUBSET Keys]

(* The order of last use is one: of two open cursors one is the older.     *)
Ordered(r) ==
  /\ r.order \subseteq Opened(r) \X Opened(r)
  /\ \A i, j \in Opened(r) : <<i, j>> \in r.order <=> i # j /\ <<j, i>> \notin r.order
  /\ \A i, j, k \in Opened(r) :
       <<i, j>> \in r.order /\ <<j, k>> \in r.order => <<i, k>> \in r.order

Exact(r) ==
  /\ r.bytes = Bytes(r.cursor, Opened(r))
  /\ \A o \in Owners : r.perConn[o] = Cardinality(Held(r, o))
  /\ Ordered(r)

(* The bookkeeping of the registry is that of the cursors it holds, and    *)
(* both caps are kept, whoever is evicted, swept or released to keep them. *)
RegistryExact ==
  /\ Exact(reg)
  /\ reg.bytes <= MaxBytes
  /\ \A o \in Owners : reg.perConn[o] <= MaxPerOwner

(* A scan that is over has returned every key that was present when it     *)
(* began and is present still (scan.go, "The guarantee").                  *)
ScanComplete ==
  [][Finish => due[page.id] \subseteq got[page.id]]_vars

(* No scan returns a key twice: what is still to come has not been given   *)
(* out, even to a key deleted and created again in the meantime.           *)
NeverTwice ==
  \A i \in Opened(reg) :
    \A k \in got[i] : ShardOf[k] <= reg.cursor[i].shard /\ k \notin reg.cursor[i].rest

(* A scan whose client keeps asking comes to an end, although writers      *)
(* create keys all the time and the engine lives on.                       *)
ScanEnds ==
  \A i \in Ids : i \in Opened(reg) ~> i \notin Opened(reg) \/ engine # "open"

=============================================================================
