# AtlasCache: a verification project

AtlasCache is an in-memory cache server written in Go that speaks RESP2. This directory holds TLA+
models of its concurrent core, the TLC configurations that check them on small instances, and TLAPS
proofs of the results that matter most for every value of the parameters.

## 1. The system

| Component | State it keeps | Operations | Interacts with |
|---|---|---|---|
| Storage engine (`internal/storage`: engine, shard, memory, entry) | per shard: map, `memoryUsed`, `keysWithTTL`, an RWMutex; shared: `usedMemory`, `maxMemory`, `closed` | Set, SetNX, Get, Delete, SetTTL, ExpiryOf, Expire, Close, SetMaxMemory | called by command handlers, by the TTL loop and by the hot reload; calls the eviction controller and the expiry scheduler |
| Eviction (`internal/eviction`) | the installed policy (atomic pointer) | SelectVictims, SetPolicy | samples a shard under its read lock |
| Active expiration (`internal/ttl`) | per stripe a four-level wheel of hints, its clock, an overflow list; the manager's state | Add, the tick loop (advance, cascade, process), Start, Stop | asks the engine for a key's expiry, then asks it to expire the key |
| Scan cursors (`storage/scan.go`) | cursors, LRU list, per-connection counts, bytes | page, release, closeAll, idle sweep | snapshots shards; evicts other connections' cursors |
| Transport (`internal/server/net_transport.go`) | tracked connections, drain flag and deadlines per connection, a WaitGroup | Serve, admit, serve, refuse, Shutdown, drain | one goroutine per connection |
| Command loop (`server.go`, `framing.go`) | output buffer, session, authentication | Handle: decode, dispatch, append, flush | the engine, the authenticator |
| Configuration (`internal/config`) | the current configuration, watches, debounce timers | reload, OnChange, Stop | callbacks set max_memory, policy, token, log level |
| Admin API, process lifecycle (`internal/admin`, `cmd/atlascache`) | readiness; start-up and shutdown order | | all of the above |
| Client SDK (`pkg/client`) | pool of connections, slots | get, put, close, call with retries | the server |
| Protocol (`internal/protocol`, `storage/glob.go`) | none: decoder, encoder, matcher | Decode, Append, MatchGlob | the command loop; the client has a decoder of its own |
| Others | logging, memory sampler, atlasctl, tools, examples, end-to-end harness | | |

What is hard in it, and what correctness means for each part:

* **Storage engine.** Writers on different shards hold different locks and share one memory tracker;
  a write reserves, displaces and stores in one hold; admission works from stale readings and evicts
  in holds of its own; expiration arrives by two routes and re-checks under the lock; reconfiguration
  and Close happen at any moment. It is correct when the counters are exact, `max_memory` is never
  passed, no live entry is reclaimed as expired, a SetNX never replaces a live entry, and every call
  returns.
* **Active expiration.** A hint is only a hint: it may be stale, early, late or duplicated. It is
  correct when every resident entry with a TTL has a hint on its way, a hint fires at its tick and not
  a rotation later, and an expired entry is eventually reclaimed without being read.
* **Scan cursors.** Correct when a key present throughout a scan is returned exactly once, the byte
  cap holds and a cursor is visible to its own connection only.
* **Transport.** Connections are accepted, refused, timed out and drained by goroutines of their own.
  Correct when the sockets served never pass the limit, a drained connection runs at most one command
  more, and after a shutdown everyone leaves.
* **Command loop.** Correct when no reply that was earned is lost or held back while the server waits
  for input, and what is held back is bounded.
* **Commands.** They let go of a shard's lock and go on using what they found. Correct when what an
  answer says was so at some moment of its command (which holds of hits and of KEYS, not of every miss).
* **Configuration and reload.** Validation must refuse what a later layer cannot honour; a renewed
  certificate is read as two files that change one after the other. Correct when a mixed pair is never
  served and a renewal noticed is served in the end.
* **Process.** Correct when nothing is left behind wherever start-up fails, and the probes tell the truth.
* **Client pool.** Correct when open connections never pass the pool size, no slot leaks, no broken
  connection is reused, and a retry never makes an answer a lie.

`PROJECT.json` lists every component with its status and every hazard at its line.

## 2. Modules

| Module | What it is |
|---|---|
| `Footprint` | entries, their expiry state and accounted size; `Bytes(f, K)`, the size of a set of keys |
| `BoundedCache` | the abstract specification of the engine: Put, Drop and Retime on a map of bounded size |
| `Engine` | the storage engine, lock hold by lock hold |
| `MCEngine` | its instances for TLC |
| `EngineProofs` | lemmas about `Bytes` and `Expiring`, the inductive invariant of `Engine` and the theorems that follow from it |
| `HintStore` | the abstract specification of a store of expiry hints: each fires at its tick |
| `Wheel`, `MCWheel` | the four-level timing wheel of one stripe; its instance |
| `WheelProofs` | the wheel's invariant, and the proof that it implements `HintStore` |
| `Expiration`, `MCExpiration` | the expiration manager (tick loop, Add, Start, Stop) against the keyspace, over one hint store per stripe; its instances |
| `ExpirationProofs` | where the hint of every key is; the stripes as hint stores |
| `Scan`, `MCScan` | the registry of scan cursors, pages and snapshots under concurrent writers; its instance |
| `ScanProofs` | the accounts of the registry, and where the keys of a scan are |
| `Transport`, `MCTransport` | accept loop, admission, one goroutine per connection, deadlines, Shutdown; its instances |
| `TransportProofs` | its inductive invariant, and the theorems that follow |
| `Framing` | the request decoder and the scanner that says whether decoding would block, as operators |
| `Handler`, `MCHandler` | the command loop of one connection over `Framing`, with authentication; its instances |
| `Glob` | the matcher of KEYS and SCAN, and what a pattern means |
| `Commands`, `MCCommands` | the commands on keys, lock by lock and clock reading by clock reading, over `Glob`; its instances |
| `HandlerProofs` | the invariant of a connection's replies (`Handler`), and that of the entries sessions share (`Commands`) |
| `Pool`, `MCPool` | the client: pool, connections, watchers, retries, against a server with one key; its instances |
| `PoolProofs` | the counting of slots, connections and callers; what is on each connection; which requests have run |
| `Replies`, `MCReplies` | the server's encoder, the client's decoder and conversions; what must come back, checked by `MCPool` |
| `Config` | validation, and what each layer derives from a configuration, as operators |
| `Process`, `MCProcess` | start-up, shutdown and every failure in between, over `Config`; its instance |
| `Reload`, `MCReload` | the watcher, its callbacks and the certificate keeper; its instances |
| `ProcessProofs` | what is open where (`Process`), and the pair a reload carries (`Reload`) |

`Reload` and `Commands` name their specification after themselves (`ReloadSpec`, `CommandsSpec`), so that
`ProcessProofs` and `HandlerProofs` can each extend two components; everywhere else it is `Spec`.

A run is a `.cfg` file that `PROJECT.json` lists. The other `.cfg` files each check one promise of a
comment that the code does not keep (section 13); TLC ends them with a counterexample.

## 3. The storage engine

### How the model corresponds to the code

Each goroutine inside the engine is a process `p` with a program counter `pc[p]`. One step is what the
code does atomically: one hold of a shard's lock, or one atomic access to the tracker. A hold that
also touches the tracker is split around that access, with `lock[s]` held in between, because the
tracker is shared by all shards:

    put       PutLock -> Reserve | ReserveRefused -> Store -> Schedule      (shard.go put, memory.go Reserve)
              PutBlocked                                                    (SetNX against a live key)
    admit     AdmitUnlimited | AdmitTooLarge | AdmitLimit -> Measure ->
              AdmitRoom | AdmitCapped | AdmitShort -> SelectVictims | NoVictims ->
              Evict -> Settle | EvictMissing -> ... -> Measure              (engine.go admit, shard.go evict)
    remove    Take -> Settle | NothingToTake                                (Delete, expire)
    read      Read (-> remove)                                              (Get with lazy reclamation)
    setttl    SetTTL | SetTTLMissing -> Reread -> Schedule                  (engine.go SetTTL)
    close     Close -> (ClearTracker -> ClearShard)* -> Cleared             (engine.go Close, shard.go Clear)
    environment: SetMaxMemory, SetPolicy, Lapse, LapseIncoming

Data is abstracted to what the properties tell apart. An entry is its accounted size (at least one
byte, at most `MaxSize`) and the state of its expiry: none, live, expired. Deadlines are arbitrary, so
the passing of one is a step of the environment that may happen to any live entry at any time. Ranking
by LRU, LFU or FIFO is any ranking of any sample. The statistics counters are left out. Keys, values
and hashes are model values.

### What the runs show

| Run | Instance | Question |
|---|---|---|
| `engine_limits` | 2 writers, 2 keys on 2 shards, sizes 1-2, limits 1-2 and policies changing; Set, SetNX, Get, Expire, Delete, Close | Does the limit hold, is eviction capped, is the tracker exact, do the clamps ever bite, does SetNX ever replace a live key? Is the engine a `BoundedCache`? |
| `engine_calls` | 2 processes, 2 keys on a shard, limits 0 (none) and 1, expiries; Set, Get, Expire, SetTTL; fairness | Are the shard's counters exact, is a live entry ever reclaimed as expired, does every call return, admission's loop included? |

Bounds. Two processes are enough for every race between two lock holds, since a step of a call sees only
what one other hold can have done in between. Two shards are needed to have two locks over one
tracker, and two keys in one shard to have a victim that is not the key being written. Sizes 1 and 2
against limits of 1 and 2 make a write that fits, one that fits only by displacing or evicting, and one
that never fits. `AdmitAttempts`, `MaxEvictionsPerWrite` and `SampleSize` are small enough to be
reached. Each process makes calls without end; nothing else is bounded, because the state is finite.

Fairness. `FairSpec` gives each process strong fairness of its own steps up to its return. The steps
wait only for a `sync.RWMutex`, which Go hands to a waiter after a bounded time (a blocked writer
excludes new readers, and a starving mutex is handed over), so a step that is enabled again and again
is taken. Nothing is assumed about calls being made, deadlines passing or reconfiguration.

What a comment says about blocked SetNX calls and about the global total is in section 13.

## 4. Active expiration

Two modules share the work along the seam the code has. `Wheel` is `wheel.go`: one stripe, every
operation of which runs under the stripe's mutex and is one step. `Expiration` is `manager.go` with the
engine's side of the conversation; it uses each stripe as the `HintStore` that `Wheel` is shown to
implement, and `StripesAreStores` checks that this is all it does with it.

### The wheel

A hint is an identity; `at[h]` is the slot that holds it (level and index) with its `expireTick`, the
overflow list, or nothing. `Add` and `Requeue` are `add` and `requeue` with `insert`; `Advance` is
`advance` with everything it calls: the chain of cascades, the overflow list, the slot that fires. The
code truncates a slot after it has re-inserted what was in it, so a hint put back into the very slot
being drained would vanish: `Cascade` says so (`Lost`), and that it never happens is part of
`WellPlaced`. Slot selection by shift and mask is division and remainder by the slot width, which is
what they are for the powers of two of the code; the model takes any geometry in which a level spans
one slot of the next.

`wheel_firing` checks a wheel of 3, 2, 2 and 2 slots, 24 ticks in all, up to tick 52: every level and
the overflow list wrap twice, and deadlines reach two rotations ahead. Two hints are enough, because
hints meet only in the pending counter. Shrinking the geometry keeps every boundary (a delay one short
of a span, equal to it, one more) and makes all of them reachable.

### The manager

| Code | Actions |
|---|---|
| `Set`, `SetNX`: `NewEntry`, the store, `schedule` | `NewEntry`, `Put`, `Schedule` |
| `SetTTL`: the change, the second reading, `schedule` | `SetTTL`, `Reread`, `Schedule` |
| `Delete`, eviction, lazy expiration | `Remove` |
| `run`, `catchUp` | `Wake`, `Turn`, `CaughtUp`, `TickDone`, `Quit` |
| `advanceOne` | `Turn`, then `AdvanceStripe` for each stripe |
| `process` | `Defer`, `Look` (ExpiryOf), then `Drop`, `Expire` or `Reinsert` |
| `Start`, `Stop` | `Start`; `Stop`, `CloseQuit`, `StopReturns`, `StopExpires`, `StopNew` |

Each lock hold and each atomic access is a step of its own where something can come in between: the
expiry is computed before the entry is stored, the hint is added after the store's lock is released,
the loop decides on a key and a clock it read earlier, and the stripes advance one after another. The
one pair taken together is Add's test of the state and its insertion: a hint that slips in behind a
Stop lies unused, as one added just before does.

Time is an integer clock of which `Step` units make a tick, so that a deadline may fall on a tick or
between two; `TickFor` is the ceiling division of `tickFor`. `HintCoverage` is the invariant behind the
package's motto "hints, not truth": deletes, overwrites and TTL changes never touch the wheel, yet every
key with an expiry has a hint on its way that is looked at no later than one tick after the expiry, or a
writer about to add one.

| Run | Instance | Question |
|---|---|---|
| `expiration_reclaim` | 2 writers, 2 keys on a stripe, 2 hints, one hint per tick, a caller of Stop; fairness | Is a key ever forgotten, or removed early? Is the stripe used as a hint store? Does every expired key go, without being read? |

Bounds. Calls begin up to `LastWrite` and the clock runs to `Horizon`, far enough for every hint of a
key written at the last moment to be fired, deferred and looked at. A lifetime of 1 against a tick of
2 gives expiries on and between ticks. `MaxHintsPerTick` is 1, so two hints of one tick already exceed
it. A writer begins only while a hint identity is free for every call in progress; the identities are
the model's, and in the code the wheel simply grows.

Fairness. The wall clock runs (`SF(Pass)`: strong, because past `LastWrite` the model holds the clock while
a call is in progress, which the code's clock does not), the loop's goroutine runs (`WF(Loop)`: it waits only for a
timer that has fired and for mutexes held for a bounded time), and a call once begun goes on
(`WF(Write)`). Nothing is assumed about Start: reclamation is promised while the manager runs.

## 5. Scan cursors

One mutex covers the registry for the length of a page, but a page takes a shard's lock once for a
snapshot and once for each batch, and writers come in between. A page is therefore a sequence of steps:

    Scan        Ask -> Open | TooMany | Resume | Unknown      (closed check; then, under the mutex, sweep and resolve)
    page        Advance | AdvanceRefused, Batch, ... -> PageDone | Finish
    others      Release, Close, CloseAll; Create and Vanish of a key

The registry is one record `reg`: the cursors, the LRU order, the byte counter and the counters per
connection, each changed as the code changes it, never recomputed. The LRU list is a relation, the pairs of
which the first was used before the second, and what cursors are accounted at is a number of cells, as in `Footprint`: neither
needs recursion, so both can be reasoned about. A sweep drops any suffix of the LRU order, which is what idle times come to, since the order is that of last use. A snapshot is a set of
which a batch takes any members, because Go iterates a map in any order. `Create` and `Vanish` are
writers, deletions, evictions, expirations and the shards' Clear. The glob filter only thins a page out,
so it is left out, as is a generator of ids that fails or repeats itself. A byte cap smaller than the
overhead of a single cursor refuses every scan; it is excluded by an assumption.

`due` and `got` are history variables: the keys present ever since a scan began, and those its owner has
been given. `ScanComplete` and `NeverTwice` are the guarantee `scan.go` states, in those terms;
`RegistryExact` says that every counter agrees with the cursors through eviction, sweep, release and a
refused snapshot, and that both caps are kept.

| Run | Instance | Question |
|---|---|---|
| `scan_pages` | 2 connections, 2 cursors, an empty shard and one of 3 keys, a cap of 3; fairness | Are the counters exact, the caps kept, the guarantee met, does a scan whose client goes on asking end? |

Bounds. A cursor costs 1 and a key 1, so a snapshot of two keys fills the cap and drives out every other
cursor, and one of three is refused outright. Pages of one key read a snapshot in several pages, with
everything else in between, which is where a key could be missed, repeated or taken by another's
request. A connection may hold one cursor, so the limit per connection is met as well as the byte cap.

Fairness. A page in progress goes on, a connection waiting for the registry's mutex is
served in the end (Go's mutex hands over to a starving waiter), and a client with a scan open asks for
its next page again and again; the last is an assumption about the client, without which a cursor stays
until the idle timeout. Writers create keys without end: each scan still ends, because a shard is
snapshotted once.

## 6. The transport

`Transport` is `net_transport.go`: the accept loop, one goroutine per connection (serving or refusing),
and Shutdown, each a program counter (`loop`, `at[c]`, `down`). A step is one hold of `t.mu`, one atomic
access, one system call or one setting of a deadline, since that is where the races are: `admit` tests
the context before it takes the lock; `armRead` loads `draining` and only then sets the deadline; `drain`
sets the flag and then the deadline; the handshake clears both deadlines when it ends; `wg.Add` runs in
the accept loop while Shutdown may be waiting.

    Serve       Accept -> AdmitCheck | ShuttingDown -> Admit | OverLimit -> Spawn; AcceptEnds, AcceptFails
    refuse      Refuse -> [Greeted, on TLS] -> Hangup
    serve       Start -> [Shaken -> ShakeClear | ShakeFails] -> Arm -> Armed -> read loop -> CloseSocket -> Untrack -> Leave
    read loop   Dribble*, Receive | TooLarge | ReadFails | ReadEnds; Ran | Panics; Touch -> Touched;
                BatchGoesOn | BatchEnds | OutputLimit; Flushed | FlushEnds; LastFlush
    Shutdown    Cancel -> CloseListener -> LockConns -> (DrainFlag -> DrainDeadline)* -> the wait -> drained, or its
                context expires and closeAll runs

A deadline is none, armed or past; an armed one may pass at any time. What a command does is `Handler`'s.

A refused connection on a TLS listener is a case of its own. `refuse` sets a write deadline and writes, but
the first write of a TLS connection runs the handshake, which reads the client's hello; no read deadline
bounds that, and the connection is not in `conns`, so no drain ends it. `Greeted` is the peer's step that ends it, and
nothing obliges the peer to take it.

| Run | Instance | Question |
|---|---|---|
| `transport_drain` | 2 clients, room for 1, a request of at most 1 partial read, with and without TLS; fairness | Is the limit kept, does a drained connection run at most one command more, does everyone leave, is a silent client reaped? |

Two clients and room for one make every combination of a served and a refused connection against the
drain; a third adds no interaction that two do not have, since connections meet only in `conns`, `wg` and
the drain's walk. Fairness: goroutines run and armed deadlines pass; nothing is assumed of a peer, so a
client that dribbles for ever, or never answers, is among the behaviours. For that reason `EveryoneLeaves`
says that each connection is gone in the end or is a refused one still in its TLS handshake, and
`MCTransport_refusal.cfg` has the counterexample to `RefusalEnds`, which is what the comment claims (section 13).

## 7. The command loop

`Framing` holds the two pieces of code that look at the read buffer, `Decode` (`resp.go`) and
`RequestBuffered` (`framing.go`), as operators on sequences of tokens (a line, or a payload with its
terminator). What the two disagree about is kept: how a number is written, a line that ends in LF alone, blank lines, empty
arrays, names without a byte of plain ASCII. `Handler` is `Handle` over it: fill, decode, gate,
`Verify` in its two loads, the reply, the batch, the flush, and each way a connection ends. The client
sends whole or partial requests, the context is canceled and the authenticator's configuration replaced
at any step, and a command may panic, which ends the connection with what it owes.

| Run | Instance | Question |
|---|---|---|
| `handler_batches` | 3 requests of 10 kinds, batches of 2 commands or 3 bytes, output of 4, replies of 1 and 3 | Is every reply delivered unless the write failed, the limit was passed or a command panicked, is what is held back bounded, does a reply wait for input? |

Scanner and decoder disagree about two kinds of frame: one with an empty name, which the scanner calls a
request and the decoder skips, and one with a signed or padded number in a header, which the decoder takes for a length
and the scanner for an error. `Misread` names them. On these the loop goes on to a read that blocks and keeps the
replies it holds, until the client sends more or the idle timeout, if one is set, ends the connection. So
`RepliesAlwaysArrive`, what the comment on `Handle` claims, is false (`MCHandler_stall.cfg`, section 13); `RepliesArrive`, which holds, excepts
a read in which such a frame is in the buffer, and no other. All these frames are among the requests
of `handler_batches`. Both assume only that the goroutine runs, not that the client ever finishes its
request: that is what makes them say something. Three requests fill a batch of two and leave one begun.

## 8. Commands and patterns

`Glob` is `glob.go`, byte by byte, with the flag that cuts backtracking short; `Means` is what a pattern
means, with no flag. `MCCommands` assumes them equal for all patterns up to 5 bytes over `* ? a b` and
keys up to 4, and for all patterns up to 4 bytes with classes, ranges, negation and escapes; TLC evaluates
the assumptions in `commands_reads`.

`Commands` splits GET, EXISTS, TTL, SET, SETNX, DEL, EXPIRE, KEYS and DBSIZE at each lock and each reading
of the clock. Entries have identities, so a reader that let the lock go goes on with a pointer to an entry
that `SetTTL` may change under it and `Put` may replace. `sees` records, for each command, what has been
live ever since it began and all that was live meanwhile; the properties are stated in those terms.

| Run | Instance | Question |
|---|---|---|
| `commands_reads` | one session reads, one writes; 2 keys on 2 shards, a clock of 3, the largest integer 3, EXPIRE and EX of -1 to 2, so that deadlines overflow | Was each hit true at some moment of its command, does KEYS have what was there all along and nothing that never was, does EXPIRE ever make a key immortal? Misses are not covered: see section 13. |

Memory is `Engine`'s, so a write may be refused and any entry evicted at any time. A KEYS of two
shards has one gap between locks; a clock of 3 lets an entry expire between any two steps.

## 9. The client

`Pool` is `pkg/client`: `call` with its retries, `get`, `put`, `close` and `dial` of the pool, one round
trip (`exchange`) with the goroutine that watches the caller's context, and the handshake. The server has
one key; it applies what it has read even if nobody waits, and hangs up at will. A deadline may pass
whenever somebody waits, and a context may be done at any step of a caller in `Hurried`.

| Run | Instance | Question |
|---|---|---|
| `pool_calls` | 2 callers (DEL, GET), 1 slot, 2 sockets, a token, 1 retry, 1 redial, one caller hurried | Does a call get its own reply, is an idle connection clean, are slots and live connections exact, does a DEL that removed the key answer 0? |
| `pool_retry` | 1 caller, EXPIRE with a time that is up, 1 retry | expected violation, see section 13 |

With one caller hurried, each order of an interrupt, a reply, a retry and a Close against the other caller
is reached; with both the run also passes, in three and a half minutes. Two sockets are one more than the
pool may open, so a breach of the ceiling is a state TLC can reach. A call per caller is enough for
a connection to be handed on, since a retry and the other caller use it again. The sockets are
interchangeable, so the run uses symmetry.

`Replies` is the way a reply takes: the server's encoder, the client's decoder (written apart from it)
and the client's conversions. `MCReplies` builds all replies up to a depth of 3 with texts that hold CR,
LF and spaces; `MCPool` assumes that what comes back is what the types' comments say (`RoundTrip`,
`MapsComeBack`), that a torn reply is short and never misread (`TornIsShort`), and that every stream is
decided (`Decided`). These operators are recursive, so they are in modules no proof uses.

## 10. Reload

`Reload` is the `Watcher` (the goroutine of file events and that of SIGHUP, which share one Loader), the
callback `main` registers, and the `CertificateKeeper`. The certificate and the key are renewed one after
the other, by rename or in place, where a file is half written for a while; three reloads (a timer for each
file, and SIGHUP) read the two files at different moments beside each other. Stop may come at any step.

| Run | Instance | Question |
|---|---|---|
| `reload_rotation` | 1 renewal, 1 save or SIGHUP; fairness | Is a mixed pair ever served? Is a renewal the watcher was told of served in the end, and from then on? |

One assumption about time is in the model, in `TimerFires`: a reload of the pair, some milliseconds of
reading, ends before the settle delay of 100 ms of a timer armed while it ran (`before`). Without it an
old reload could swap last. Fairness: the watcher's goroutines run, armed timers go off and reloads end.
One renewal is enough for the property, which is about a pair that no longer changes; `PairsOnly` is
proved for any number. The tie of a pair is modelled by the renewal it belongs to, which is what
`tls.X509KeyPair` verifies.

## 11. Process and configuration

`Config` is `validation.go` as one predicate, with what each layer derives from an accepted
configuration on its own: the engine's largest value, the codec's limits, the request budget. Sizes are
digits and a unit, and `ParseSize` multiplies in 64 bits, as the code does, so it may wrap. `Process` is
`main.go`: every step of `run` with its failure, the deferred calls, the signal, the two `Serve` goroutines
and the shutdown, each part of which ends or runs into the deadline. What happens inside a drain is
`Transport`'s, inside the TTL manager `Expiration`'s; here a part that has been told to stop is closed.

| Run | Instance | Question |
|---|---|---|
| `process_life` | some 200 configurations around each boundary, a failure anywhere, a signal anywhere | Is everything taken down wherever start-up fails, do the probes tell the truth, is an accepted configuration honoured? |

`ProbesHonest` is about what is bound: the process says ready only while both listeners and the engine are
open, and the admin listener outlives what it reports on. It does not say that a new connection is served: between the signal and
`SetReady(false)` the process is ready and turns connections away (section 13), and a writer already past
the engine's closed check is `Engine`'s to answer for.

The figures of the code (1024, 2^64, 16 MB, ...) are constants related as they are there; the run uses
small ones (Kilo 4, Word 256), in which a size wraps.

## 12. What is proved

**The storage engine.** `EngineProofs` proves, for every set of processes, keys and shards, every size and every set of limits:
`TypeCorrect`, `TrackerExact`, `ShardsExact`, `MaxMemoryHolds`, `ClampsIdle`, `SetNXExclusive`,
`NoLiveReclaimed`, `EvictionsBounded` and `Refinement` (the engine implements `BoundedCache`).

The invariant is `IInv == TypeOK /\ LockInv /\ CallInv /\ ShardExact /\ AccountingExact /\ HardLimit`.
`AccountingExact` speaks of `Committed`, what the store holds once every hold in progress has finished
the half it owes, so it is inductive only together with who holds which lock (`LockInv`: exactly the
processes between two steps of a hold, and no process two) and what a process carries between the two
(`CallInv`: the entry in hand is a real one, and what `Settle` takes off the tracker is gone from the
map). Every step then either leaves the committed sizes alone (`Quiet`, `Keep`), changes one key and the
tracker by the difference (`Move`, for Reserve and Settle), or drops a whole shard (`Discard`, for Clear).
The lemmas about `Bytes` and `Expiring` say how they follow such changes.

The same case analysis gives the refinement: each step lemma also concludes `Effect`, that the step is a
step of `BoundedCache` on the committed entries or changes neither them nor the usage. `SetNXExclusive`
needs one strengthening more, `Vacant`: a SetNX between its look at the key and its store still sees no
live entry, because it never let go of the lock. `NoLiveReclaimed` needs none. `EvictionsBounded` needs
`Rounds`: what a pass of `admit` has evicted is within its cap, and below it while a victim is still to come;
what the passes before it evicted is within theirs; and a pass that is over has handed its count on.

Assumptions: the key set is finite and not empty, every size and bound is a natural number, the limits
are a nonempty set of naturals, and `None` is no process.

**The wheel.** `WheelProofs` proves, for every geometry, every set of hints and every horizon,
`WheelTypeCorrect`, `Placement`, `PendingCounts` and `WheelRefinement`: the wheel implements `HintStore`.

The invariant is `TypeOK /\ WellPlaced /\ PendingExact`. `WellPlaced` says of a hint on level `lv` that
its slot is that of its tick, and that the clock has yet to enter that slot and will do so within one
rotation: between the two lies the window in which `(t \div w) % n` names a single slot (`ModUnique`). In a
tick, the chain of cascades re-inserts a hint at most once (`ChainMovesOnce`), because insertion puts it on
a level lower than the one it left; the hints it moves are exactly those whose slot the clock has just
entered, so those it leaves alone are still ahead of the clock (`ChainInTime`). A level wraps exactly when
the clock enters a slot of the next one (`Wrapping`, `ModOfProduct`), which is why the chain may stop at the
first level that has not wrapped. What is then in the slot about to fire is what is due (`DueExact`).
Assumed are a finite set of hints and the geometry: a first level of one tick a slot, and each level's
width times its slots the width of the next.

**Active expiration.** `ExpirationProofs`: `NoneForgotten`, `NeverTooEarly` and `StripeRefinement`, for any
number of writers, stripes, keys and hints. The invariant is `TypeOK /\ HandsOK /\ StripesOK /\ Scheduled /\
HintCoverage`. `HintCoverage` says where the hint of a key with an expiry may be: with a writer about to add
it, on its stripe with a tick that is not too late, or fired and in the hands of the loop. It is inductive once it is
known what the loop holds (`HandsOK`: hints that have fired, and a reading of the clock that is not ahead
of it) and how far the stripes are (`StripesOK`: each at the tick the loop is in, or one behind if its turn is to
come). A writer that changes a deadline between the loop's look at the key and its verdict adds a hint of its
own, which is the disjunct that then holds. `NeverTooEarly` follows from `HandsOK`: what the loop's old clock
calls expired is expired. `StripeRefinement` maps each step to one step of every stripe's `HintStore` or to none.
Assumed: there are keys, and no deadline passes the horizon that is modelled (`HorizonFits`; the code has no
horizon). With `WheelRefinement` the seam is closed on both sides: the wheel is a hint store, and
the manager, over hint stores, forgets no key.

**Scan cursors.** `ScanProofs`: `RegistryAlwaysExact`, `NeverTwiceAlways` and `ScansAreComplete`, for any
number of connections, cursors, shards and keys, and any caps. The invariant is `TypeOK /\ RegistryExact /\ PageOK
/\ WalksOK`. Bytes, slots and LRU order stay exact because each change of the registry is a set of
cursors that goes (`Dropping`), one that moves to the front (`Touching`), one that changes its size (`Moving`) or
one that comes (`Joining`); the order is total on the open cursors, and with everybody evicted a new cursor
fits (`RoomToOpen`), and a snapshot that would not fit then is refused, so the cap is kept. `WalksOK` says where each key of a scan is: given out, in the snapshot
still to be read, or on a shard the walk has not come to; the first two are disjoint, which is `NeverTwice`, and a
key that was there all along is in one of the three, which is `ScanComplete` when the last shard is
behind. Assumed: the byte cap holds one cursor's overhead (`OverheadFits`).

**The transport.** `TransportProofs`: `TypeCorrect`, `SocketsAlwaysBounded`, `WaitGroupExact` and
`OneLateCommandAlways`, for any finite set of connections and any limits. The invariant is
`TypeOK /\ LoopOK /\ Tracked /\ Late /\ WgExact`. The bound on sockets follows from `Tracked`: a connection is
in `conns` from its admission until its socket is closed, and `conns` never passes the limit. `Late`
strengthens the promise about late commands with where such a connection is: on a path that neither a
batch nor a flush leads back to the decoder from. The wait group needs to know which connection the
accept loop holds (`LoopOK`), or `wg.Add` could count one twice.

**The command loop.** `HandlerProofs`: `NothingIsOwed` and `BatchesBounded`, for every set of requests,
every cap and every configuration of the authenticator; nothing about the decoder is needed but where it
sends the loop. `NothingIsOwed` has three exceptions, the ways to drop replies: a failed write, the output limit, a
panic. The invariant adds why a connection ends (`Reasoned`) and that the reply being made is the
only one that can take a batch over its caps (`Capped`).

**The commands.** `HandlerProofs` again: `HitsAreAlwaysReal`, `NoneIsImmortal` and `KeysAreComplete`, for any
number of sessions, keys, shards and entries. The invariant is `CommandsInv == Shaped /\ Shared /\ Witnessed
/\ Said`. `Shared` is what pointers to entries come to: an entry is under at most one key, whoever points to
it sees the deadline it has now, and one still to be put is its maker's alone. `Witnessed` then says that an
entry a reader holds is expired, for good, or has been seen live since the command began: a deadline is only
changed where the entry is live under the lock, so an expired one is never revived in a reader's hands. The
same conjunct has the walk of KEYS: every key behind it that was live throughout and is selected has been
found, once, since shards are disjoint. `NoneIsImmortal` is arithmetic: amounts are at most the largest
integer less a clock of at least 1, so the sum that makes a deadline may wrap but never to 0 (`DeadlineSome`).
`KeysAreComplete` has the hypothesis that the matcher agrees with the reference on the patterns and keys in use:
what a recursive function computes is for TLC, which checks it for all short patterns. Assumed: finitely many keys,
and a clock that runs no further than the largest integer.

**The client's pool.** `PoolProofs`, for any finite sets of callers and sockets, any pool size and any number of
retries, in three invariants that build on one another.

* `CeilingAlways`: `Ceiling` is not inductive; `IInv == PoolType /\ CallsOK /\ WatchOK /\ Cover /\ Tally` is. `Tally`
  counts slots and live connections by the places of the callers, and holds because each step moves one caller
  between places, which the lemmas on counting turn into differences of cardinalities; `Cover` says that an open
  socket is in the pool or with a caller that will put it back. Together they bound the open sockets by idle ones
  plus busy callers.
* `IdleAlwaysClean` and `RepliesAreOwn`: `JInv == IInv /\ Alone /\ AtRest /\ Framing`. RESP replies carry nothing that
  says whose they are, so both rest on what is on each wire: an open connection is in the pool once or with one
  caller (`Alone`), and on a caller's there is, at each place of its call, nothing, its own request or the reply to
  it (`OnWire`). A deadline an interrupt has set is one its watcher knows of, so that no such connection is
  pooled before the watcher has been waited for.
* `AnswersAreTruthful`: `KInv == JInv /\ TagsOK /\ Settled`. A SETNX or DEL is not retried, so its request
  is on at most one wire (`Once`); before it is sent it has not run, and once its reply is there it will not run
  again, hence a 0 says that it did nothing.

**Reload.** `ProcessProofs`: `PairsAlways`, for any number of renewals, saves and SIGHUPs. A reload about to
swap carries a matched pair (`Matched`), whatever has become of the files since. It needs no assumption on
time, and of the constants only that content which does not parse is no version.

**The process.** `ProcessProofs`: `NothingIsLeft`, `ProbesAreHonest` and `AcceptedIsHonouredAlways`, for any
set of configurations and any figures related as those of the code. The invariant says what is open and what is deferred
at each point of the main goroutine (`OpenAt`), where the phase is ready (`PhaseAt`), and what is known of
the configuration (`ConfigAt`); that a validated configuration is honoured is arithmetic on the limits that
the layers derive from it.

**Only model-checked.** Every safety property and every refinement that a run checks is proved. What stays with TLC is
liveness (`CallsReturn`, `ExpiredReclaimed`, `ScanEnds`, `EveryoneLeaves`, `SilentReaped`, `RepliesArrive`,
`RotationServed`): fairness and ENABLED are beyond the provers. So are what recursive definitions compute,
since the theorems that would unfold one take an operator as a parameter: the matcher against its reference, the
decoder against the scanner, and the replies' way back, all of which TLC evaluates on bounded data. Induction over
numbers and finite sets in the proofs takes the least element of a set of counterexamples instead (`Least` in
`ScanProofs`).

## 13. Where code and comments disagree

`pool_retry` is a run. The others have a `.cfg` of their own that TLC ends with a counterexample.

| Comment | What the code does | Check |
|---|---|---|
| `client.go:65-72`: only commands whose reply is idempotent are retried, Expire among them | an EXPIRE with a time that is up deletes; a retry after a lost answer says there was no key | `MCPool_retry.cfg`, `ExpireTruthful` |
| `engine.go`, `shard.go`: a SetNX blocked by a live key never costs a victim | refused for memory first, it evicts; another writer stores the key, and the retry is blocked | `MCEngine_setnx_victim.cfg`, `BlockedSetNXCostsNothing` |
| `ttl.go`: Stop "waits for it to exit" and "is idempotent" | a second Stop, after or beside one that has not returned, answers nil with the loop running | `MCExpiration_stop.cfg`, `StopWaits` |
| `transport.go`: Shutdown "stops accepting, drains in-flight work, and closes connections" | a connection past `admit`'s test of the context is tracked after the drain's walk: Shutdown may return while it is served; it ends by its idle deadline | `MCTransport_shutdown.cfg`, `ShutdownCloses` |
| `net_transport.go:30-33`: refusals have a deadline so that a client "cannot hold a goroutine, which is the resource being defended" | on TLS the refusal's write first reads the client's hello, with no read deadline: a silent client over the limit holds the goroutine and the socket for as long as it likes, and Shutdown ends by its context only | `MCTransport_refusal.cfg`, `RefusalEnds` |
| `server.go:209-211`, `framing.go:23-24`: replies are flushed "before any read that could block", since the scanner reports a request "only when decoding one cannot block" | a frame with an empty name is skipped by the decoder, and one with a header such as `*+1` is waited for: the loop blocks in a read with replies unflushed | `MCHandler_stall.cfg`, `RepliesAlwaysArrive` |
| `commands.go`, get: a miss is a key that is not there or has expired | GET tests the expiry of an entry that has been replaced since: it misses a key that was live throughout | `MCCommands_miss.cfg`, `MissIsReal` |
| `commands.go`, expiryFor: a deadline that does not fit is refused, lest it expire the key at once | it is tested against a clock read before the deadline is computed; a tick in between wraps it | `MCCommands_overflow.cfg`, `NotInstantly` |
| `watchConfig`: `/config` never reports a configuration that has not been applied yet | each callback runs on its own goroutine: two of them interleave, and one is reported while the other is in force | `MCReload_edits.cfg`, `ReportedIsApplied` |

Also met while modelling, without a check of their own: `shard.go` says that the global total is the sum
of the shards' at every instant, which holds only outside lock holds (`AccountingExact` is the exact
statement); the signal cancels the transport's context before
`SetReady(false)`, so readiness does not go "false first" (`admin.go:55`); `security.go:60-67` says
turning authentication on or off is ignored, but `auth.Set` applies it; any other error of `Accept` ends the
process; `ParseSize` wraps for products past 2^64; a `max_value_size` of 0 is accepted, and then only the
empty value can be stored;
DEL and EXPIRE with a time that is up count an expired key that nothing has reclaimed; a change between
the reading of the configuration and the placing of the watch is never noticed; the two goroutines of
the watcher share one Loader without a lock; a file caught truncated loads as the defaults; the configuration is
watched by its inode, so a save by rename loses the watch (the certificate's directory is watched).

## 14. Not modelled

* The process memory sampler: a ticker that caches one reading; it has no other state.
* `atlasctl`: sequential parsing of arguments and printing, on top of the client.
* Logging, development tools, the end-to-end harness, benchmarks, examples: not part of the running
  system's state.
* The statistics counters, INFO, STATS and the admin API's handlers: reads of snapshots. The scores by
  which the eviction policies rank are any ranking here.
* The bytes inside a token, and redaction and formatting of the configuration.

## 15. What could come next

1. Proofs: the steps that liveness rests on and that are safety, as action properties: that a pass of `admit`
   or of a page of a scan strictly decreases a bound (what `CallsReturn` and `ScanEnds` need besides fairness),
   and that a drained connection's deadline is never pushed out again (`EveryoneLeaves`).
2. A clock that steps back, as a variant of `Expiration`: `Expire` compares with the wall clock anew, so the
   manager may drop the hint of a key that has yet to expire.
3. `Engine` and `Scan` composed with the end of `Process`: what a writer past the closed check leaves behind.
