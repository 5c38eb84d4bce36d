---------------------------- MODULE EngineProofs ----------------------------
(***************************************************************************)
(* Proofs about Engine for every set of processes, keys and shards, every  *)
(* size, every set of limits.  The inductive invariant adds to the checked *)
(* properties who holds which lock (LockInv) and what a process carries    *)
(* from one step of a lock hold to the next (CallInv).                     *)
(***************************************************************************)
EXTENDS Engine, FiniteSetTheorems, TLAPS

-----------------------------------------------------------------------------
(* Facts about Bytes and Expiring: how a change of one key, or of all the  *)
(* keys of a shard, moves them.                                            *)

(* The cells of finitely many keys are finitely many.                      *)
LEMMA CellsFinite ==
  ASSUME NEW f, NEW K, IsFiniteSet(K)
  PROVE  IsFiniteSet(Cells(f, K)) /\ Bytes(f, K) \in Nat
<1>1. IsFiniteSet(1..MaxSize)
  BY MaxSizeType, FS_Interval
<1>2. IsFiniteSet(K \X (1..MaxSize))
  BY <1>1, FS_Product
<1>3. Cells(f, K) \in SUBSET (K \X (1..MaxSize))
  BY DEF Cells
<1>4. IsFiniteSet(Cells(f, K))
  BY <1>2, <1>3, FS_Subset
<1> QED
  BY <1>4, FS_CardinalityType DEF Bytes

(* Fewer keys are charged no more.                                         *)
LEMMA BytesPart ==
  ASSUME NEW f, NEW K, IsFiniteSet(K), NEW D \in SUBSET K
  PROVE  Bytes(f, D) <= Bytes(f, K)
<1>1. IsFiniteSet(Cells(f, K)) /\ Cells(f, D) \in SUBSET Cells(f, K)
  BY CellsFinite DEF Cells
<1> QED
  BY <1>1, FS_Subset DEF Bytes

(* Only the sizes matter.                                                  *)
LEMMA BytesCongruent ==
  ASSUME NEW f, NEW g, NEW K, \A k \in K : f[k].size = g[k].size
  PROVE  Bytes(f, K) = Bytes(g, K)
BY DEF Bytes, Cells

(* One key is charged for its size.                                        *)
LEMMA BytesOne ==
  ASSUME NEW f, NEW k, f[k] \in Slot
  PROVE  Bytes(f, {k}) = f[k].size
<1> DEFINE n == f[k].size
           b == [i \in 1..n |-> <<k, i>>]
<1>1. n \in 0..MaxSize
  BY MaxSizeType DEF Slot, Entry, Absent
<1>2. Cells(f, {k}) = {<<k, i>> : i \in 1..n}
  <2>1. ASSUME NEW c \in Cells(f, {k}) PROVE c \in {<<k, i>> : i \in 1..n}
    BY <1>1, MaxSizeType DEF Cells
  <2>2. ASSUME NEW i \in 1..n PROVE <<k, i>> \in Cells(f, {k})
    BY <1>1, MaxSizeType DEF Cells
  <2> QED
    BY <2>1, <2>2
<1>3. b \in Bijection(1..n, Cells(f, {k}))
  BY <1>2 DEF Bijection, Injection, Surjection, IsInjective
<1>4. ExistsBijection(1..n, Cells(f, {k}))
  BY <1>3 DEF ExistsBijection
<1> HIDE DEF n
<1>5. IsFiniteSet(1..n) /\ Cardinality(1..n) = n
  <2>1. n \in Int /\ 1 \in Int /\ n >= 0
    BY <1>1, MaxSizeType
  <2>2. IsFiniteSet(1..n) /\ Cardinality(1..n) = IF 1 > n THEN 0 ELSE n - 1 + 1
    BY <2>1, FS_Interval
  <2> QED
    BY <2>1, <2>2
<1>6. Bytes(f, {k}) = n
  BY <1>4, <1>5, FS_Bijection DEF Bytes
<1> QED
  BY <1>6 DEF n

(* Disjoint sets of keys add up.                                           *)
LEMMA BytesUnion ==
  ASSUME NEW f, NEW K, NEW L, IsFiniteSet(K), IsFiniteSet(L), K \cap L = {}
  PROVE  Bytes(f, K \union L) = Bytes(f, K) + Bytes(f, L)
<1> DEFINE A == Cells(f, K)
           B == Cells(f, L)
<1>1. Cells(f, K \union L) = A \union B /\ A \cap B = {}
  BY DEF Cells
<1>2. IsFiniteSet(A) /\ IsFiniteSet(B)
  BY CellsFinite
<1>3. Cardinality(A) \in Nat /\ Cardinality(B) \in Nat
  BY <1>2, FS_CardinalityType
<1>4. Bytes(f, K) = Cardinality(A) /\ Bytes(f, L) = Cardinality(B)
  BY DEF Bytes
<1>5. Bytes(f, K \union L) = Cardinality(A \union B)
  BY <1>1 DEF Bytes
<1> HIDE DEF A, B
<1>6. Cardinality(A \union B) = Cardinality(A) + Cardinality(B) - Cardinality(A \cap B)
  BY <1>2, FS_Union
<1>7. Cardinality(A \cap B) = 0
  BY <1>1, FS_EmptySet
<1> QED
  BY <1>3, <1>4, <1>5, <1>6, <1>7

(* Replacing what one key holds moves the total by the difference, and the *)
(* total covers what is replaced.                                          *)
LEMMA BytesUpdate ==
  ASSUME NEW K, IsFiniteSet(K), NEW k \in K, NEW f, NEW g,
         f[k] \in Slot, g[k] \in Slot,
         \A j \in K \ {k} : g[j].size = f[j].size
  PROVE  /\ f[k].size <= Bytes(f, K)
         /\ Bytes(g, K) = (Bytes(f, K) - f[k].size) + g[k].size
<1> DEFINE L == K \ {k}
<1>1. IsFiniteSet(L) /\ IsFiniteSet({k}) /\ L \cap {k} = {} /\ K = L \union {k}
  <2>1. IsFiniteSet(L)
    BY FS_RemoveElement
  <2>2. IsFiniteSet({k})
    BY FS_Singleton
  <2> QED
    BY <2>1, <2>2
<1>2. Bytes(f, K) = Bytes(f, L) + f[k].size
  BY <1>1, BytesUnion, BytesOne
<1>3. Bytes(g, K) = Bytes(g, L) + g[k].size
  BY <1>1, BytesUnion, BytesOne
<1>4. Bytes(g, L) = Bytes(f, L)
  BY BytesCongruent
<1>5. Bytes(f, L) \in Nat
  BY <1>1, CellsFinite
<1>6. f[k].size \in Nat /\ g[k].size \in Nat
  BY MaxSizeType DEF Slot, Entry, Absent
<1> HIDE DEF L
<1> QED
  BY <1>2, <1>3, <1>4, <1>5, <1>6

(* Emptying some of the keys takes off exactly what they were charged.     *)
LEMMA BytesDrop ==
  ASSUME NEW K, IsFiniteSet(K), NEW D \in SUBSET K, NEW f, NEW g,
         \A k \in D : g[k] = Absent,
         \A k \in K \ D : g[k].size = f[k].size
  PROVE  /\ Bytes(f, D) <= Bytes(f, K)
         /\ Bytes(g, K) = Bytes(f, K) - Bytes(f, D)
         /\ Bytes(g, D) = 0
<1> DEFINE L == K \ D
<1>1. IsFiniteSet(L) /\ IsFiniteSet(D) /\ L \cap D = {} /\ K = L \union D
  BY FS_Subset
<1>2. Bytes(f, K) = Bytes(f, L) + Bytes(f, D)
  BY <1>1, BytesUnion
<1>3. Bytes(g, K) = Bytes(g, L) + Bytes(g, D)
  BY <1>1, BytesUnion
<1>4. Bytes(g, L) = Bytes(f, L)
  BY BytesCongruent
<1>5. Cells(g, D) = {}
  BY DEF Cells, Absent
<1>6. Bytes(g, D) = 0
  BY <1>5, FS_EmptySet DEF Bytes
<1>7. Bytes(f, L) \in Nat /\ Bytes(f, D) \in Nat
  BY <1>1, CellsFinite
<1> HIDE DEF L
<1> QED
  BY <1>2, <1>3, <1>4, <1>6, <1>7

(* The number of expiring keys moves with the one key that changes.        *)
LEMMA ExpiringUpdate ==
  ASSUME NEW K, IsFiniteSet(K), NEW k \in K, NEW f, NEW g,
         \A j \in K \ {k} : g[j] = f[j]
  PROVE  /\ TTLCount(f[k]) <= Cardinality(Expiring(f, K))
         /\ Cardinality(Expiring(g, K)) =
              (Cardinality(Expiring(f, K)) - TTLCount(f[k])) + TTLCount(g[k])
<1> DEFINE R == Expiring(f, K) \ {k}
<1>1. Expiring(f, K) \in SUBSET K /\ Expiring(g, K) \in SUBSET K
  BY DEF Expiring
<1>2. IsFiniteSet(R) /\ k \notin R
  BY <1>1, FS_Subset
<1>3. Expiring(f, K) = IF HasTTL(f[k]) THEN R \union {k} ELSE R
  BY DEF Expiring
<1>4. Expiring(g, K) = IF HasTTL(g[k]) THEN R \union {k} ELSE R
  BY DEF Expiring
<1>5. Cardinality(R) \in Nat /\ Cardinality(R \union {k}) = Cardinality(R) + 1
  BY <1>2, FS_AddElement, FS_CardinalityType
<1> HIDE DEF R
<1>6. TTLCount(f[k]) = (IF HasTTL(f[k]) THEN 1 ELSE 0)
  BY DEF TTLCount
<1>7. TTLCount(g[k]) = (IF HasTTL(g[k]) THEN 1 ELSE 0)
  BY DEF TTLCount
<1>8. Cardinality(Expiring(f, K)) = Cardinality(R) + TTLCount(f[k])
  BY <1>3, <1>5, <1>6
<1>9. Cardinality(Expiring(g, K)) = Cardinality(R) + TTLCount(g[k])
  BY <1>4, <1>5, <1>7
<1> QED
  BY <1>5, <1>6, <1>7, <1>8, <1>9

(* A finite set has a natural number of expiring keys.                     *)
LEMMA ExpiringFinite ==
  ASSUME NEW f, NEW K, IsFiniteSet(K)
  PROVE  Cardinality(Expiring(f, K)) \in Nat
<1>1. Expiring(f, K) \in SUBSET K
  BY DEF Expiring
<1> QED
  BY <1>1, FS_Subset, FS_CardinalityType

-----------------------------------------------------------------------------
(* The inductive invariant                                                 *)

InHand == {"reserve", "store", "settle"}
Writes == {"set", "setnx"}
Writing == {"put", "reserve", "store", "admit", "measure", "credit", "sample", "evict"}

(* The lock of a shard is held exactly by the process that is between two  *)
(* steps of a hold on it, and no process holds two.                        *)
LockInv ==
  /\ \A p \in Procs : pc[p] \in InHand => lock[ShardOf[hand[p].key]] = p
  /\ \A p \in Procs : pc[p] = "reset" => \E s \in sweep[p] : lock[s] = p
  /\ \A s \in Shards : lock[s] # None =>
       \/ pc[lock[s]] \in InHand /\ s = ShardOf[hand[lock[s]].key]
       \/ pc[lock[s]] = "reset" /\ s \in sweep[lock[s]]
  /\ \A s, t \in Shards : lock[s] # None /\ lock[s] = lock[t] => s = t

(* What a process knows at each point of its call.                         *)
CallOK(p) ==
  /\ pc[p] \in Writing => call[p].op \in Writes
  /\ pc[p] \in {"setttl", "reread"} => call[p].op = "setttl"
  /\ pc[p] = "setttl" => call[p].entry.ttl \in {"none", "live"}
  /\ pc[p] \in {"read", "remove"} => call[p].op \in {"get", "expire", "delete"}
  /\ call[p].op \in Writes => call[p].entry \in Entry
  /\ pc[p] \in {"reserve", "store"} =>
       hand[p].key = call[p].key /\ hand[p].entry \in Entry
  /\ pc[p] = "reserve" => adm[p].limit \in Limits
  /\ pc[p] = "settle" => hand[p].entry \in Entry /\ data[hand[p].key] = Absent

CallInv == \A p \in Procs : CallOK(p)

IInv == TypeOK /\ LockInv /\ CallInv /\ ShardExact /\ AccountingExact /\ HardLimit

USE KeysFinite, ShardOfType, MaxSizeType, LimitsType, BoundsType, NoneType

-----------------------------------------------------------------------------
(* Consequences of the type invariant *)

LEMMA SlotSize ==
  ASSUME NEW e \in Slot
  PROVE  e.size \in Nat /\ TTLCount(e) \in {0, 1}
BY DEF Slot, Entry, Absent, TTLCount

LEMMA CommittedType ==
  ASSUME TypeOK
  PROVE  Committed \in [Keys -> Slot]
BY SMTT(30) DEF TypeOK, Committed, Slot, Absent

LEMMA KeysOfFinite ==
  ASSUME NEW s
  PROVE  IsFiniteSet(KeysOf(s)) /\ KeysOf(s) \subseteq Keys
<1>1. KeysOf(s) \in SUBSET Keys
  BY DEF KeysOf
<1> QED
  BY <1>1, FS_Subset

-----------------------------------------------------------------------------
(* The shards' own counters *)

(* A shard counts at least what any one of its keys is charged for.        *)
LEMMA ShardCovers ==
  ASSUME TypeOK, ShardExact, NEW k \in Keys
  PROVE  /\ data[k].size <= memory[ShardOf[k]]
         /\ TTLCount(data[k]) <= withTTL[ShardOf[k]]
<1> DEFINE K == KeysOf(ShardOf[k])
<1>1. ShardOf[k] \in Shards /\ k \in K /\ IsFiniteSet(K) /\ data[k] \in Slot
  BY KeysOfFinite DEF KeysOf, TypeOK
<1>2. memory[ShardOf[k]] = Bytes(data, K)
  BY <1>1 DEF ShardExact
<1>3. withTTL[ShardOf[k]] = Cardinality(Expiring(data, K))
  BY <1>1 DEF ShardExact
<1> HIDE DEF K
<1>4. data[k].size <= Bytes(data, K)
  BY <1>1, BytesUpdate
<1>5. TTLCount(data[k]) <= Cardinality(Expiring(data, K))
  BY <1>1, ExpiringUpdate
<1> QED
  BY <1>2, <1>3, <1>4, <1>5

(* Replacing one entry and moving its shard's counters by the difference   *)
(* keeps every shard exact.                                                *)
LEMMA ShardUpdate ==
  ASSUME TypeOK, ShardExact, NEW k \in Keys, NEW e \in Slot,
         data'[k] = e,
         \A j \in Keys \ {k} : data'[j] = data[j],
         memory'[ShardOf[k]] = (memory[ShardOf[k]] - data[k].size) + e.size,
         withTTL'[ShardOf[k]] = (withTTL[ShardOf[k]] - TTLCount(data[k])) + TTLCount(e),
         \A s \in Shards \ {ShardOf[k]} : memory'[s] = memory[s] /\ withTTL'[s] = withTTL[s]
  PROVE  /\ ShardExact'
         /\ \A s \in Shards : memory'[s] \in Nat /\ withTTL'[s] \in Nat
<1>1. /\ data \in [Keys -> Slot] /\ memory \in [Shards -> Nat]
      /\ withTTL \in [Shards -> Nat] /\ ShardOf[k] \in Shards
  BY DEF TypeOK
<1>2. /\ data[k].size \in Nat /\ TTLCount(data[k]) \in Nat
      /\ e.size \in Nat /\ TTLCount(e) \in Nat
  BY <1>1, SlotSize
<1>3. ASSUME NEW s \in Shards
      PROVE  memory'[s] \in Nat /\ withTTL'[s] \in Nat
  BY <1>1, <1>2, ShardCovers
<1>4. ASSUME NEW s \in Shards
      PROVE  /\ memory'[s] = Bytes(data', KeysOf(s))
             /\ withTTL'[s] = Cardinality(Expiring(data', KeysOf(s)))
  <2>1. /\ memory[s] = Bytes(data, KeysOf(s))
        /\ withTTL[s] = Cardinality(Expiring(data, KeysOf(s)))
    BY DEF ShardExact
  <2>2. IsFiniteSet(KeysOf(s)) /\ KeysOf(s) \subseteq Keys
    BY KeysOfFinite
  <2>3. CASE s = ShardOf[k]
    <3>1. k \in KeysOf(s)
      BY <2>3 DEF KeysOf
    <3>2. /\ data[k] \in Slot /\ data'[k] = e
          /\ \A j \in KeysOf(s) \ {k} : data'[j] = data[j] /\ data'[j].size = data[j].size
      BY <1>1, <2>2
    <3>3. Bytes(data', KeysOf(s)) = (Bytes(data, KeysOf(s)) - data[k].size) + e.size
      BY <2>2, <3>1, <3>2, BytesUpdate
    <3>4. Cardinality(Expiring(data', KeysOf(s))) =
            (Cardinality(Expiring(data, KeysOf(s))) - TTLCount(data[k])) + TTLCount(e)
      BY <2>2, <3>1, <3>2, ExpiringUpdate
    <3> QED
      BY <1>1, <2>1, <2>3, <3>3, <3>4
  <2>4. CASE s # ShardOf[k]
    <3>1. \A j \in KeysOf(s) : data'[j] = data[j] /\ data'[j].size = data[j].size
      BY <1>1, <2>4 DEF KeysOf
    <3>2. Bytes(data', KeysOf(s)) = Bytes(data, KeysOf(s))
      BY <3>1, BytesCongruent
    <3>3. Expiring(data', KeysOf(s)) = Expiring(data, KeysOf(s))
      BY <3>1 DEF Expiring
    <3> QED
      BY <1>1, <2>1, <2>4, <3>2, <3>3
  <2> QED
    BY <2>3, <2>4
<1> QED
  BY <1>3, <1>4 DEF ShardExact, KeysOf

-----------------------------------------------------------------------------
(* What a step does to the abstract cache *)

Effect == [Cache!Next]_<<Committed, used>>

LEMMA SameFootprint ==
  /\ Cache!Absent = Absent /\ Cache!Entry = Entry
  /\ \A f, K : Cache!Bytes(f, K) = Bytes(f, K)
<1>1. Cache!Absent = Absent /\ Cache!Entry = Entry
  BY DEF Cache!Absent, Cache!Entry, Absent, Entry
<1>2. ASSUME NEW f, NEW K
      PROVE  Cache!Bytes(f, K) = Bytes(f, K)
  <2>1. Cache!Cells(f, K) = Cells(f, K)
    BY DEF Cache!Cells, Cells
  <2> QED
    BY <2>1 DEF Cache!Bytes, Bytes, Cache!Cardinality, Cardinality
<1> QED
  BY <1>1, <1>2

LEMMA CommittedFunction ==
  /\ Committed = [k \in Keys |-> Committed[k]]
  /\ Committed' = [k \in Keys |-> Committed'[k]]
BY DEF Committed

LEMMA Stutter ==
  ASSUME \A k \in Keys : Committed'[k] = Committed[k], used' = used
  PROVE  Effect
<1>1. Committed' = Committed
  BY CommittedFunction
<1> QED
  BY <1>1 DEF Effect

LEMMA PutEffect ==
  ASSUME NEW k \in Keys, NEW e \in Entry, Committed'[k] = e,
         \A j \in Keys \ {k} : Committed'[j] = Committed[j],
         used' = (used - Committed[k].size) + e.size, HardLimit'
  PROVE  Effect
<1>1. Committed' = [Committed EXCEPT ![k] = e]
  BY CommittedFunction
<1>2. Cache!Put(k, e)
  BY <1>1 DEF Cache!Put, Cache!Fits, HardLimit
<1> QED
  BY <1>2, SameFootprint DEF Effect, Cache!Next

LEMMA DropEffect ==
  ASSUME NEW D \in SUBSET Keys, \A k \in D : Committed'[k] = Absent,
         \A k \in Keys \ D : Committed'[k] = Committed[k],
         used' = used - Bytes(Committed, D)
  PROVE  Effect
<1> DEFINE after == [k \in Keys |-> IF k \in D THEN Absent ELSE Committed[k]]
<1>0. \A k \in Keys : Committed'[k] = after[k]
  OBVIOUS
<1>1. Committed' = after
  BY <1>0, CommittedFunction, Zenon
<1>2. Cache!Drop(D)
  BY <1>1, SameFootprint DEF Cache!Drop
<1> QED
  BY <1>2 DEF Effect, Cache!Next

LEMMA RetimeEffect ==
  ASSUME NEW k \in Keys, NEW t \in {"none", "live", "expired"},
         Committed[k].ttl \in {"none", "live"},
         Committed'[k] = [Committed[k] EXCEPT !.ttl = t],
         \A j \in Keys \ {k} : Committed'[j] = Committed[j], used' = used
  PROVE  Effect
<1>1. Committed' = [Committed EXCEPT ![k].ttl = t]
  BY CommittedFunction
<1>2. Cache!Retime(k, t)
  BY <1>1 DEF Cache!Retime
<1> QED
  BY <1>2 DEF Effect, Cache!Next

-----------------------------------------------------------------------------
(* The committed contents *)

(* A process outside any hold holds no lock.                               *)
LEMMA HoldsNothing ==
  ASSUME IInv, NEW p \in Procs, pc[p] \notin InHand \union {"reset"}, NEW s \in Shards
  PROVE  lock[s] # p
BY DEF IInv, LockInv

(* A step that neither touches the store nor enters or leaves a hold.      *)
LEMMA Quiet ==
  ASSUME IInv, NEW p \in Procs,
         pc[p] \notin InHand \union {"reset"}, pc'[p] \notin InHand \union {"reset"},
         UNCHANGED <<data, memory, withTTL, lock, used>>,
         \A q \in Procs \ {p} :
            pc'[q] = pc[q] /\ hand'[q] = hand[q] /\ sweep'[q] = sweep[q]
  PROVE  LockInv' /\ ShardExact' /\ AccountingExact' /\ HardLimit' /\ Effect
<1>1. \A s \in Shards : lock[s] # p
  BY HoldsNothing
<1>2. LockInv'
  <2>1. \A q \in Procs : pc'[q] \in InHand => lock'[ShardOf[hand'[q].key]] = q
    BY DEF IInv, LockInv
  <2>2. \A q \in Procs : pc'[q] = "reset" => \E s \in sweep'[q] : lock'[s] = q
    BY DEF IInv, LockInv
  <2>3. \A s \in Shards : lock'[s] # None =>
          \/ pc'[lock'[s]] \in InHand /\ s = ShardOf[hand'[lock'[s]].key]
          \/ pc'[lock'[s]] = "reset" /\ s \in sweep'[lock'[s]]
    BY <1>1 DEF IInv, LockInv, TypeOK
  <2>4. \A s, t \in Shards : lock'[s] # None /\ lock'[s] = lock'[t] => s = t
    BY DEF IInv, LockInv
  <2> QED
    BY <2>1, <2>2, <2>3, <2>4 DEF LockInv
<1>3. Committed' = Committed
  BY <1>1, SMTT(30) DEF Committed, IInv, TypeOK
<1>4. ShardExact'
  BY DEF IInv, ShardExact, KeysOf
<1> QED
  BY <1>2, <1>3, <1>4, Stutter DEF IInv, AccountingExact, HardLimit

(* Entering a hold on a free shard.                                        *)
LEMMA Enter ==
  ASSUME IInv, NEW p \in Procs, NEW s \in Shards,
         pc[p] \notin InHand \union {"reset"}, lock[s] = None,
         lock' = [lock EXCEPT ![s] = p],
         \/ pc'[p] \in InHand /\ ShardOf[hand'[p].key] = s
         \/ pc'[p] = "reset" /\ s \in sweep'[p],
         \A q \in Procs \ {p} :
            pc'[q] = pc[q] /\ hand'[q] = hand[q] /\ sweep'[q] = sweep[q]
  PROVE  LockInv'
<1>1. \A t \in Shards : lock[t] # p
  BY HoldsNothing
<1>2. lock \in [Shards -> Procs \union {None}] /\ hand \in [Procs -> [key: Keys, entry: Slot]]
  BY DEF IInv, TypeOK
<1>3. \A q \in Procs : pc'[q] \in InHand => lock'[ShardOf[hand'[q].key]] = q
  BY <1>2 DEF IInv, LockInv, InHand
<1>4. ASSUME NEW q \in Procs, pc'[q] = "reset"
      PROVE  \E t \in sweep'[q] : lock'[t] = q
  <2>1. CASE q = p
    BY <1>2, <1>4, <2>1 DEF InHand
  <2>2. CASE q # p
    <3>1. PICK t \in sweep[q] : lock[t] = q
      BY <1>4, <2>2 DEF IInv, LockInv
    <3>2. t \in Shards
      BY <3>1 DEF IInv, TypeOK
    <3> QED
      BY <1>2, <2>2, <3>1, <3>2
  <2> QED
    BY <2>1, <2>2
<1>5. \A t \in Shards : lock'[t] # None =>
        \/ pc'[lock'[t]] \in InHand /\ t = ShardOf[hand'[lock'[t]].key]
        \/ pc'[lock'[t]] = "reset" /\ t \in sweep'[lock'[t]]
  BY <1>1, <1>2 DEF IInv, LockInv
<1>6. \A t, u \in Shards : lock'[t] # None /\ lock'[t] = lock'[u] => t = u
  BY <1>1, <1>2 DEF IInv, LockInv
<1> QED
  BY <1>3, <1>4, <1>5, <1>6 DEF LockInv

(* Leaving a hold.                                                         *)
LEMMA Leave ==
  ASSUME IInv, NEW p \in Procs, NEW s \in Shards,
         lock[s] = p, pc'[p] \notin InHand \union {"reset"},
         lock' = [lock EXCEPT ![s] = None],
         \A q \in Procs \ {p} :
            pc'[q] = pc[q] /\ hand'[q] = hand[q] /\ sweep'[q] = sweep[q]
  PROVE  LockInv'
<1>1. \A t \in Shards \ {s} : lock[t] # p
  BY DEF IInv, LockInv
<1>2. lock \in [Shards -> Procs \union {None}] /\ hand \in [Procs -> [key: Keys, entry: Slot]]
  BY DEF IInv, TypeOK
<1>3. \A q \in Procs : pc'[q] \in InHand => lock'[ShardOf[hand'[q].key]] = q
  BY <1>2 DEF IInv, LockInv, InHand
<1>4. ASSUME NEW q \in Procs, pc'[q] = "reset"
      PROVE  \E t \in sweep'[q] : lock'[t] = q
  <2>1. CASE q = p
    BY <1>2, <1>4, <2>1 DEF InHand
  <2>2. CASE q # p
    <3>1. PICK t \in sweep[q] : lock[t] = q
      BY <1>4, <2>2 DEF IInv, LockInv
    <3>2. t \in Shards
      BY <3>1 DEF IInv, TypeOK
    <3> QED
      BY <1>2, <2>2, <3>1, <3>2
  <2> QED
    BY <2>1, <2>2
<1>5. \A t \in Shards : lock'[t] # None =>
        \/ pc'[lock'[t]] \in InHand /\ t = ShardOf[hand'[lock'[t]].key]
        \/ pc'[lock'[t]] = "reset" /\ t \in sweep'[lock'[t]]
  BY <1>1, <1>2 DEF IInv, LockInv
<1>6. \A t, u \in Shards : lock'[t] # None /\ lock'[t] = lock'[u] => t = u
  BY <1>1, <1>2 DEF IInv, LockInv
<1> QED
  BY <1>3, <1>4, <1>5, <1>6 DEF LockInv

(* The tracker stays exact when the committed sizes do not change,         *)
LEMMA Keep ==
  ASSUME IInv, used' = used, \A k \in Keys : Committed'[k].size = Committed[k].size
  PROVE  AccountingExact'
<1>1. Bytes(Committed', Keys) = Bytes(Committed, Keys)
  BY BytesCongruent
<1> QED
  BY <1>1 DEF IInv, AccountingExact

(* or when it moves by the change of the one key that does.                *)
LEMMA Covered ==
  ASSUME IInv, NEW k \in Keys
  PROVE  Committed[k].size <= used /\ used \in Nat /\ Committed[k].size \in Nat
<1>1. Committed[k] \in Slot
  BY CommittedType DEF IInv
<1>2. Committed[k].size <= Bytes(Committed, Keys)
  BY <1>1, BytesUpdate
<1> QED
  BY <1>1, <1>2, SlotSize DEF IInv, AccountingExact, TypeOK

LEMMA Move ==
  ASSUME IInv, NEW k \in Keys, Committed'[k] \in Slot,
         used' = (used - Committed[k].size) + Committed'[k].size,
         \A j \in Keys \ {k} : Committed'[j].size = Committed[j].size
  PROVE  AccountingExact'
<1>1. Committed[k] \in Slot
  BY CommittedType DEF IInv
<1>2. Bytes(Committed', Keys) = (Bytes(Committed, Keys) - Committed[k].size) + Committed'[k].size
  BY <1>1, BytesUpdate
<1> QED
  BY <1>2 DEF IInv, AccountingExact

(* Dropping a whole set of keys discards their bytes.                      *)
LEMMA Discard ==
  ASSUME NEW D \in SUBSET Keys,
         \A k \in D : Committed'[k] = Absent,
         \A k \in Keys \ D : Committed'[k].size = Committed[k].size
  PROVE  /\ Bytes(Committed, D) <= Bytes(Committed, Keys)
         /\ Bytes(Committed', Keys) = Bytes(Committed, Keys) - Bytes(Committed, D)
<1> DEFINE f == Committed
           g == Committed'
<1>1. \A k \in D : g[k] = Absent
  OBVIOUS
<1>2. \A k \in Keys \ D : g[k].size = f[k].size
  OBVIOUS
<1> HIDE DEF f, g
<1>3. /\ Bytes(f, D) <= Bytes(f, Keys)
      /\ Bytes(g, Keys) = Bytes(f, Keys) - Bytes(f, D)
      /\ Bytes(g, D) = 0
  <2>1. D \in SUBSET Keys /\ IsFiniteSet(Keys)
    OBVIOUS
  <2> QED
    BY ONLY <2>1, <1>1, <1>2, BytesDrop
<1> QED
  BY <1>3 DEF f, g

-----------------------------------------------------------------------------
(* The steps of a hold *)

LEMMA PutLockStep ==
  ASSUME IInv, NEW p \in Procs, PutLock(p)
  PROVE  LockInv' /\ ShardExact' /\ AccountingExact' /\ HardLimit' /\ Effect
<1> DEFINE s == Home(p)
<1>0. TypeOK /\ s \in Shards
  BY DEF IInv, TypeOK, Home
<1>1. LockInv'
  <2>1. /\ pc[p] \notin InHand \union {"reset"} /\ lock[s] = None
        /\ lock' = [lock EXCEPT ![s] = p]
    BY DEF PutLock, Free, InHand
  <2>2. pc'[p] \in InHand /\ ShardOf[hand'[p].key] = s
    BY <1>0 DEF PutLock, Goto, Home, InHand, TypeOK
  <2>3. \A q \in Procs \ {p} :
          pc'[q] = pc[q] /\ hand'[q] = hand[q] /\ sweep'[q] = sweep[q]
    BY <1>0 DEF PutLock, Goto, TypeOK
  <2> HIDE DEF s
  <2> QED
    BY <1>0, <2>1, <2>2, <2>3, Enter
<1>2. \A t \in Shards : lock[t] # p
  BY HoldsNothing DEF PutLock, InHand
<1>3. \A k \in Keys : Committed'[k] = Committed[k]
  BY <1>0, <1>2, SMTT(30) DEF Committed, PutLock, Goto, Free, store, TypeOK
<1>4. AccountingExact'
  BY <1>3, Keep DEF PutLock
<1>effect. Effect
  BY <1>3, Stutter DEF PutLock
<1> QED
  BY <1>effect, <1>1, <1>4 DEF PutLock, IInv, ShardExact, HardLimit, KeysOf, store
(* The compare-and-swap: the reserved entry is committed at this point.    *)
LEMMA ReserveStep ==
  ASSUME IInv, NEW p \in Procs, Reserve(p)
  PROVE  LockInv' /\ ShardExact' /\ AccountingExact' /\ HardLimit' /\ Effect /\ used' \in Nat
<1> DEFINE k == hand[p].key
           s == ShardOf[k]
<1>0. /\ TypeOK /\ k \in Keys /\ s \in Shards /\ lock[s] = p
      /\ hand[p].entry \in Entry /\ hand[p].entry \in Slot
  BY DEF IInv, TypeOK, LockInv, CallInv, CallOK, Reserve, InHand, Slot
<1>1. /\ pc[p] = "reserve" /\ pc' = [pc EXCEPT ![p] = "store"]
      /\ UNCHANGED <<data, memory, withTTL, lock, hand, sweep>>
  BY DEF Reserve, Goto, store
<1>2. LockInv'
  <2>1. pc \in [Procs -> Labels]
    BY <1>0 DEF TypeOK
  <2> QED
    BY <1>0, <1>1, <2>1 DEF LockInv, IInv, InHand
<1>3. Committed[k] = data[k] /\ Committed'[k] = hand[p].entry
  BY <1>0, <1>1, NoneType DEF Committed, TypeOK
<1>4. \A j \in Keys \ {k} : Committed'[j] = Committed[j]
  <2> SUFFICES ASSUME NEW j \in Keys \ {k}
               PROVE  Committed'[j] = Committed[j]
    OBVIOUS
  <2>1. lock[ShardOf[j]] # p \/ lock[ShardOf[j]] = p
    OBVIOUS
  <2> QED
    BY <1>0, <1>1, <2>1 DEF Committed, TypeOK
<1>5. Refund(p) = data[k].size /\ data[k].size <= used /\ used \in Nat /\ data[k].size \in Nat
  BY <1>0, <1>3, Covered DEF Refund
<1>6. used' = (used - Committed[k].size) + Committed'[k].size
  BY <1>3, <1>5 DEF Reserve, Reserved
<1> HIDE DEF k
<1>7. AccountingExact'
  BY <1>0, <1>3, <1>4, <1>6, Move
<1>8. hand[p].entry.size \in Nat
  BY <1>0, SlotSize
<1>9. used' \in Nat
  BY <1>3, <1>5, <1>6, <1>8
<1>10. HardLimit'
  <2>1. adm[p].limit \in Limits
    BY <1>1 DEF IInv, CallInv, CallOK
  <2>2. adm[p].limit = 0 \/ used' <= adm[p].limit
    BY DEF Reserve, Admissible
  <2> QED
    BY <2>1, <2>2 DEF HardLimit
<1>effect. Effect
  BY <1>0, <1>3, <1>4, <1>6, <1>10, PutEffect
<1> QED
  BY <1>effect, <1>1, <1>2, <1>7, <1>9, <1>10 DEF IInv, ShardExact, KeysOf

LEMMA ReserveRefusedStep ==
  ASSUME IInv, NEW p \in Procs, ReserveRefused(p)
  PROVE  LockInv' /\ ShardExact' /\ AccountingExact' /\ HardLimit' /\ Effect
<1> DEFINE s == Home(p)
<1>0. /\ TypeOK /\ s \in Shards /\ lock[s] = p /\ ShardOf[hand[p].key] = s
  BY DEF IInv, TypeOK, LockInv, CallInv, CallOK, ReserveRefused, InHand, Home
<1>1. /\ pc[p] = "reserve" /\ pc' = [pc EXCEPT ![p] = "admit"]
      /\ lock' = [lock EXCEPT ![s] = None] /\ hand' = [hand EXCEPT ![p] = NoHand]
      /\ UNCHANGED <<data, memory, withTTL, used, sweep>>
  BY DEF ReserveRefused, Goto, store
<1> HIDE DEF s
<1>2. LockInv'
  <2>1. pc'[p] \notin InHand \union {"reset"}
    BY <1>0, <1>1 DEF TypeOK, InHand
  <2>2. \A q \in Procs \ {p} :
          pc'[q] = pc[q] /\ hand'[q] = hand[q] /\ sweep'[q] = sweep[q]
    BY <1>0, <1>1 DEF TypeOK
  <2> QED
    BY <1>0, <1>1, <2>1, <2>2, Leave
<1>3. \A t \in Shards \ {s} : lock[t] # p
  BY <1>0, NoneType DEF IInv, LockInv
<1>4. \A k \in Keys : Committed'[k] = Committed[k]
  BY <1>0, <1>1, <1>3, NoneType, SMTT(30) DEF Committed, TypeOK
<1>5. AccountingExact'
  BY <1>1, <1>4, Keep
<1>effect. Effect
  BY <1>1, <1>4, Stutter
<1> QED
  BY <1>effect, <1>1, <1>2, <1>5 DEF IInv, ShardExact, HardLimit, KeysOf

(* The second half of a write: the map catches up with the tracker.        *)
LEMMA StoreStep ==
  ASSUME IInv, NEW p \in Procs, Store(p)
  PROVE  /\ LockInv' /\ ShardExact' /\ AccountingExact' /\ HardLimit' /\ Effect
         /\ \A t \in Shards : memory'[t] \in Nat /\ withTTL'[t] \in Nat
<1> DEFINE k == hand[p].key
           s == ShardOf[k]
           e == hand[p].entry
<1>0. /\ TypeOK /\ k \in Keys /\ s \in Shards /\ lock[s] = p /\ e \in Slot
  BY DEF IInv, TypeOK, LockInv, Store, InHand
<1>1. /\ pc[p] = "store" /\ pc' = [pc EXCEPT ![p] = "schedule"]
      /\ lock' = [lock EXCEPT ![s] = None] /\ hand' = [hand EXCEPT ![p] = NoHand]
      /\ data' = [data EXCEPT ![k] = e]
      /\ memory' = [memory EXCEPT ![s] = (@ - data[k].size) + e.size]
      /\ withTTL' = [withTTL EXCEPT ![s] = (@ - TTLCount(data[k])) + TTLCount(e)]
      /\ UNCHANGED <<used, sweep>>
  BY DEF Store, Goto
<1>2. LockInv'
  <2>1. pc'[p] \notin InHand \union {"reset"}
    BY <1>0, <1>1 DEF TypeOK, InHand
  <2>2. \A q \in Procs \ {p} :
          pc'[q] = pc[q] /\ hand'[q] = hand[q] /\ sweep'[q] = sweep[q]
    BY <1>0, <1>1 DEF TypeOK
  <2> HIDE DEF s
  <2> QED
    BY <1>0, <1>1, <2>1, <2>2, Leave
<1>3. \A t \in Shards \ {s} : lock[t] # p
  BY <1>0, NoneType DEF IInv, LockInv
<1>4. \A j \in Keys : Committed'[j] = Committed[j]
  <2> SUFFICES ASSUME NEW j \in Keys
               PROVE  Committed'[j] = Committed[j]
    OBVIOUS
  <2>1. CASE j = k
    BY <1>0, <1>1, <2>1, NoneType DEF Committed, TypeOK
  <2>2. CASE j # k /\ ShardOf[j] = s
    BY <1>0, <1>1, <2>2, NoneType DEF Committed, TypeOK
  <2>3. CASE ShardOf[j] # s
    BY <1>0, <1>1, <1>3, <2>3, NoneType DEF Committed, TypeOK
  <2> QED
    BY <2>1, <2>2, <2>3
<1>5. AccountingExact'
  BY <1>1, <1>4, Keep
<1>6. /\ data'[k] = e /\ \A j \in Keys \ {k} : data'[j] = data[j]
      /\ memory'[s] = (memory[s] - data[k].size) + e.size
      /\ withTTL'[s] = (withTTL[s] - TTLCount(data[k])) + TTLCount(e)
      /\ \A t \in Shards \ {s} : memory'[t] = memory[t] /\ withTTL'[t] = withTTL[t]
  BY <1>0, <1>1 DEF TypeOK
<1>7. ShardExact' /\ \A t \in Shards : memory'[t] \in Nat /\ withTTL'[t] \in Nat
  <2> HIDE DEF k, e
  <2> QED
    BY <1>0, <1>6, ShardUpdate DEF IInv
<1>effect. Effect
  BY <1>1, <1>4, Stutter
<1> QED
  BY <1>effect, <1>1, <1>2, <1>5, <1>7 DEF IInv, HardLimit
(* The first half of a removal: the entry leaves the map, its bytes are    *)
(* still charged.                                                          *)
LEMMA RemoveStep ==
  ASSUME IInv, NEW p \in Procs, pc[p] \notin InHand \union {"reset"},
         NEW k \in Keys, Remove(p, k), UNCHANGED <<used, sweep>>
  PROVE  /\ LockInv' /\ ShardExact' /\ AccountingExact' /\ HardLimit' /\ Effect
         /\ \A t \in Shards : memory'[t] \in Nat /\ withTTL'[t] \in Nat
<1> DEFINE s == ShardOf[k]
<1>0. TypeOK /\ s \in Shards /\ lock[s] = None /\ Absent \in Slot
  BY DEF IInv, TypeOK, Remove, Free, Slot
<1>1. /\ pc' = [pc EXCEPT ![p] = "settle"]
      /\ lock' = [lock EXCEPT ![s] = p]
      /\ hand' = [hand EXCEPT ![p] = [key |-> k, entry |-> data[k]]]
      /\ data' = [data EXCEPT ![k] = Absent]
      /\ memory' = [memory EXCEPT ![s] = @ - data[k].size]
      /\ withTTL' = [withTTL EXCEPT ![s] = @ - TTLCount(data[k])]
  BY DEF Remove, Goto
<1>2. LockInv'
  <2>1. pc'[p] \in InHand /\ ShardOf[hand'[p].key] = s
    BY <1>0, <1>1 DEF TypeOK, InHand
  <2>2. \A q \in Procs \ {p} :
          pc'[q] = pc[q] /\ hand'[q] = hand[q] /\ sweep'[q] = sweep[q]
    BY <1>0, <1>1 DEF TypeOK
  <2> HIDE DEF s
  <2> QED
    BY <1>0, <1>1, <2>1, <2>2, Enter
<1>3. \A t \in Shards : lock[t] # p
  BY HoldsNothing
<1>4. \A j \in Keys : Committed'[j] = Committed[j]
  <2> SUFFICES ASSUME NEW j \in Keys
               PROVE  Committed'[j] = Committed[j]
    OBVIOUS
  <2>1. CASE j = k
    BY <1>0, <1>1, <2>1, NoneType DEF Committed, TypeOK
  <2>2. CASE j # k /\ ShardOf[j] = s
    BY <1>0, <1>1, <2>2, NoneType DEF Committed, TypeOK
  <2>3. CASE ShardOf[j] # s
    BY <1>0, <1>1, <1>3, <2>3, NoneType DEF Committed, TypeOK
  <2> QED
    BY <2>1, <2>2, <2>3
<1>5. AccountingExact'
  BY <1>4, Keep
<1>6. /\ data'[k] = Absent /\ \A j \in Keys \ {k} : data'[j] = data[j]
      /\ \A t \in Shards \ {s} : memory'[t] = memory[t] /\ withTTL'[t] = withTTL[t]
  BY <1>0, <1>1 DEF TypeOK
<1>7. /\ memory'[s] = (memory[s] - data[k].size) + Absent.size
      /\ withTTL'[s] = (withTTL[s] - TTLCount(data[k])) + TTLCount(Absent)
  <2>1. /\ memory[s] \in Nat /\ withTTL[s] \in Nat /\ data[k] \in Slot
        /\ memory'[s] = memory[s] - data[k].size
        /\ withTTL'[s] = withTTL[s] - TTLCount(data[k])
    BY <1>0, <1>1 DEF TypeOK
  <2>2. Absent.size = 0 /\ TTLCount(Absent) = 0
    BY DEF Absent, TTLCount, HasTTL
  <2>3. data[k].size \in Nat /\ TTLCount(data[k]) \in Nat
    BY <2>1, SlotSize
  <2> QED
    BY <2>1, <2>2, <2>3
<1>8. ShardExact' /\ \A t \in Shards : memory'[t] \in Nat /\ withTTL'[t] \in Nat
  BY <1>0, <1>6, <1>7, ShardUpdate DEF IInv
<1>effect. Effect
  BY <1>4, Stutter
<1> QED
  BY <1>effect, <1>2, <1>5, <1>8 DEF IInv, HardLimit

(* The second half: the bytes come off the tracker, never clamped.         *)
LEMMA SettleStep ==
  ASSUME IInv, NEW p \in Procs, Settle(p)
  PROVE  LockInv' /\ ShardExact' /\ AccountingExact' /\ HardLimit' /\ Effect /\ used' \in Nat
<1> DEFINE k == hand[p].key
           s == ShardOf[k]
<1>0. /\ TypeOK /\ pc[p] = "settle" /\ k \in Keys /\ s \in Shards /\ lock[s] = p
      /\ hand[p].entry \in Slot /\ data[k] = Absent
  BY DEF IInv, TypeOK, LockInv, CallInv, CallOK, Settle, InHand
<1>1. /\ lock' = [lock EXCEPT ![s] = None] /\ hand' = [hand EXCEPT ![p] = NoHand]
      /\ used' = Less(hand[p].entry.size)
      /\ UNCHANGED <<data, memory, withTTL, sweep>>
  BY DEF Settle, Return, store
<1>2. \E l \in {"measure", "evict", "idle"} : pc' = [pc EXCEPT ![p] = l]
  BY DEF Settle, Return, Goto
<1>3. /\ pc'[p] \notin InHand \union {"reset"}
      /\ \A q \in Procs \ {p} :
           pc'[q] = pc[q] /\ hand'[q] = hand[q] /\ sweep'[q] = sweep[q]
  BY <1>0, <1>1, <1>2 DEF TypeOK, InHand
<1>4. LockInv'
  <2> HIDE DEF s
  <2> QED
    BY <1>0, <1>1, <1>3, Leave
<1>5. \A t \in Shards \ {s} : lock[t] # p
  BY <1>0, NoneType DEF IInv, LockInv
<1>6. Committed[k] = hand[p].entry /\ Committed'[k] = Absent
  BY <1>0, <1>1, NoneType DEF Committed, TypeOK
<1>7. \A j \in Keys \ {k} : Committed'[j] = Committed[j]
  <2> SUFFICES ASSUME NEW j \in Keys \ {k}
               PROVE  Committed'[j] = Committed[j]
    OBVIOUS
  <2>1. CASE ShardOf[j] = s
    BY <1>0, <1>1, <2>1, NoneType DEF Committed, TypeOK
  <2>2. CASE ShardOf[j] # s
    BY <1>0, <1>1, <1>3, <1>5, <2>2, NoneType DEF Committed, TypeOK
  <2> QED
    BY <2>1, <2>2
<1>8. Committed[k].size <= used /\ used \in Nat /\ Committed[k].size \in Nat
  BY <1>0, Covered
<1>9. used' = used - Committed[k].size
  BY <1>1, <1>6, <1>8 DEF Less
<1>10. used' = (used - Committed[k].size) + Committed'[k].size /\ used' \in Nat /\ used' <= used
  BY <1>6, <1>8, <1>9 DEF Absent
<1>11. AccountingExact'
  <2> HIDE DEF k
  <2>1. Committed'[k] \in Slot
    BY <1>6 DEF Slot
  <2> QED
    BY <1>0, <1>7, <1>10, <2>1, Move
<1>12. HardLimit'
  BY <1>8, <1>10, LimitsType DEF IInv, HardLimit
<1>effect. Effect
  <2> HIDE DEF k
  <2>1. Bytes(Committed, {k}) = Committed[k].size
    BY <1>0, CommittedType, BytesOne
  <2>2. \A j \in {k} : Committed'[j] = Absent
    BY <1>6
  <2> QED
    BY <1>0, <1>7, <1>9, <2>1, <2>2, DropEffect
<1> QED
  BY <1>effect, <1>1, <1>4, <1>10, <1>11, <1>12 DEF IInv, ShardExact, KeysOf

(* A new expiry in place, asked for or reached.                            *)
LEMMA RetimeStep ==
  ASSUME IInv, NEW k \in Keys, NEW t \in {"none", "live", "expired"},
         data[k] \in Entry, data[k].ttl \in {"none", "live"}, data' = [data EXCEPT ![k].ttl = t],
         withTTL' = [withTTL EXCEPT ![ShardOf[k]] =
                       (@ - TTLCount(data[k])) + TTLCount([data[k] EXCEPT !.ttl = t])],
         UNCHANGED <<memory, lock, used, hand, sweep>>,
         \/ pc' = pc
         \/ \E p \in Procs : /\ pc' = [pc EXCEPT ![p] = "reread"]
                             /\ pc[p] \notin InHand \union {"reset"}
  PROVE  /\ LockInv' /\ ShardExact' /\ AccountingExact' /\ HardLimit' /\ Effect
         /\ \A s \in Shards : memory'[s] \in Nat /\ withTTL'[s] \in Nat
<1> DEFINE e == [data[k] EXCEPT !.ttl = t]
<1>0. TypeOK /\ ShardOf[k] \in Shards
  BY DEF IInv, TypeOK
<1>1. e \in Slot /\ e.size = data[k].size
  BY DEF Entry, Slot
<1>2. \A s \in Shards : lock[s] # None => pc'[lock[s]] = pc[lock[s]]
  BY <1>0, HoldsNothing DEF TypeOK
<1>3. LockInv'
  <2>1. \A q \in Procs : pc'[q] \in InHand => pc[q] = pc'[q]
    BY <1>0 DEF TypeOK, InHand
  <2>2. \A q \in Procs : pc'[q] = "reset" => pc[q] = pc'[q]
    BY <1>0 DEF TypeOK
  <2> QED
    BY <1>2, <2>1, <2>2 DEF IInv, LockInv
<1>4. \A j \in Keys : data'[j].size = data[j].size
  BY <1>0, <1>1 DEF TypeOK
<1>5. \A j \in Keys : Committed'[j].size = Committed[j].size
  BY <1>0, <1>2, <1>4 DEF Committed
<1>6. AccountingExact'
  BY <1>5, Keep
<1>7. /\ data'[k] = e /\ \A j \in Keys \ {k} : data'[j] = data[j]
      /\ withTTL'[ShardOf[k]] = (withTTL[ShardOf[k]] - TTLCount(data[k])) + TTLCount(e)
      /\ \A s \in Shards \ {ShardOf[k]} : withTTL'[s] = withTTL[s]
      /\ \A s \in Shards : memory'[s] = memory[s]
  BY <1>0 DEF TypeOK
<1>8. memory'[ShardOf[k]] = (memory[ShardOf[k]] - data[k].size) + e.size
  <2>1. memory[ShardOf[k]] \in Nat /\ data[k].size \in Nat
    BY <1>0, SlotSize DEF TypeOK
  <2> QED
    BY <1>1, <2>1
<1> HIDE DEF e
<1>9. ShardExact' /\ \A s \in Shards : memory'[s] \in Nat /\ withTTL'[s] \in Nat
  <2>1. ShardExact /\ \A s \in Shards \ {ShardOf[k]} : memory'[s] = memory[s] /\ withTTL'[s] = withTTL[s]
    BY <1>7 DEF IInv
  <2> QED
    BY <1>0, <1>1, <1>7, <1>8, <2>1, ShardUpdate
<1>effect. Effect
  <2> HIDE DEF e
  <2>1. \A j \in Keys \ {k} : Committed'[j] = Committed[j]
    BY <1>2, <1>7 DEF Committed
  <2>2. CASE Committed[k] = data[k] /\ Committed'[k] = data'[k]
    BY <1>7, <2>1, <2>2, RetimeEffect DEF e
  <2>3. CASE Committed'[k] = Committed[k]
    BY <2>1, <2>3, Stutter
  <2>4. \/ Committed[k] = data[k] /\ Committed'[k] = data'[k]
        \/ Committed'[k] = Committed[k]
    BY <1>2 DEF Committed
  <2> QED
    BY <2>2, <2>3, <2>4
<1> QED
  BY <1>effect, <1>3, <1>6, <1>9 DEF IInv, HardLimit

(* Clear, first half: the shard's bytes come off the tracker at once.      *)
LEMMA ClearTrackerStep ==
  ASSUME IInv, NEW p \in Procs, ClearTracker(p)
  PROVE  LockInv' /\ ShardExact' /\ AccountingExact' /\ HardLimit' /\ Effect /\ used' \in Nat
<1>1. PICK s \in sweep[p] :
        /\ pc[p] = "clear" /\ lock[s] = None
        /\ lock' = [lock EXCEPT ![s] = p]
        /\ used' = Less(memory[s])
        /\ pc' = [pc EXCEPT ![p] = "reset"]
        /\ UNCHANGED <<data, memory, withTTL, hand, sweep>>
  BY DEF ClearTracker, Goto, Free, store
<1> DEFINE D == KeysOf(s)
<1>0. /\ TypeOK /\ s \in Shards /\ D \in SUBSET Keys /\ IsFiniteSet(D)
      /\ memory[s] \in Nat /\ used \in Nat
  BY KeysOfFinite DEF IInv, TypeOK
<1>2. LockInv'
  <2>1. pc[p] \notin InHand \union {"reset"} /\ pc'[p] = "reset" /\ s \in sweep'[p]
    BY <1>0, <1>1 DEF TypeOK, InHand
  <2>2. \A q \in Procs \ {p} :
          pc'[q] = pc[q] /\ hand'[q] = hand[q] /\ sweep'[q] = sweep[q]
    BY <1>0, <1>1 DEF TypeOK
  <2> QED
    BY <1>0, <1>1, <2>1, <2>2, Enter
<1>3. \A t \in Shards : lock[t] # p
  BY <1>1, HoldsNothing DEF InHand
<1>4. \A k \in D : Committed[k] = data[k] /\ Committed'[k] = Absent
  BY <1>0, <1>1, NoneType DEF Committed, KeysOf, TypeOK
<1>5. \A k \in Keys \ D : Committed'[k] = Committed[k]
  BY <1>0, <1>1, <1>3, NoneType, SMTT(30) DEF Committed, KeysOf, TypeOK
<1> HIDE DEF D
<1>6. Bytes(Committed, D) = memory[s]
  <2>1. memory[s] = Bytes(data, D)
    BY <1>0, <1>1 DEF IInv, ShardExact, D
  <2>2. \A k \in D : Committed[k].size = data[k].size
    BY <1>4
  <2> QED
    BY <2>1, <2>2, BytesCongruent
<1>7. /\ Bytes(Committed, D) <= Bytes(Committed, Keys)
      /\ Bytes(Committed', Keys) = Bytes(Committed, Keys) - Bytes(Committed, D)
  <2>1. \A k \in D : Committed'[k] = Absent
    BY <1>4
  <2>2. \A k \in Keys \ D : Committed'[k].size = Committed[k].size
    BY <1>5
  <2> QED
    BY <1>0, <2>1, <2>2, Discard
<1>8. used = Bytes(Committed, Keys)
  BY DEF IInv, AccountingExact
<1>9. used' = used - memory[s] /\ memory[s] <= used
  BY <1>0, <1>1, <1>6, <1>7, <1>8 DEF Less
<1>10. used' \in Nat /\ used' <= used
  BY <1>0, <1>9
<1>11. AccountingExact'
  BY <1>6, <1>7, <1>8, <1>9 DEF AccountingExact
<1>12. HardLimit'
  BY <1>0, <1>10, LimitsType DEF IInv, HardLimit
<1>effect. Effect
  BY <1>0, <1>4, <1>5, <1>6, <1>9, DropEffect
<1> QED
  BY <1>effect, <1>1, <1>2, <1>10, <1>11, <1>12 DEF IInv, ShardExact, KeysOf

(* Clear, second half: the map and the shard's own counters.               *)
LEMMA ClearShardStep ==
  ASSUME IInv, NEW p \in Procs, ClearShard(p)
  PROVE  /\ LockInv' /\ ShardExact' /\ AccountingExact' /\ HardLimit' /\ Effect
         /\ \A t \in Shards : memory'[t] \in Nat /\ withTTL'[t] \in Nat
<1>1. PICK s \in sweep[p] :
        /\ pc[p] = "reset" /\ lock[s] = p
        /\ data' = [k \in Keys |-> IF ShardOf[k] = s THEN Absent ELSE data[k]]
        /\ memory' = [memory EXCEPT ![s] = 0]
        /\ withTTL' = [withTTL EXCEPT ![s] = 0]
        /\ lock' = [lock EXCEPT ![s] = None]
        /\ sweep' = [sweep EXCEPT ![p] = @ \ {s}]
        /\ pc' = [pc EXCEPT ![p] = "clear"]
        /\ UNCHANGED <<used, hand>>
  BY DEF ClearShard, Goto
<1>0. TypeOK /\ s \in Shards
  BY DEF IInv, TypeOK
<1>2. LockInv'
  <2>1. pc'[p] \notin InHand \union {"reset"}
    BY <1>0, <1>1 DEF TypeOK, InHand
  <2>2. \A q \in Procs \ {p} :
          pc'[q] = pc[q] /\ hand'[q] = hand[q] /\ sweep'[q] = sweep[q]
    BY <1>0, <1>1 DEF TypeOK
  <2> QED
    BY <1>0, <1>1, <2>1, <2>2, Leave
<1>3. \A t \in Shards \ {s} : lock[t] # p
  BY <1>0, <1>1, NoneType DEF IInv, LockInv
<1>4. \A j \in Keys : Committed'[j] = Committed[j]
  <2> SUFFICES ASSUME NEW j \in Keys
               PROVE  Committed'[j] = Committed[j]
    OBVIOUS
  <2>1. CASE ShardOf[j] = s
    BY <1>0, <1>1, <2>1, NoneType DEF Committed, TypeOK
  <2>2. CASE ShardOf[j] # s
    BY <1>0, <1>1, <1>3, <2>2, NoneType DEF Committed, TypeOK
  <2> QED
    BY <2>1, <2>2
<1>5. AccountingExact'
  BY <1>1, <1>4, Keep
<1>6. ASSUME NEW t \in Shards
      PROVE  /\ memory'[t] = Bytes(data', KeysOf(t))
             /\ withTTL'[t] = Cardinality(Expiring(data', KeysOf(t)))
             /\ memory'[t] \in Nat /\ withTTL'[t] \in Nat
  <2>1. IsFiniteSet(KeysOf(t)) /\ KeysOf(t) \subseteq Keys
    BY KeysOfFinite
  <2>2. CASE t = s
    <3>1. \A k \in KeysOf(t) : data'[k] = Absent
      BY <1>1, <2>1, <2>2 DEF KeysOf
    <3>2. Bytes(data', KeysOf(t)) = 0
      BY <2>1, <3>1, BytesDrop
    <3>3. Expiring(data', KeysOf(t)) = {}
      BY <3>1 DEF Expiring, HasTTL, Absent
    <3> QED
      BY <1>0, <1>1, <2>2, <3>2, <3>3, FS_EmptySet DEF TypeOK
  <2>3. CASE t # s
    <3>1. \A k \in KeysOf(t) : data'[k] = data[k] /\ data'[k].size = data[k].size
      BY <1>1, <2>1, <2>3 DEF KeysOf
    <3>2. Bytes(data', KeysOf(t)) = Bytes(data, KeysOf(t))
      BY <3>1, BytesCongruent
    <3>3. Expiring(data', KeysOf(t)) = Expiring(data, KeysOf(t))
      BY <3>1 DEF Expiring
    <3> QED
      BY <1>0, <1>1, <2>3, <3>2, <3>3 DEF IInv, ShardExact, TypeOK
  <2> QED
    BY <2>2, <2>3
<1>effect. Effect
  BY <1>1, <1>4, Stutter
<1> QED
  BY <1>effect, <1>1, <1>2, <1>5, <1>6 DEF IInv, ShardExact, HardLimit, KeysOf

-----------------------------------------------------------------------------
(* Types *)

LocalsOK ==
  /\ pc \in [Procs -> Labels]
  /\ call \in [Procs -> [op: Ops, key: Keys, entry: Slot]]
  /\ hand \in [Procs -> [key: Keys, entry: Slot]]
  /\ adm \in [Procs -> Admission]

LEMMA Nothing ==
  /\ NoCall \in [op: Ops, key: Keys, entry: Slot]
  /\ NoHand \in [key: Keys, entry: Slot]
  /\ NoAdm \in Admission
BY DEF NoCall, NoHand, NoAdm, Slot, Ops, Admission

LEMMA AdmissionUpdate ==
  ASSUME NEW a \in Admission, NEW n \in Nat, NEW m \in Nat, NEW V \in SUBSET Keys
  PROVE  /\ [a EXCEPT !.attempt = n, !.cost = m] \in Admission
         /\ [a EXCEPT !.limit = n] \in Admission
         /\ [a EXCEPT !.limit = n, !.evicted = 0] \in Admission
         /\ [a EXCEPT !.seen = n] \in Admission
         /\ [a EXCEPT !.seen = 0, !.need = n] \in Admission
         /\ [a EXCEPT !.victims = V, !.need = 0] \in Admission
         /\ [a EXCEPT !.evicted = n, !.cost = m, !.victims = V] \in Admission
BY DEF Admission

LEMMA EvictedType ==
  ASSUME TypeOK, NEW p \in Procs, NEW k, NEW n \in {0, 1}
  PROVE  Evicted(p, k, n) \in Admission
<1> DEFINE rest == adm[p].victims \ {k}
           count == adm[p].evicted + 1
           done == rest = {} \/ count >= MaxEvictionsPerWrite
<1>1. adm[p] \in Admission /\ count \in Nat /\ adm[p].cost + n \in Nat
  BY DEF TypeOK, Admission
<1>2. (IF done THEN {} ELSE rest) \in SUBSET Keys
  BY <1>1 DEF Admission
<1> HIDE DEF count, done, rest
<1>3. [adm[p] EXCEPT !.evicted = count, !.cost = adm[p].cost + n,
                     !.victims = IF done THEN {} ELSE rest] \in Admission
  BY <1>1, <1>2, AdmissionUpdate
<1> QED
  BY <1>3 DEF count, done, rest, Evicted

LEMMA ReturnLocals ==
  ASSUME TypeOK, NEW p \in Procs, Return(p)
  PROVE  LocalsOK'
BY Nothing DEF TypeOK, LocalsOK, Return, Labels

LEMMA RetryLocals ==
  ASSUME TypeOK, NEW p \in Procs, Retry(p)
  PROVE  LocalsOK'
<1>1. CASE Return(p)
  BY <1>1, ReturnLocals
<1>2. CASE /\ adm' = [adm EXCEPT ![p] = [NoAdm EXCEPT !.attempt = adm[p].attempt + 1,
                                                     !.cost = adm[p].cost]]
           /\ Goto(p, "put") /\ UNCHANGED <<call, hand>>
  <2>1. adm[p].attempt + 1 \in Nat /\ adm[p].cost \in Nat
    BY DEF TypeOK, Admission
  <2>2. [NoAdm EXCEPT !.attempt = adm[p].attempt + 1, !.cost = adm[p].cost] \in Admission
    BY <2>1, Nothing, AdmissionUpdate
  <2> QED
    BY <1>2, <2>2 DEF TypeOK, LocalsOK, Goto, Labels
<1> QED
  BY <1>1, <1>2 DEF Retry

LEMMA BeginLocals ==
  ASSUME TypeOK, NEW p \in Procs, NEW op \in Ops, NEW k \in Keys, NEW e \in Slot,
         NEW l \in Labels, Begin(p, op, k, e, l)
  PROVE  LocalsOK'
BY DEF TypeOK, LocalsOK, Begin, Goto

(* Every step keeps the locals of the processes in their types.            *)
LEMMA LocalsStep ==
  ASSUME TypeOK, NEW p \in Procs, Request(p) \/ Advance(p)
  PROVE  LocalsOK'
<1>1. CASE Write(p)
  <2>1. PICK k \in Keys, size \in 1..MaxSize, ttl \in TTLs, op \in {"set", "setnx"} :
          Begin(p, op, k, [size |-> size, ttl |-> ttl], "put")
    BY <1>1 DEF Write
  <2>2. [size |-> size, ttl |-> ttl] \in Slot /\ op \in Ops /\ "put" \in Labels
    BY TTLsType DEF Slot, Entry, Ops, Labels
  <2> QED
    BY <2>1, <2>2, BeginLocals
<1>2. CASE Start(p)
  <2>1. PICK k \in Keys :
          \/ Begin(p, "delete", k, Absent, "remove")
          \/ Begin(p, "expire", k, Absent, "remove")
          \/ Begin(p, "get", k, Absent, "read")
          \/ \E ttl \in TTLs : Begin(p, "setttl", k, [size |-> 1, ttl |-> ttl], "setttl")
    BY <1>2 DEF Start
  <2>2. /\ Absent \in Slot /\ {"delete", "expire", "get", "setttl"} \subseteq Ops
        /\ {"remove", "read", "setttl"} \subseteq Labels
        /\ \A ttl \in TTLs : [size |-> 1, ttl |-> ttl] \in Slot
    BY TTLsType DEF Slot, Entry, Ops, Labels
  <2> QED
    BY <2>1, <2>2, BeginLocals
<1>3. CASE Close(p)
  <2>1. call'= [call EXCEPT ![p].op = "close"] /\ pc' = [pc EXCEPT ![p] = "clear"]
        /\ UNCHANGED <<hand, adm>>
    BY <1>3 DEF Close, Goto
  <2> QED
    BY <2>1 DEF TypeOK, LocalsOK, Labels, Ops
<1>5. CASE Refused(p)
  BY <1>5 DEF Refused, vars, locals, TypeOK, LocalsOK
<1>4. CASE Advance(p)
  <2>1. CASE PutBlocked(p) \/ Schedule(p) \/ AdmitTooLarge(p) \/ AdmitCapped(p)
             \/ NoVictims(p) \/ NothingToTake(p) \/ SetTTLMissing(p) \/ Cleared(p)
    BY <2>1, ReturnLocals DEF PutBlocked, Schedule, AdmitTooLarge, AdmitCapped,
       NoVictims, NothingToTake, SetTTLMissing, Cleared
  <2>2. CASE AdmitUnlimited(p) \/ AdmitRoom(p)
    BY <2>2, RetryLocals DEF AdmitUnlimited, AdmitRoom
  <2>3. CASE PutLock(p)
    <3>1. adm' = [adm EXCEPT ![p] = [adm[p] EXCEPT !.limit = max]]
      BY <2>3 DEF PutLock, TypeOK
    <3>2. max \in Nat /\ adm[p] \in Admission
      BY DEF TypeOK
    <3>3. [adm[p] EXCEPT !.limit = max] \in Admission
      BY <3>2, AdmissionUpdate
    <3> QED
      BY <2>3, <3>1, <3>3 DEF PutLock, Goto, TypeOK, LocalsOK, Labels
  <2>4. CASE Reserve(p)
    <3>1. adm' = [adm EXCEPT ![p] = [adm[p] EXCEPT !.limit = 0]]
      BY <2>4 DEF Reserve, TypeOK
    <3>2. adm[p] \in Admission
      BY DEF TypeOK
    <3>3. [adm[p] EXCEPT !.limit = 0] \in Admission
      BY <3>2, AdmissionUpdate
    <3> QED
      BY <2>4, <3>1, <3>3 DEF Reserve, Goto, TypeOK, LocalsOK, Labels
  <2>17. CASE ReserveRefused(p)
    <3>1. adm' = [adm EXCEPT ![p] = [adm[p] EXCEPT !.limit = 0]]
      BY <2>17 DEF ReserveRefused, TypeOK
    <3>2. adm[p] \in Admission
      BY DEF TypeOK
    <3>3. [adm[p] EXCEPT !.limit = 0] \in Admission
      BY <3>2, AdmissionUpdate
    <3> QED
      BY <2>17, Nothing, <3>1, <3>3 DEF ReserveRefused, Goto, TypeOK, LocalsOK, Labels
  <2>5. CASE Store(p)
    BY <2>5, Nothing DEF Store, Goto, TypeOK, LocalsOK, Labels
  <2>6. CASE AdmitLimit(p)
    <3>1. adm' = [adm EXCEPT ![p] = [adm[p] EXCEPT !.limit = max, !.evicted = 0]]
      BY <2>6 DEF AdmitLimit, TypeOK
    <3>2. max \in Nat /\ adm[p] \in Admission
      BY DEF TypeOK
    <3>3. [adm[p] EXCEPT !.limit = max, !.evicted = 0] \in Admission
      BY <3>2, AdmissionUpdate
    <3> QED
      BY <2>6, <3>1, <3>3 DEF AdmitLimit, Goto, TypeOK, LocalsOK, Labels
  <2>18. CASE Measure(p)
    BY <2>18, AdmissionUpdate DEF Measure, Goto, TypeOK, LocalsOK, Labels
  <2>7. CASE AdmitShort(p)
    <3> DEFINE n == (adm[p].seen + call[p].entry.size) - (Credit(p) + adm[p].limit)
    <3>1. /\ Credit(p) \in Nat /\ adm[p].seen \in Nat /\ adm[p].limit \in Nat
          /\ call[p].entry.size \in Nat
      BY SlotSize DEF Credit, TypeOK, Admission
    <3>2. n \in Nat
      BY <2>7, <3>1 DEF AdmitShort, RoomMade
    <3>3. adm' = [adm EXCEPT ![p] = [adm[p] EXCEPT !.seen = 0, !.need = n]]
      BY <2>7 DEF AdmitShort, TypeOK
    <3> HIDE DEF n
    <3>4. adm[p] \in Admission /\ [adm[p] EXCEPT !.seen = 0, !.need = n] \in Admission
      BY <3>2, AdmissionUpdate DEF TypeOK
    <3>5. pc' = [pc EXCEPT ![p] = "sample"] /\ UNCHANGED <<call, hand>>
      BY <2>7 DEF AdmitShort, Goto
    <3> QED
      BY <3>3, <3>4, <3>5 DEF TypeOK, LocalsOK, Labels
  <2>8. CASE SelectVictims(p)
    <3>1. PICK V \in SUBSET Keys :
            adm' = [adm EXCEPT ![p] = [adm[p] EXCEPT !.victims = V, !.need = 0]]
      BY <2>8 DEF SelectVictims, Samples, LiveKeys, KeysOf, TypeOK
    <3> QED
      BY <2>8, <3>1, AdmissionUpdate DEF SelectVictims, Goto, TypeOK, LocalsOK, Labels
  <2>10. CASE EvictMissing(p)
    <3>1. PICK k \in adm[p].victims :
            /\ adm' = [adm EXCEPT ![p] = Evicted(p, k, 0)]
            /\ Goto(p, IF Evicted(p, k, 0).victims = {} THEN "measure" ELSE "evict")
            /\ UNCHANGED <<call, hand>>
      BY <2>10 DEF EvictMissing
    <3> QED
      BY <3>1, EvictedType DEF Goto, TypeOK, LocalsOK, Labels
  <2>11. CASE Evict(p)
    <3>1. PICK k \in adm[p].victims :
            /\ adm' = [adm EXCEPT ![p] = Evicted(p, k, 1)]
            /\ hand' = [hand EXCEPT ![p] = [key |-> k, entry |-> data[k]]]
            /\ pc' = [pc EXCEPT ![p] = "settle"]
            /\ UNCHANGED call
      BY <2>11 DEF Evict, Remove, Goto
    <3>2. k \in Keys
      BY DEF TypeOK, Admission
    <3> QED
      BY <3>1, <3>2, EvictedType DEF TypeOK, LocalsOK, Labels
  <2>12. CASE Settle(p)
    <3>1. CASE Return(p)
      BY <3>1, ReturnLocals
    <3>2. CASE /\ hand' = [hand EXCEPT ![p] = NoHand]
               /\ Goto(p, IF adm[p].victims = {} THEN "measure" ELSE "evict")
               /\ UNCHANGED <<call, adm>>
      BY <3>2, Nothing DEF Goto, TypeOK, LocalsOK, Labels
    <3> QED
      BY <2>12, <3>1, <3>2 DEF Settle
  <2>13. CASE Read(p) \/ Reread(p)
    <3>1. CASE Return(p)
      BY <3>1, ReturnLocals
    <3>2. CASE Goto(p, "remove") /\ UNCHANGED <<call, hand, adm>>
      BY <3>2 DEF Goto, TypeOK, LocalsOK, Labels
    <3>3. CASE /\ call' = [call EXCEPT ![p].entry = data[call[p].key]]
               /\ Goto(p, "schedule") /\ UNCHANGED <<hand, adm>>
      <4>1. data[call[p].key] \in Slot /\ call \in [Procs -> [op: Ops, key: Keys, entry: Slot]]
        BY DEF TypeOK
      <4>2. call' \in [Procs -> [op: Ops, key: Keys, entry: Slot]]
        BY <3>3, <4>1
      <4>3. pc' \in [Procs -> Labels]
        BY <3>3 DEF Goto, TypeOK, Labels
      <4> QED
        BY <3>3, <4>2, <4>3 DEF TypeOK, LocalsOK
    <3> QED
      BY <2>13, <3>1, <3>2, <3>3 DEF Read, Reread
  <2>14. CASE Take(p)
    BY <2>14 DEF Take, Remove, Goto, TypeOK, LocalsOK, Labels
  <2>15. CASE SetTTL(p)
    BY <2>15 DEF SetTTL, Goto, TypeOK, LocalsOK, Labels
  <2>16. CASE ClearTracker(p) \/ ClearShard(p)
    BY <2>16 DEF ClearTracker, ClearShard, Goto, TypeOK, LocalsOK, Labels
  <2> QED
    BY <1>4, <2>1, <2>2, <2>3, <2>4, <2>5, <2>6, <2>7, <2>8, <2>10, <2>11, <2>12,
       <2>13, <2>14, <2>15, <2>16, <2>17, <2>18 DEF Advance
<1> QED
  BY <1>1, <1>2, <1>3, <1>4, <1>5 DEF Request

-----------------------------------------------------------------------------
(* What processes know *)

(* A step of p changes entries only in shards that are free or its own, so *)
(* what the other processes know stays true.                               *)
LEMMA Knowledge ==
  ASSUME IInv, NEW p \in Procs, CallOK(p)',
         \A q \in Procs \ {p} : /\ pc'[q] = pc[q] /\ call'[q] = call[q]
                                /\ hand'[q] = hand[q] /\ adm'[q] = adm[q],
         \A k \in Keys : data'[k] = data[k] \/ lock[ShardOf[k]] \in {None, p}
  PROVE  CallInv'
<1> SUFFICES ASSUME NEW q \in Procs \ {p}
             PROVE  CallOK(q)'
  BY DEF CallInv
<1>1. CallOK(q)
  BY DEF IInv, CallInv
<1>2. pc[q] = "settle" => data'[hand[q].key] = Absent
  <2> SUFFICES ASSUME pc[q] = "settle"
               PROVE  data'[hand[q].key] = Absent
    OBVIOUS
  <2>1. lock[ShardOf[hand[q].key]] = q /\ hand[q].key \in Keys
    BY DEF IInv, LockInv, TypeOK, InHand
  <2>2. data[hand[q].key] = Absent
    BY <1>1 DEF CallOK
  <2> QED
    BY <2>1, <2>2
<1> QED
  BY <1>1, <1>2 DEF CallOK

(* Steps of p leave the other processes' locals alone, and their data.     *)
LEMMA Local ==
  ASSUME TypeOK, LockInv, NEW p \in Procs, Request(p) \/ Advance(p)
  PROVE  /\ \A q \in Procs \ {p} : /\ pc'[q] = pc[q] /\ call'[q] = call[q]
                                   /\ hand'[q] = hand[q] /\ adm'[q] = adm[q]
         /\ \A k \in Keys : data'[k] = data[k] \/ lock[ShardOf[k]] \in {None, p}
<1>1. CASE Request(p)
  BY <1>1 DEF Request, Write, Start, Close, Refused, Begin, Goto, vars, store, locals, TypeOK
<1>2. CASE Advance(p)
  <2>1. CASE \/ PutBlocked(p) \/ Schedule(p) \/ AdmitTooLarge(p) \/ AdmitCapped(p)
             \/ NoVictims(p) \/ NothingToTake(p) \/ SetTTLMissing(p) \/ Cleared(p)
    BY <2>1 DEF PutBlocked, Schedule, AdmitTooLarge, AdmitCapped, NoVictims,
       NothingToTake, SetTTLMissing, Cleared, Return, store, TypeOK
  <2>2. CASE AdmitUnlimited(p) \/ AdmitRoom(p)
    BY <2>2 DEF AdmitUnlimited, AdmitRoom, Retry, Return, Goto, store, TypeOK
  <2>3. CASE PutLock(p) \/ Reserve(p) \/ ReserveRefused(p)
    BY <2>3 DEF PutLock, Reserve, ReserveRefused, Goto, store, TypeOK
  <2>4. CASE Store(p)
    BY <2>4 DEF Store, Goto, TypeOK, LockInv, InHand
  <2>5. CASE AdmitLimit(p) \/ Measure(p) \/ AdmitShort(p) \/ SelectVictims(p)
    BY <2>5 DEF AdmitLimit, Measure, AdmitShort, SelectVictims, Goto, store, TypeOK
  <2>6. CASE EvictMissing(p)
    BY <2>6 DEF EvictMissing, Goto, store, TypeOK
  <2>7. CASE Evict(p) \/ Take(p)
    BY <2>7 DEF Evict, Take, Remove, Goto, Free, TypeOK
  <2>8. CASE Settle(p)
    BY <2>8 DEF Settle, Return, Goto, store, TypeOK
  <2>9. CASE Read(p) \/ Reread(p)
    BY <2>9 DEF Read, Reread, Return, Goto, store, TypeOK
  <2>10. CASE SetTTL(p)
    BY <2>10 DEF SetTTL, Goto, Free, Home, TypeOK
  <2>11. CASE ClearTracker(p)
    BY <2>11 DEF ClearTracker, Goto, store, TypeOK
  <2>12. CASE ClearShard(p)
    BY <2>12 DEF ClearShard, Goto, TypeOK
  <2> QED
    BY <1>2, <2>1, <2>2, <2>3, <2>4, <2>5, <2>6, <2>7, <2>8, <2>9, <2>10, <2>11,
       <2>12 DEF Advance
<1> QED
  BY <1>1, <1>2

LEMMA CallStep ==
  ASSUME IInv, NEW p \in Procs, Request(p) \/ Advance(p)
  PROVE  CallInv'
<1>0. TypeOK /\ LockInv /\ CallOK(p)
  BY DEF IInv, CallInv
<1> SUFFICES CallOK(p)'
  BY <1>0, Local, Knowledge
<1>1. CASE Write(p)
  <2>1. PICK k \in Keys, size \in 1..MaxSize, ttl \in TTLs, op \in Writes :
          Begin(p, op, k, [size |-> size, ttl |-> ttl], "put")
    BY <1>1 DEF Write, Writes
  <2>2. [size |-> size, ttl |-> ttl] \in Entry
    BY TTLsType DEF Entry
  <2>3. /\ call'[p] = [op |-> op, key |-> k, entry |-> [size |-> size, ttl |-> ttl]]
        /\ pc'[p] = "put"
    BY <1>0, <2>1 DEF Begin, Goto, TypeOK
  <2> QED
    BY <2>2, <2>3 DEF CallOK, Writing, Writes
<1>2. CASE Start(p)
  <2>1. PICK k \in Keys, ttl \in {"none", "live"}, op \in Ops \ Writes, l \in Labels :
          /\ call'[p].op = op /\ pc'[p] = l /\ l \notin Writing \union {"settle", "reread"}
          /\ l \in {"read", "remove"} => op \in {"get", "expire", "delete"}
          /\ l = "setttl" => op = "setttl" /\ call'[p].entry.ttl = ttl
    <3>1. CASE \E k \in Keys : Begin(p, "delete", k, Absent, "remove")
      BY <1>0, <3>1 DEF Begin, Goto, TypeOK, Ops, Writes, Writing, Labels
    <3>2. CASE \E k \in Keys : Begin(p, "expire", k, Absent, "remove")
      BY <1>0, <3>2 DEF Begin, Goto, TypeOK, Ops, Writes, Writing, Labels
    <3>3. CASE \E k \in Keys : Begin(p, "get", k, Absent, "read")
      BY <1>0, <3>3 DEF Begin, Goto, TypeOK, Ops, Writes, Writing, Labels
    <3>4. CASE \E k \in Keys, ttl \in TTLs :
                 Begin(p, "setttl", k, [size |-> 1, ttl |-> ttl], "setttl")
      BY <1>0, <3>4, TTLsType DEF Begin, Goto, TypeOK, Ops, Writes, Writing, Labels
    <3> QED
      BY <1>2, <3>1, <3>2, <3>3, <3>4 DEF Start
  <2> QED
    BY <2>1 DEF CallOK, Writing, Writes
<1>3. CASE Close(p)
  BY <1>0, <1>3 DEF Close, Goto, TypeOK, CallOK, Writing, Writes
<1>4. CASE Refused(p)
  BY <1>0, <1>4 DEF Refused, vars, store, locals, CallOK
<1>5. CASE Return(p)
  BY <1>0, <1>5 DEF Return, TypeOK, CallOK, NoCall, Writing, Writes
<1>6. CASE PutLock(p)
  <2>1. /\ hand'[p] = [key |-> call[p].key, entry |-> call[p].entry]
        /\ pc'[p] = "reserve" /\ call'[p] = call[p]
        /\ adm'[p] = [adm[p] EXCEPT !.limit = max]
        /\ pc[p] = "put"
    BY <1>0, <1>6 DEF PutLock, Goto, TypeOK
  <2>2. adm'[p].limit = max /\ max \in Limits
    BY <1>0, <2>1 DEF TypeOK, Admission
  <2> QED
    BY <1>0, <2>1, <2>2 DEF CallOK, Writing, Writes
<1>7. CASE Reserve(p)
  BY <1>0, <1>7 DEF Reserve, Goto, TypeOK, CallOK, Writing, Writes
<1>8. CASE ReserveRefused(p) \/ Store(p)
  BY <1>0, <1>8 DEF ReserveRefused, Store, Goto, TypeOK, CallOK, Writing, Writes
<1>9. CASE /\ pc[p] \in Writing \ {"reserve", "store"} /\ UNCHANGED call
           /\ pc'[p] \in Writing \ {"reserve", "store"}
  BY <1>0, <1>9 DEF CallOK, Writing, Writes
<1>10. CASE AdmitUnlimited(p) \/ AdmitRoom(p)
  BY <1>0, <1>5, <1>9, <1>10 DEF AdmitUnlimited, AdmitRoom, Retry, Goto, TypeOK, Writing
<1>11. CASE AdmitLimit(p) \/ Measure(p) \/ AdmitShort(p) \/ SelectVictims(p)
  BY <1>0, <1>9, <1>11 DEF AdmitLimit, Measure, AdmitShort, SelectVictims, Goto, TypeOK, Writing
<1>12. CASE EvictMissing(p)
  BY <1>0, <1>9, <1>12 DEF EvictMissing, Goto, TypeOK, Writing
<1>13. CASE Evict(p) \/ Take(p)
  <2>1. PICK k \in Keys : Remove(p, k)
    BY <1>0, <1>13 DEF Evict, Take, TypeOK, Admission
  <2>2. /\ pc'[p] = "settle" /\ hand'[p] = [key |-> k, entry |-> data[k]]
        /\ data'[k] = Absent /\ data[k] \in Slot /\ Present(data[k])
    BY <1>0, <2>1 DEF Remove, Goto, TypeOK
  <2>3. data[k] \in Entry
    BY <2>2 DEF Slot, Present, Absent
  <2>4. UNCHANGED call
    BY <1>13 DEF Evict, Take
  <2> QED
    BY <1>0, <2>2, <2>3, <2>4 DEF CallOK, Writing
<1>14. CASE Settle(p)
  <2>1. CASE /\ call[p].op \in Writes /\ hand' = [hand EXCEPT ![p] = NoHand]
             /\ Goto(p, IF adm[p].victims = {} THEN "measure" ELSE "evict")
             /\ UNCHANGED <<call, adm>>
    BY <1>0, <2>1 DEF Goto, TypeOK, CallOK, Writing
  <2> QED
    BY <1>5, <1>14, <2>1 DEF Settle, Writes
<1>15. CASE Read(p)
  <2>1. CASE Goto(p, "remove") /\ UNCHANGED <<call, hand, adm>>
    BY <1>0, <1>15, <2>1 DEF Read, Goto, TypeOK, CallOK, Writing
  <2> QED
    BY <1>5, <1>15, <2>1 DEF Read
<1>16. CASE SetTTL(p)
  BY <1>0, <1>16 DEF SetTTL, Goto, TypeOK, CallOK, Writing
<1>17. CASE Reread(p)
  <2>1. CASE /\ call' = [call EXCEPT ![p].entry = data[call[p].key]]
             /\ Goto(p, "schedule")
    BY <1>0, <1>17, <2>1 DEF Reread, Goto, TypeOK, CallOK, Writing, Writes
  <2> QED
    BY <1>5, <1>17, <2>1 DEF Reread
<1>18. CASE ClearTracker(p) \/ ClearShard(p)
  BY <1>0, <1>18 DEF ClearTracker, ClearShard, Goto, TypeOK, CallOK, Writing
<1>19. CASE \/ PutBlocked(p) \/ Schedule(p) \/ AdmitTooLarge(p) \/ AdmitCapped(p)
            \/ NoVictims(p) \/ NothingToTake(p) \/ SetTTLMissing(p) \/ Cleared(p)
  BY <1>5, <1>19 DEF PutBlocked, Schedule, AdmitTooLarge, AdmitCapped, NoVictims,
     NothingToTake, SetTTLMissing, Cleared
<1> QED
  BY <1>1, <1>2, <1>3, <1>4, <1>6, <1>7, <1>8, <1>10, <1>11, <1>12, <1>13, <1>14, <1>15,
     <1>16, <1>17, <1>18, <1>19 DEF Request, Advance

-----------------------------------------------------------------------------
(* The accounting of every step *)

Numbers == used \in Nat /\ \A s \in Shards : memory[s] \in Nat /\ withTTL[s] \in Nat

LEMMA SetTTLStep ==
  ASSUME IInv, NEW p \in Procs, SetTTL(p)
  PROVE  LockInv' /\ ShardExact' /\ AccountingExact' /\ HardLimit' /\ Numbers' /\ Effect
<1> DEFINE k == call[p].key
           t == call[p].entry.ttl
<1>1. /\ TypeOK /\ k \in Keys /\ data[k] \in Entry /\ t \in {"none", "live"}
      /\ data[k].ttl \in {"none", "live"}
  BY DEF IInv, TypeOK, CallInv, CallOK, SetTTL, Live, Present, IsExpired, Slot, Absent, Entry
<1>2. TTLCount([data[k] EXCEPT !.ttl = t]) = IF t = "live" THEN 1 ELSE 0
  BY <1>1 DEF TTLCount, HasTTL, Entry
<1>3. /\ data' = [data EXCEPT ![k].ttl = t]
      /\ withTTL' = [withTTL EXCEPT ![ShardOf[k]] =
                       (@ - TTLCount(data[k])) + TTLCount([data[k] EXCEPT !.ttl = t])]
      /\ UNCHANGED <<memory, lock, used, hand, sweep>>
      /\ pc' = [pc EXCEPT ![p] = "reread"] /\ pc[p] \notin InHand \union {"reset"}
  BY <1>2 DEF SetTTL, Home, Goto, InHand
<1> HIDE DEF k, t
<1> QED
  BY <1>1, <1>3, RetimeStep DEF Numbers, TypeOK

LEMMA LapseStep ==
  ASSUME IInv, NEW k \in Keys, Lapse(k)
  PROVE  LockInv' /\ ShardExact' /\ AccountingExact' /\ HardLimit' /\ Numbers' /\ Effect
<1>1. TypeOK /\ data[k] \in Entry /\ data[k].ttl = "live" /\ ShardOf[k] \in Shards
  BY DEF IInv, TypeOK, Lapse, Slot, Absent
<1>2. TTLCount(data[k]) = 1 /\ TTLCount([data[k] EXCEPT !.ttl = "expired"]) = 1
  BY <1>1 DEF Lapse, TTLCount, HasTTL, Entry
<1>3. withTTL[ShardOf[k]] = (withTTL[ShardOf[k]] - 1) + 1
  BY <1>1 DEF TypeOK
<1>4. /\ data' = [data EXCEPT ![k].ttl = "expired"]
      /\ withTTL' = [withTTL EXCEPT ![ShardOf[k]] =
            (@ - TTLCount(data[k])) + TTLCount([data[k] EXCEPT !.ttl = "expired"])]
      /\ UNCHANGED <<memory, lock, used, hand, sweep>> /\ pc' = pc
  BY <1>1, <1>2, <1>3 DEF Lapse, TypeOK, locals
<1> QED
  BY <1>1, <1>4, RetimeStep DEF Numbers, TypeOK

LEMMA AccountStep ==
  ASSUME IInv, NEW p \in Procs, Request(p) \/ Advance(p)
  PROVE  LockInv' /\ ShardExact' /\ AccountingExact' /\ HardLimit' /\ Numbers' /\ Effect
<1>0. TypeOK /\ Numbers
  BY DEF IInv, TypeOK, Numbers
<1>1. CASE /\ pc[p] \notin InHand \union {"reset"} /\ pc'[p] \notin InHand \union {"reset"}
           /\ UNCHANGED <<data, memory, withTTL, lock, used>>
           /\ \A q \in Procs \ {p} : sweep'[q] = sweep[q]
  BY <1>0, <1>1, Local, Quiet DEF IInv, Numbers
<1>2. CASE Return(p) /\ UNCHANGED <<data, memory, withTTL, lock, used, sweep>>
           /\ pc[p] \notin InHand \union {"reset"}
  BY <1>0, <1>1, <1>2 DEF Return, TypeOK, InHand
<1>3. CASE Request(p)
  <2>1. CASE Write(p) \/ Start(p)
    BY <1>0, <1>1, <2>1 DEF Write, Start, Begin, Goto, store, TypeOK, InHand
  <2>2. CASE Close(p)
    BY <1>0, <1>1, <2>2 DEF Close, Goto, store, TypeOK, InHand
  <2>3. CASE Refused(p)
    BY <1>0, <1>1, <2>3 DEF Refused, vars, store, locals, InHand
  <2> QED
    BY <1>3, <2>1, <2>2, <2>3 DEF Request
<1>4. CASE Advance(p)
  <2>1. CASE \/ PutBlocked(p) \/ Schedule(p) \/ AdmitTooLarge(p) \/ AdmitCapped(p)
             \/ NoVictims(p) \/ NothingToTake(p) \/ SetTTLMissing(p) \/ Cleared(p)
    BY <1>2, <2>1 DEF PutBlocked, Schedule, AdmitTooLarge, AdmitCapped, NoVictims,
       NothingToTake, SetTTLMissing, Cleared, store, InHand
  <2>2. CASE AdmitUnlimited(p) \/ AdmitRoom(p)
    BY <1>0, <1>1, <1>2, <2>2 DEF AdmitUnlimited, AdmitRoom, Retry, Goto, store, InHand, TypeOK
  <2>3. CASE \/ AdmitLimit(p) \/ Measure(p) \/ AdmitShort(p) \/ SelectVictims(p)
             \/ EvictMissing(p)
    BY <1>0, <1>1, <2>3 DEF AdmitLimit, Measure, AdmitShort, SelectVictims, EvictMissing,
       Goto, store, InHand, TypeOK
  <2>4. CASE Read(p) \/ Reread(p)
    BY <1>0, <1>1, <1>2, <2>4 DEF Read, Reread, Goto, store, InHand, TypeOK
  <2>5. CASE PutLock(p)
    BY <1>0, <2>5, PutLockStep DEF PutLock, store, Numbers
  <2>6. CASE Reserve(p)
    BY <1>0, <2>6, ReserveStep DEF Reserve, store, Numbers
  <2>7. CASE ReserveRefused(p)
    BY <1>0, <2>7, ReserveRefusedStep DEF ReserveRefused, store, Numbers
  <2>8. CASE Store(p)
    BY <1>0, <2>8, StoreStep DEF Store, Numbers
  <2>9. CASE Evict(p) \/ Take(p)
    <3>1. PICK k \in Keys : Remove(p, k)
      BY <1>0, <2>9 DEF Evict, Take, TypeOK, Admission
    <3>2. pc[p] \notin InHand \union {"reset"} /\ UNCHANGED <<used, sweep>>
      BY <2>9 DEF Evict, Take, InHand
    <3> QED
      BY <1>0, <3>1, <3>2, RemoveStep DEF Numbers
  <2>10. CASE Settle(p)
    BY <1>0, <2>10, SettleStep DEF Settle, store, Numbers
  <2>11. CASE SetTTL(p)
    BY <2>11, SetTTLStep
  <2>12. CASE ClearTracker(p)
    BY <1>0, <2>12, ClearTrackerStep DEF ClearTracker, store, Numbers
  <2>13. CASE ClearShard(p)
    BY <1>0, <2>13, ClearShardStep DEF ClearShard, Numbers
  <2> QED
    BY <1>4, <2>1, <2>2, <2>3, <2>4, <2>5, <2>6, <2>7, <2>8, <2>9, <2>10, <2>11, <2>12,
       <2>13 DEF Advance
<1> QED
  BY <1>3, <1>4

-----------------------------------------------------------------------------
(* The invariant *)

(* The parts of the type invariant the other lemmas do not establish.      *)
LEMMA ShapeStep ==
  ASSUME IInv, NEW p \in Procs, Request(p) \/ Advance(p), LocalsOK', Numbers'
  PROVE  TypeOK'
<1>0. TypeOK /\ CallInv
  BY DEF IInv
<1> SUFFICES /\ data' \in [Keys -> Slot] /\ memory' \in [Shards -> Nat]
             /\ withTTL' \in [Shards -> Nat] /\ lock' \in [Shards -> Procs \union {None}]
             /\ max' \in Limits /\ evicts' \in BOOLEAN /\ closed' \in BOOLEAN
             /\ hints' \subseteq Keys /\ sweep' \in [Procs -> SUBSET Shards]
  BY DEF TypeOK, LocalsOK, Numbers
<1>1. CASE UNCHANGED <<data, memory, withTTL, lock, max, evicts, closed, hints, sweep>>
  BY <1>0, <1>1 DEF TypeOK
<1>2. CASE Write(p) \/ Start(p) \/ Refused(p)
  BY <1>1, <1>2 DEF Write, Start, Refused, Begin, vars, store, config, locals
<1>3. CASE Close(p)
  BY <1>0, <1>3 DEF Close, store, config, TypeOK
<1>4. CASE Advance(p)
  <2>1. CASE \/ PutBlocked(p) \/ AdmitUnlimited(p) \/ AdmitTooLarge(p) \/ AdmitLimit(p)
             \/ Measure(p) \/ AdmitRoom(p) \/ AdmitCapped(p) \/ AdmitShort(p)
             \/ SelectVictims(p) \/ NoVictims(p) \/ EvictMissing(p) \/ Read(p)
             \/ NothingToTake(p) \/ SetTTLMissing(p) \/ Reread(p) \/ Cleared(p) \/ Reserve(p)
    BY <1>1, <2>1 DEF PutBlocked, AdmitUnlimited, AdmitTooLarge, AdmitLimit, Measure,
       AdmitRoom, AdmitCapped, AdmitShort, SelectVictims, NoVictims, EvictMissing, Read,
       NothingToTake, SetTTLMissing, Reread, Cleared, Reserve, store, config
  <2>2. CASE Schedule(p)
    BY <1>0, <2>2 DEF Schedule, store, config, TypeOK
  <2>3. CASE PutLock(p) \/ ReserveRefused(p) \/ Settle(p) \/ ClearTracker(p)
    BY <1>0, <2>3 DEF PutLock, ReserveRefused, Settle, ClearTracker, store, config, TypeOK
  <2>4. CASE Store(p)
    <3>1. data' \in [Keys -> Slot] /\ lock' \in [Shards -> Procs \union {None}]
      BY <1>0, <2>4 DEF Store, TypeOK
    <3>2. memory' \in [Shards -> Nat] /\ withTTL' \in [Shards -> Nat]
      BY <1>0, <2>4 DEF Store, TypeOK, Numbers
    <3> QED
      BY <1>0, <2>4, <3>1, <3>2 DEF Store, config, TypeOK
  <2>5. CASE Evict(p) \/ Take(p)
    <3>1. PICK k \in Keys : Remove(p, k)
      BY <1>0, <2>5 DEF Evict, Take, TypeOK, Admission
    <3>2. data' \in [Keys -> Slot] /\ lock' \in [Shards -> Procs \union {None}]
      BY <1>0, <3>1 DEF Remove, TypeOK, Slot
    <3>3. memory' \in [Shards -> Nat] /\ withTTL' \in [Shards -> Nat]
      BY <1>0, <3>1 DEF Remove, TypeOK, Numbers
    <3> QED
      BY <1>0, <2>5, <3>2, <3>3 DEF Evict, Take, config, TypeOK
  <2>6. CASE SetTTL(p)
    <3> DEFINE k == call[p].key
               e == [data[k] EXCEPT !.ttl = call[p].entry.ttl]
    <3>1. k \in Keys /\ data[k] \in Entry /\ data' = [data EXCEPT ![k] = e]
      BY <1>0, <2>6 DEF SetTTL, TypeOK, Live, Present, Slot, Absent
    <3>4. e \in Slot
      BY <1>0, <2>6, <3>1 DEF SetTTL, CallInv, CallOK, Entry, Slot
    <3>2. data' \in [Keys -> Slot]
      BY <1>0, <3>1, <3>4 DEF TypeOK
    <3>3. withTTL' \in [Shards -> Nat]
      BY <1>0, <2>6 DEF SetTTL, TypeOK, Numbers
    <3> QED
      BY <1>0, <2>6, <3>2, <3>3 DEF SetTTL, config, TypeOK
  <2>7. CASE ClearShard(p)
    <3>1. data' \in [Keys -> Slot]
      BY <1>0, <2>7 DEF ClearShard, TypeOK, Slot
    <3>2. /\ memory' \in [Shards -> Nat] /\ withTTL' \in [Shards -> Nat]
          /\ lock' \in [Shards -> Procs \union {None}] /\ sweep' \in [Procs -> SUBSET Shards]
      BY <1>0, <2>7 DEF ClearShard, TypeOK
    <3> QED
      BY <1>0, <2>7, <3>1, <3>2 DEF ClearShard, config, TypeOK
  <2> QED
    BY <1>4, <2>1, <2>2, <2>3, <2>4, <2>5, <2>6, <2>7 DEF Advance
<1> QED
  BY <1>2, <1>3, <1>4 DEF Request

(* Reconfiguration only moves within what is configured; a deadline that   *)
(* passes changes nothing that is counted.                                 *)
LEMMA EnvironmentStep ==
  ASSUME IInv, Environment
  PROVE  IInv'
<1>0. TypeOK /\ CallInv
  BY DEF IInv
<1>1. CASE SetMaxMemory \/ SetPolicy
  <2>1. UNCHANGED <<data, memory, withTTL, lock, used, closed, hints, pc, call, hand, adm, sweep>>
    BY <1>1 DEF SetMaxMemory, SetPolicy, store, locals
  <2>2. TypeOK'
    BY <1>0, <1>1, <2>1, PoliciesType DEF SetMaxMemory, SetPolicy, TypeOK
  <2>3. LockInv' /\ CallInv'
    BY <2>1 DEF IInv, LockInv, CallInv, CallOK
  <2>4. ShardExact' /\ AccountingExact' /\ HardLimit'
    BY <2>1 DEF IInv, ShardExact, AccountingExact, HardLimit, Committed
  <2> QED
    BY <2>2, <2>3, <2>4 DEF IInv
<1>2. ASSUME NEW k \in Keys, Lapse(k)
      PROVE  IInv'
  <2>1. LockInv' /\ ShardExact' /\ AccountingExact' /\ HardLimit' /\ Numbers'
    BY <1>2, LapseStep
  <2>2. /\ data' = [data EXCEPT ![k].ttl = "expired"] /\ data[k] \in Entry
        /\ UNCHANGED <<memory, withTTL, lock, used, max, evicts, closed, hints, locals>>
    BY <1>0, <1>2 DEF Lapse, config, TypeOK, Slot, Absent
  <2>3. TypeOK'
    BY <1>0, <2>2 DEF TypeOK, locals, Slot, Entry
  <2>4. CallInv'
    <3>1. \A j \in Keys : data[j] = Absent => data'[j] = Absent
      BY <1>0, <2>2 DEF TypeOK, Absent, Entry
    <3> QED
      BY <1>0, <2>2, <3>1 DEF CallInv, CallOK, TypeOK, locals
  <2> QED
    BY <2>1, <2>3, <2>4 DEF IInv
<1>3. ASSUME NEW p \in Procs, LapseIncoming(p)
      PROVE  IInv'
  <2>1. /\ UNCHANGED <<data, memory, withTTL, lock, used, max, evicts, closed, hints, pc, hand,
                       adm, sweep>>
        /\ pc[p] = "put" /\ call' = [call EXCEPT ![p].entry.ttl = "expired"]
        /\ call[p].entry \in Entry
    BY <1>0, <1>3 DEF LapseIncoming, store, config, CallInv, CallOK, Writing, Writes
  <2>2. [call[p].entry EXCEPT !.ttl = "expired"] \in Entry
    BY <2>1 DEF Entry
  <2>3. call'[p].entry \in Entry /\ call'[p].op = call[p].op /\ call'[p].key = call[p].key
    BY <1>0, <2>1, <2>2 DEF TypeOK
  <2>4. TypeOK'
    <3> DEFINE e == [call[p].entry EXCEPT !.ttl = "expired"]
    <3>1. e \in Slot /\ call[p] \in [op: Ops, key: Keys, entry: Slot]
      BY <1>0, <2>2 DEF Slot, TypeOK
    <3>3. call' = [call EXCEPT ![p] = [call[p] EXCEPT !.entry = e]]
      BY <1>0, <2>1 DEF TypeOK
    <3> HIDE DEF e
    <3>4. [call[p] EXCEPT !.entry = e] \in [op: Ops, key: Keys, entry: Slot]
      BY <3>1
    <3>2. call' \in [Procs -> [op: Ops, key: Keys, entry: Slot]]
      BY <1>0, <3>3, <3>4 DEF TypeOK
    <3> QED
      BY <1>0, <2>1, <3>2 DEF TypeOK
  <2>5. CallInv'
    BY <1>0, <2>1, <2>3 DEF CallInv, CallOK, TypeOK
  <2>6. LockInv' /\ ShardExact' /\ AccountingExact' /\ HardLimit'
    BY <2>1 DEF IInv, LockInv, ShardExact, AccountingExact, HardLimit, Committed
  <2> QED
    BY <2>4, <2>5, <2>6 DEF IInv
<1> QED
  BY <1>1, <1>2, <1>3 DEF Environment

(* Nothing is resident, charged, counted or locked at the start.           *)
LEMMA InitStep ==
  ASSUME Init
  PROVE  IInv
<1>1. TypeOK
  <2>1. Absent \in Slot
    BY DEF Slot
  <2> QED
    BY <2>1, Nothing, PoliciesType DEF Init, TypeOK, Labels
<1>2. LockInv
  BY <1>1 DEF Init, LockInv, InHand
<1>3. CallInv
  BY DEF Init, CallInv, CallOK, NoCall, Writing, Writes
<1>4. \A k \in Keys : data[k] = Absent /\ Committed[k] = Absent
  BY DEF Init, Committed
<1>5. Bytes(Committed, Keys) = 0
  BY <1>4, BytesDrop
<1>6. ASSUME NEW s \in Shards
      PROVE  Bytes(data, KeysOf(s)) = 0 /\ Cardinality(Expiring(data, KeysOf(s))) = 0
  <2>1. IsFiniteSet(KeysOf(s)) /\ \A k \in KeysOf(s) : data[k] = Absent
    BY <1>4, KeysOfFinite
  <2>2. Expiring(data, KeysOf(s)) = {}
    BY <2>1 DEF Expiring, HasTTL, Absent
  <2> QED
    BY <2>1, <2>2, BytesDrop, FS_EmptySet
<1>7. HardLimit
  <2>1. PICK l \in Limits : TRUE
    BY LimitsType
  <2> QED
    BY <2>1, LimitsType DEF Init, HardLimit
<1> QED
  BY <1>1, <1>2, <1>3, <1>5, <1>6, <1>7 DEF IInv, ShardExact, AccountingExact, Init

LEMMA NextStep ==
  ASSUME IInv, [Next]_vars
  PROVE  IInv'
<1>1. CASE UNCHANGED vars
  <2>1. /\ UNCHANGED <<data, memory, withTTL, lock, used, max, evicts, closed, hints>>
        /\ UNCHANGED <<pc, call, hand, adm, sweep>>
    BY <1>1 DEF vars, store, config, locals
  <2>2. TypeOK'
    BY <2>1 DEF IInv, TypeOK
  <2>3. LockInv' /\ CallInv'
    BY <2>1 DEF IInv, LockInv, CallInv, CallOK
  <2>4. Committed' = Committed
    BY <2>1 DEF Committed
  <2>5. ShardExact' /\ AccountingExact' /\ HardLimit'
    BY <2>1, <2>4 DEF IInv, ShardExact, AccountingExact, HardLimit
  <2> QED
    BY <2>2, <2>3, <2>5 DEF IInv
<1>2. ASSUME NEW p \in Procs, Request(p) \/ Advance(p)
      PROVE  IInv'
  <2>1. TypeOK
    BY DEF IInv
  <2>2. LockInv' /\ ShardExact' /\ AccountingExact' /\ HardLimit' /\ Numbers'
    BY <1>2, AccountStep
  <2>3. CallInv'
    BY <1>2, CallStep
  <2>4. TypeOK'
    BY <1>2, <2>1, <2>2, LocalsStep, ShapeStep
  <2> QED
    BY <2>2, <2>3, <2>4 DEF IInv
<1> QED
  BY <1>1, <1>2, EnvironmentStep DEF Next

(* The whole invariant, of which the theorems below are parts.             *)
THEOREM Invariance == Spec => []IInv
BY InitStep, NextStep, PTL DEF Spec

(* No counter is ever negative and every variable keeps its kind, whatever *)
(* the calls and their interleaving.                                       *)
THEOREM TypeCorrect == Spec => []TypeOK
BY Invariance, PTL DEF IInv

(* The global tracker never drifts: up to lock holds half way, it is the   *)
(* sum of the sizes of what is stored (memory.go, Reserve and Sub).        *)
THEOREM TrackerExact == Spec => []AccountingExact
BY Invariance, PTL DEF IInv

(* Each shard's bytes and expiry count are those of its entries.           *)
THEOREM ShardsExact == Spec => []ShardExact
BY Invariance, PTL DEF IInv

(* max_memory is hard: concurrent writers never exceed together what each  *)
(* was admitted under alone (memory.go, Reserve).                          *)
THEOREM MaxMemoryHolds == Spec => []HardLimit
BY Invariance, PTL DEF IInv

(* What a step is about to give back is still counted.                     *)
LEMMA NeverOverdrawn ==
  ASSUME IInv
  PROVE  ClampsNeverBite
<1>0. TypeOK /\ LockInv /\ CallInv /\ ShardExact /\ AccountingExact
  BY DEF IInv
<1> SUFFICES ASSUME NEW p \in Procs
             PROVE  /\ pc[p] = "reserve" => data[hand[p].key].size <= used
                    /\ pc[p] = "settle" => hand[p].entry.size <= used
                    /\ pc[p] = "clear" => \A s \in sweep[p] : Free(s) => memory[s] <= used
  BY DEF ClampsNeverBite
<1>1. hand[p].key \in Keys
  BY <1>0 DEF TypeOK
<1>2. CASE pc[p] \in {"reserve", "settle"}
  <2>1. lock[ShardOf[hand[p].key]] = p
    BY <1>0, <1>2 DEF LockInv, InHand
  <2>2. /\ pc[p] = "reserve" => Committed[hand[p].key] = data[hand[p].key]
        /\ pc[p] = "settle" => Committed[hand[p].key] = hand[p].entry
    BY <1>1, <2>1 DEF Committed
  <2>3. Committed[hand[p].key].size <= used
    BY <1>1, Covered
  <2> QED
    BY <1>2, <2>2, <2>3
<1>3. ASSUME pc[p] = "clear", NEW s \in sweep[p], Free(s)
      PROVE  memory[s] <= used
  <2> DEFINE D == KeysOf(s)
  <2>1. s \in Shards /\ D \in SUBSET Keys
    BY <1>0, KeysOfFinite DEF TypeOK
  <2>2. \A k \in D : Committed[k] = data[k]
    BY <1>3, <2>1 DEF Committed, Free, KeysOf
  <2>3. memory[s] = Bytes(Committed, D)
    <3>1. \A k \in D : Committed[k].size = data[k].size
      BY <2>2
    <3>2. memory[s] = Bytes(data, D)
      BY <1>0, <2>1 DEF ShardExact
    <3> HIDE DEF D
    <3> QED
      BY <3>1, <3>2, BytesCongruent
  <2> HIDE DEF D
  <2>4. Bytes(Committed, D) <= Bytes(Committed, Keys)
    BY <2>1, BytesPart
  <2> QED
    BY <1>0, <2>3, <2>4 DEF AccountingExact
<1> QED
  BY <1>2, <1>3

(* The clamps at zero in Reserve and Sub are never what keeps the tracker  *)
(* from going negative (memory.go).                                        *)
THEOREM ClampsIdle == Spec => []ClampsNeverBite
BY Invariance, NeverOverdrawn, PTL

-----------------------------------------------------------------------------
(* The engine implements the bounded cache *)

LEMMA InitEffect ==
  ASSUME Init
  PROVE  Cache!Init
<1>1. Committed = [k \in Keys |-> Absent]
  BY DEF Init, Committed
<1> QED
  BY <1>1, SameFootprint DEF Init, Cache!Init

LEMMA NextEffect ==
  ASSUME IInv, [Next]_vars
  PROVE  Effect
<1>1. CASE UNCHANGED vars
  BY <1>1, Stutter DEF vars, store, config, locals, Committed
<1>2. ASSUME NEW p \in Procs, Request(p) \/ Advance(p)
      PROVE  Effect
  BY <1>2, AccountStep
<1>3. CASE Environment
  <2>1. CASE SetMaxMemory \/ SetPolicy
    BY <2>1, Stutter DEF SetMaxMemory, SetPolicy, store, locals, Committed
  <2>2. CASE \E k \in Keys : Lapse(k)
    BY <2>2, LapseStep
  <2>3. CASE \E p \in Procs : LapseIncoming(p)
    BY <2>3, Stutter DEF LapseIncoming, store, Committed
  <2> QED
    BY <1>3, <2>1, <2>2, <2>3 DEF Environment
<1> QED
  BY <1>1, <1>2, <1>3 DEF Next

(* Every step of every call is a step of the abstract cache or none: a     *)
(* write takes effect at its compare-and-swap, a removal when its bytes    *)
(* come off the tracker, a clear shard by shard.                           *)
THEOREM Refinement == Spec => ImplementsBoundedCache
<1>1. IInv /\ [Next]_vars => [Cache!Next]_<<Committed, used>>
  BY NextEffect DEF Effect
<1> QED
  BY Invariance, InitEffect, <1>1, PTL DEF Spec, ImplementsBoundedCache, Cache!Spec

-----------------------------------------------------------------------------
(* What a step may never do *)

(* Only a removal leads to "settle".                                       *)
LEMMA Settling ==
  ASSUME TypeOK, NEW p \in Procs, Advance(p), pc[p] # "settle", pc'[p] = "settle"
  PROVE  Take(p) \/ Evict(p)
<1>1. CASE Return(p)
  BY <1>1 DEF Return, TypeOK
<1>2. CASE \E l \in Labels \ {"settle"} : Goto(p, l)
  BY <1>2 DEF Goto, TypeOK
<1>3. CASE \/ PutBlocked(p) \/ Schedule(p) \/ AdmitTooLarge(p) \/ AdmitCapped(p)
           \/ NoVictims(p) \/ NothingToTake(p) \/ SetTTLMissing(p) \/ Cleared(p)
           \/ AdmitUnlimited(p) \/ AdmitRoom(p) \/ Read(p) \/ Reread(p)
  BY <1>1, <1>2, <1>3 DEF PutBlocked, Schedule, AdmitTooLarge, AdmitCapped, NoVictims,
     NothingToTake, SetTTLMissing, Cleared, AdmitUnlimited, AdmitRoom, Read, Reread, Retry, Labels
<1>4. CASE \/ PutLock(p) \/ Reserve(p) \/ ReserveRefused(p) \/ Store(p)
           \/ AdmitLimit(p) \/ Measure(p) \/ AdmitShort(p) \/ SelectVictims(p)
           \/ EvictMissing(p) \/ SetTTL(p) \/ ClearTracker(p) \/ ClearShard(p)
  BY <1>2, <1>4 DEF PutLock, Reserve, ReserveRefused, Store, AdmitLimit, Measure, AdmitShort,
     SelectVictims, EvictMissing, SetTTL, ClearTracker, ClearShard, Labels
<1>5. CASE Settle(p)
  BY <1>5 DEF Settle
<1> QED
  BY <1>3, <1>4, <1>5 DEF Advance

(* A SetNX about to reserve or store still sees no live entry: it has held *)
(* the lock since it looked.                                               *)
Vacant ==
  \A p \in Procs : pc[p] \in {"reserve", "store"} /\ call[p].op = "setnx"
                     => ~Live(data[call[p].key])

LEMMA VacantStep ==
  ASSUME IInv, Vacant, [Next]_vars
  PROVE  Vacant'
<1>0. TypeOK /\ LockInv /\ CallInv
  BY DEF IInv
<1> SUFFICES ASSUME NEW p \in Procs, pc'[p] \in {"reserve", "store"}, call'[p].op = "setnx"
             PROVE  ~Live(data'[call'[p].key])
  BY DEF Vacant
<1>1. CASE Environment
  <2>1. pc' = pc /\ call'[p].op = call[p].op /\ call'[p].key = call[p].key
    BY <1>0, <1>1 DEF Environment, SetMaxMemory, SetPolicy, Lapse, LapseIncoming, locals, TypeOK
  <2>2. ~Live(data[call[p].key]) /\ call[p].key \in Keys
    BY <1>0, <2>1 DEF Vacant, TypeOK
  <2>3. CASE UNCHANGED data
    BY <2>1, <2>2, <2>3
  <2>4. ASSUME NEW k \in Keys, Lapse(k)
        PROVE  ~Live(data'[call[p].key])
    BY <1>0, <2>2, <2>4 DEF Lapse, TypeOK, Live, IsExpired, Slot, Entry, Absent, Present
  <2> QED
    BY <1>1, <2>1, <2>3, <2>4 DEF Environment, SetMaxMemory, SetPolicy, LapseIncoming, store
<1>2. ASSUME NEW q \in Procs \ {p}, Request(q) \/ Advance(q)
      PROVE  ~Live(data'[call'[p].key])
  <2>1. pc'[p] = pc[p] /\ call'[p] = call[p] /\ call[p].key \in Keys
    BY <1>0, <1>2, Local DEF TypeOK
  <2>2. hand[p].key = call[p].key /\ lock[ShardOf[hand[p].key]] = p
    BY <1>0, <2>1 DEF LockInv, CallInv, CallOK, InHand
  <2>3. data'[call[p].key] = data[call[p].key]
    BY <1>0, <1>2, <2>1, <2>2, Local
  <2> QED
    BY <2>1, <2>3 DEF Vacant
<1>3. CASE UNCHANGED vars
  BY <1>3 DEF vars, store, locals, Vacant
<1>4. CASE PutLock(p)
  BY <1>0, <1>4 DEF PutLock, Goto, store, TypeOK
<1>5. CASE Reserve(p)
  BY <1>0, <1>5 DEF Reserve, Goto, store, TypeOK, Vacant
<1>6. CASE pc'[p] \notin {"reserve", "store"}
  BY <1>6
<1>7. CASE Request(p)
  BY <1>0, <1>3, <1>7 DEF Request, Write, Start, Close, Refused, Begin, Goto, TypeOK
<1>8. CASE Return(p)
  BY <1>0, <1>8 DEF Return, TypeOK
<1>9. CASE \/ PutBlocked(p) \/ Schedule(p) \/ AdmitTooLarge(p) \/ AdmitCapped(p)
           \/ NoVictims(p) \/ NothingToTake(p) \/ SetTTLMissing(p) \/ Cleared(p)
           \/ AdmitUnlimited(p) \/ AdmitRoom(p) \/ Read(p) \/ Reread(p) \/ Settle(p)
  BY <1>0, <1>8, <1>9 DEF PutBlocked, Schedule, AdmitTooLarge, AdmitCapped, NoVictims,
     NothingToTake, SetTTLMissing, Cleared, AdmitUnlimited, AdmitRoom, Read, Reread, Settle,
     Retry, Goto, TypeOK
<1>10. CASE \/ ReserveRefused(p) \/ Store(p) \/ AdmitLimit(p) \/ Measure(p) \/ AdmitShort(p)
            \/ SelectVictims(p)
  BY <1>0, <1>10 DEF ReserveRefused, Store, AdmitLimit, Measure, AdmitShort, SelectVictims,
     Goto, TypeOK
<1>11. CASE \/ EvictMissing(p) \/ SetTTL(p) \/ ClearTracker(p) \/ ClearShard(p)
            \/ Evict(p) \/ Take(p)
  BY <1>0, <1>11 DEF EvictMissing, SetTTL, ClearTracker, ClearShard, Evict, Take, Remove,
     Goto, TypeOK
<1> QED
  BY <1>1, <1>2, <1>3, <1>4, <1>5, <1>7, <1>9, <1>10, <1>11 DEF Next, Advance

(* The check and the store of a SetNX are one hold of the lock (shard.go,  *)
(* put).                                                                   *)
THEOREM SetNXExclusive == Spec => SetNXNeverReplaces
<1>1. Init => Vacant
  BY DEF Init, Vacant
<1>2. IInv /\ Vacant /\ [Next]_vars => Vacant'
  BY VacantStep
<1>3. Vacant => [\A p \in Procs :
        pc[p] = "store" /\ pc'[p] = "schedule" /\ call[p].op = "setnx"
          => ~Live(data[call[p].key])]_vars
  BY DEF Vacant
<1> QED
  BY Invariance, <1>1, <1>2, <1>3, PTL DEF Spec, SetNXNeverReplaces

(* Reclamation re-checks the expiry inside the hold that removes, so only  *)
(* an expired entry is destroyed (shard.go, expire).                       *)
THEOREM NoLiveReclaimed == Spec => LiveNeverReclaimed
<1> DEFINE Harmless(p, k) ==
      pc'[p] = "settle" /\ pc[p] # "settle" /\ call[p].op \in {"get", "expire"}
        => (data'[k] # data[k] => IsExpired(data[k]))
<1>1. ASSUME IInv, [Next]_vars, NEW p \in Procs, NEW k \in Keys
      PROVE  Harmless(p, k)
  <2>0. TypeOK /\ CallOK(p) /\ LockInv
    BY <1>1 DEF IInv, CallInv
  <2>1. CASE pc'[p] = pc[p]
    BY <2>1
  <2>2. ASSUME NEW q \in Procs \ {p}, Request(q) \/ Advance(q)
        PROVE  pc'[p] = pc[p]
    BY <2>0, <2>2, Local
  <2>3. CASE Environment \/ UNCHANGED vars
    BY <2>1, <2>3 DEF Environment, SetMaxMemory, SetPolicy, Lapse, LapseIncoming, locals, vars
  <2>4. CASE Request(p)
    BY <2>0, <2>4 DEF Request, Write, Start, Close, Refused, Begin, Goto, vars, locals, TypeOK
  <2>5. CASE Take(p)
    BY <2>0, <2>5 DEF Take, Removable, Remove, TypeOK
  <2>6. CASE Evict(p)
    BY <2>0, <2>6 DEF Evict, CallOK, Writing, Writes
  <2> QED
    BY <1>1, <2>0, <2>1, <2>2, <2>3, <2>4, <2>5, <2>6, Settling DEF Next
<1>2. IInv /\ [Next]_vars => [\A p \in Procs : \A k \in Keys : Harmless(p, k)]_vars
  BY <1>1
<1> QED
  BY Invariance, <1>2, PTL DEF Spec, LiveNeverReclaimed

-----------------------------------------------------------------------------
(* What a write may cost others *)

(* The labels of a pass of admit that has made its limit.                  *)
Passing == {"measure", "credit", "sample", "evict", "settle"}
Allowance(passes) == passes * MaxEvictionsPerWrite

(* What a pass has evicted is within the cap, and below it while a victim  *)
(* is still to come; what the passes before it evicted is within theirs.   *)
RoundOK(at, a) ==
  /\ a.attempt < AdmitAttempts
  /\ a.evicted <= MaxEvictionsPerWrite
  /\ a.cost <= Allowance(a.attempt) + a.evicted
  /\ at = "sample" \/ a.victims # {} => a.evicted < MaxEvictionsPerWrite
  /\ at \notin Passing => a.evicted = 0 /\ a.victims = {}
Rounds == \A p \in Procs : RoundOK(pc[p], adm[p])

LEMMA AllowanceGrows ==
  ASSUME NEW n \in Nat
  PROVE  /\ Allowance(n) \in Nat /\ Allowance(n + 1) = Allowance(n) + MaxEvictionsPerWrite
         /\ Allowance(n + 1) = (n + 1) * MaxEvictionsPerWrite
BY DEF Allowance

(* The numbers of a pass.                                                  *)
LEMMA PassNumbers ==
  ASSUME TypeOK, NEW p \in Procs
  PROVE  /\ adm[p] \in Admission /\ adm[p].attempt \in Nat /\ adm[p].evicted \in Nat
         /\ adm[p].cost \in Nat /\ Allowance(adm[p].attempt) \in Nat
BY AllowanceGrows DEF TypeOK, Admission

LEMMA RoundBounds ==
  ASSUME TypeOK, Rounds
  PROVE  EvictionBounded
<1> SUFFICES ASSUME NEW p \in Procs
             PROVE  /\ adm[p].attempt < AdmitAttempts
                    /\ adm[p].cost <= (adm[p].attempt + 1) * MaxEvictionsPerWrite
  BY DEF EvictionBounded
<1>1. RoundOK(pc[p], adm[p])
  BY DEF Rounds
<1>2. Allowance(adm[p].attempt) + MaxEvictionsPerWrite
        = (adm[p].attempt + 1) * MaxEvictionsPerWrite
  BY PassNumbers, AllowanceGrows
<1>3. adm[p].cost <= Allowance(adm[p].attempt) + MaxEvictionsPerWrite
  BY <1>1, PassNumbers DEF RoundOK
<1> QED
  BY <1>1, <1>2, <1>3 DEF RoundOK

(* A step that leaves the evictions alone, out of a pass or within it.     *)
LEMMA RoundKept ==
  ASSUME NEW a, NEW b, NEW at, NEW to, RoundOK(at, a),
         b.attempt = a.attempt, b.evicted = a.evicted, b.cost = a.cost, b.victims = a.victims,
         (at \notin Passing \/ to \in Passing \/ (a.evicted = 0 /\ a.victims = {})),
         to = "sample" => a.evicted < MaxEvictionsPerWrite
  PROVE  RoundOK(to, b)
BY DEF RoundOK

LEMMA RoundOver ==
  ASSUME TypeOK, NEW p \in Procs, Return(p)
  PROVE  RoundOK(pc'[p], adm'[p])
<1>1. pc'[p] = "idle" /\ adm'[p] = NoAdm
  BY DEF Return, TypeOK
<1>2. Allowance(0) = 0
  BY DEF Allowance
<1> QED
  BY <1>1, <1>2 DEF RoundOK, NoAdm

LEMMA RoundRetried ==
  ASSUME TypeOK, NEW p \in Procs, RoundOK(pc[p], adm[p]), Retry(p)
  PROVE  RoundOK(pc'[p], adm'[p])
<1> DEFINE a == adm[p]
           b == [NoAdm EXCEPT !.attempt = a.attempt + 1, !.cost = a.cost]
<1>1. CASE a.attempt + 1 < AdmitAttempts
  <2>1. adm' = [adm EXCEPT ![p] = b] /\ Goto(p, "put")
    BY <1>1 DEF Retry
  <2>2. adm'[p] = b /\ pc'[p] = "put"
    BY <2>1 DEF Goto, TypeOK
  <2>3. b.attempt = a.attempt + 1 /\ b.cost = a.cost /\ b.evicted = 0 /\ b.victims = {}
    BY DEF NoAdm
  <2> HIDE DEF b
  <2>4. a.cost <= Allowance(a.attempt) + MaxEvictionsPerWrite
    BY PassNumbers DEF RoundOK
  <2>5. b.cost <= Allowance(b.attempt) + b.evicted
    <3>1. Allowance(b.attempt) = Allowance(a.attempt) + MaxEvictionsPerWrite
      BY <2>3, PassNumbers, AllowanceGrows
    <3>2. a.cost \in Nat /\ Allowance(a.attempt) \in Nat
      BY PassNumbers
    <3> QED
      BY <2>3, <2>4, <3>1, <3>2
  <2> QED
    BY <1>1, <2>2, <2>3, <2>5 DEF RoundOK
<1>2. CASE ~(a.attempt + 1 < AdmitAttempts)
  BY <1>2, RoundOver DEF Retry
<1> QED
  BY <1>1, <1>2

(* Another victim: below the cap before, at most at it after.              *)
LEMMA RoundEvicted ==
  ASSUME TypeOK, NEW p \in Procs, RoundOK(pc[p], adm[p]), pc[p] = "evict",
         NEW k \in adm[p].victims, NEW n \in {0, 1}, NEW to \in {"measure", "evict", "settle"}
  PROVE  RoundOK(to, Evicted(p, k, n))
<1> DEFINE a == adm[p]
           b == Evicted(p, k, n)
<1>1. /\ b.attempt = a.attempt /\ b.evicted = a.evicted + 1 /\ b.cost = a.cost + n
      /\ b.victims # {} => b.evicted < MaxEvictionsPerWrite
  BY PassNumbers DEF Evicted, Admission
<1>2. a.evicted < MaxEvictionsPerWrite /\ a.cost <= Allowance(a.attempt) + a.evicted
      /\ a.attempt < AdmitAttempts
  BY DEF RoundOK
<1> HIDE DEF b
<1>3. b.evicted <= MaxEvictionsPerWrite /\ b.cost <= Allowance(b.attempt) + b.evicted
  BY <1>1, <1>2, PassNumbers
<1> QED
  BY <1>1, <1>2, <1>3 DEF RoundOK, Passing, b

LEMMA RoundStep ==
  ASSUME TypeOK, NEW p \in Procs, RoundOK(pc[p], adm[p]), Request(p) \/ Advance(p)
  PROVE  RoundOK(pc'[p], adm'[p])
<1>1. CASE Request(p)
  <2>1. /\ adm' = adm
        /\ \/ pc'[p] = pc[p]
           \/ pc[p] = "idle" /\ pc'[p] \in Labels \ (Passing \union {"sample"})
    BY <1>1 DEF Request, Write, Start, Close, Refused, Begin, Goto, vars, locals, TypeOK, Labels, Passing
  <2> QED
    BY <2>1, RoundKept DEF Passing
<1>2. CASE \/ PutBlocked(p) \/ Schedule(p) \/ AdmitTooLarge(p) \/ AdmitCapped(p)
           \/ NoVictims(p) \/ NothingToTake(p) \/ SetTTLMissing(p) \/ Cleared(p)
  BY <1>2, RoundOver DEF PutBlocked, Schedule, AdmitTooLarge, AdmitCapped, NoVictims,
     NothingToTake, SetTTLMissing, Cleared
<1>3. CASE AdmitUnlimited(p) \/ AdmitRoom(p)
  BY <1>3, RoundRetried DEF AdmitUnlimited, AdmitRoom
<1>4. CASE PutLock(p) \/ Reserve(p) \/ ReserveRefused(p)
  <2>1. /\ pc[p] \notin Passing /\ pc'[p] \notin Passing /\ \E l : adm' = [adm EXCEPT ![p].limit = l]
    BY <1>4 DEF PutLock, Reserve, ReserveRefused, Goto, TypeOK, Passing
  <2>2. /\ adm'[p].attempt = adm[p].attempt /\ adm'[p].evicted = adm[p].evicted
        /\ adm'[p].cost = adm[p].cost /\ adm'[p].victims = adm[p].victims
    BY <2>1 DEF TypeOK, Admission
  <2> QED
    BY <2>1, <2>2, RoundKept DEF Passing
<1>5. CASE Store(p) \/ SetTTL(p) \/ ClearTracker(p) \/ ClearShard(p) \/ Take(p)
  <2>1. /\ pc[p] \notin Passing /\ pc'[p] # "sample" /\ adm' = adm
    BY <1>5 DEF Store, SetTTL, ClearTracker, ClearShard, Take, Remove, Goto, TypeOK, Passing
  <2> QED
    BY <2>1, RoundKept
<1>6. CASE AdmitLimit(p) \/ Measure(p)
  <2>1. /\ adm'[p].evicted = adm[p].evicted
        /\ pc'[p] \in {"measure", "credit"} /\ adm'[p].attempt = adm[p].attempt
        /\ adm'[p].cost = adm[p].cost /\ adm'[p].victims = adm[p].victims
    BY <1>6 DEF AdmitLimit, Measure, Goto, TypeOK, Admission
  <2> QED
    BY <2>1, RoundKept DEF Passing
<1>7. CASE AdmitShort(p)
  <2>1. /\ pc'[p] = "sample" /\ adm'[p].evicted = adm[p].evicted /\ adm'[p].attempt = adm[p].attempt
        /\ adm'[p].cost = adm[p].cost /\ adm'[p].victims = adm[p].victims
    BY <1>7 DEF AdmitShort, Goto, TypeOK, Admission
  <2>2. adm[p].evicted < MaxEvictionsPerWrite
    BY <1>7, PassNumbers DEF AdmitShort, Capped
  <2> QED
    BY <2>1, <2>2, RoundKept DEF Passing
<1>8. CASE SelectVictims(p)
  <2>1. /\ pc[p] = "sample" /\ pc'[p] = "evict" /\ adm'[p].evicted = adm[p].evicted
        /\ adm'[p].attempt = adm[p].attempt /\ adm'[p].cost = adm[p].cost
    BY <1>8 DEF SelectVictims, Goto, TypeOK, Admission
  <2> QED
    BY <2>1 DEF RoundOK, Passing
<1>9. CASE EvictMissing(p)
  <2>1. PICK k \in adm[p].victims :
          /\ adm' = [adm EXCEPT ![p] = Evicted(p, k, 0)]
          /\ Goto(p, IF Evicted(p, k, 0).victims = {} THEN "measure" ELSE "evict")
    BY <1>9 DEF EvictMissing
  <2>2. adm'[p] = Evicted(p, k, 0) /\ pc'[p] \in {"measure", "evict"} /\ pc[p] = "evict"
    BY <1>9, <2>1 DEF EvictMissing, Goto, TypeOK
  <2> QED
    BY <2>2, RoundEvicted
<1>10. CASE Evict(p)
  <2>1. PICK k \in adm[p].victims :
          adm' = [adm EXCEPT ![p] = Evicted(p, k, 1)] /\ pc' = [pc EXCEPT ![p] = "settle"]
    BY <1>10 DEF Evict, Remove, Goto
  <2>2. adm'[p] = Evicted(p, k, 1) /\ pc'[p] = "settle" /\ pc[p] = "evict"
    BY <1>10, <2>1 DEF Evict, TypeOK
  <2> QED
    BY <2>2, RoundEvicted
<1>11. CASE Settle(p)
  <2>1. CASE Return(p)
    BY <2>1, RoundOver
  <2>2. CASE adm' = adm /\ pc[p] = "settle" /\ pc'[p] \in {"measure", "evict"}
    BY <2>2, RoundKept DEF Passing
  <2> QED
    BY <1>11, <2>1, <2>2 DEF Settle, Goto, TypeOK
<1>12. CASE Read(p) \/ Reread(p)
  <2>1. CASE Return(p)
    BY <2>1, RoundOver
  <2>2. CASE adm' = adm /\ pc[p] \notin Passing /\ pc'[p] \in {"remove", "schedule"}
    BY <2>2, RoundKept
  <2> QED
    BY <1>12, <2>1, <2>2 DEF Read, Reread, Goto, TypeOK, Passing
<1> QED
  BY <1>1, <1>2, <1>3, <1>4, <1>5, <1>6, <1>7, <1>8, <1>9, <1>10, <1>11, <1>12 DEF Advance

LEMMA RoundsStep ==
  ASSUME IInv, Rounds, [Next]_vars
  PROVE  Rounds'
<1>0. TypeOK /\ LockInv
  BY DEF IInv
<1> SUFFICES ASSUME NEW p \in Procs
             PROVE  RoundOK(pc'[p], adm'[p])
  BY DEF Rounds
<1>1. RoundOK(pc[p], adm[p])
  BY DEF Rounds
<1>2. CASE pc'[p] = pc[p] /\ adm'[p] = adm[p]
  BY <1>1, <1>2
<1>3. ASSUME NEW q \in Procs \ {p}, Request(q) \/ Advance(q)
      PROVE  pc'[p] = pc[p] /\ adm'[p] = adm[p]
  BY <1>0, <1>3, Local
<1>4. CASE Environment \/ UNCHANGED vars
  BY <1>2, <1>4 DEF Environment, SetMaxMemory, SetPolicy, Lapse, LapseIncoming, locals, vars
<1>5. CASE Request(p) \/ Advance(p)
  BY <1>0, <1>1, <1>5, RoundStep
<1> QED
  BY <1>2, <1>3, <1>4, <1>5 DEF Next

(* No write evicts more than maxEvictionsPerWrite entries a pass, whatever *)
(* the other writers do to its room and its victims meanwhile (engine.go,  *)
(* admit and evict).                                                       *)
THEOREM EvictionsBounded == Spec => []EvictionBounded
<1>1. Init => Rounds
  <2>1. Allowance(0) = 0
    BY DEF Allowance
  <2> QED
    BY <2>1 DEF Init, Rounds, RoundOK, NoAdm
<1>2. IInv /\ Rounds /\ [Next]_vars => Rounds'
  BY RoundsStep
<1>3. IInv /\ Rounds => EvictionBounded
  BY RoundBounds DEF IInv
<1> QED
  BY Invariance, <1>1, <1>2, <1>3, PTL DEF Spec

=============================================================================
