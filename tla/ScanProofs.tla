----------------------------- MODULE ScanProofs -----------------------------
(***************************************************************************)
(* Proofs about Scan for every set of connections, cursors, keys and       *)
(* shards, and every cap.  The inductive invariant adds to the exactness   *)
(* of the registry that the cursor of the page in progress is open and its *)
(* owner's (PageOK), and where the keys of a scan are: given out, in the   *)
(* snapshot still to be read, or on a shard not yet walked (WalkOK).       *)
(***************************************************************************)
EXTENDS Scan, FiniteSetTheorems, WellFoundedInduction, TLAPS

PageOK ==
  Idle \/ (page.id \in Opened(reg) /\ page.owner = reg.cursor[page.id].owner)

WalkOK(i) ==
  /\ \A k \in reg.cursor[i].rest : ShardOf[k] = reg.cursor[i].shard
  /\ \A k \in got[i] : ShardOf[k] <= reg.cursor[i].shard /\ k \notin reg.cursor[i].rest
  /\ \A k \in due[i] :
       /\ k \in live
       /\ ShardOf[k] <= reg.cursor[i].shard => k \in got[i] \union reg.cursor[i].rest

WalksOK == \A i \in Opened(reg) : WalkOK(i)

IInv == TypeOK /\ RegistryExact /\ PageOK /\ WalksOK

USE ShardOfType, KeysFinite, VolatileType, OverheadFits, BoundsType

-----------------------------------------------------------------------------
(* What cursors are accounted at                                           *)

LEMMA CellsFinite ==
  ASSUME NEW f, NEW D \in SUBSET Ids
  PROVE  IsFiniteSet(D) /\ IsFiniteSet(Cells(f, D)) /\ Bytes(f, D) \in Nat
<1>1. IsFiniteSet(D) /\ IsFiniteSet(1..MaxBytes)
  BY FS_Subset, FS_Interval
<1>2. IsFiniteSet(D \X (1..MaxBytes)) /\ Cells(f, D) \in SUBSET (D \X (1..MaxBytes))
  BY <1>1, FS_Product DEF Cells
<1>3. IsFiniteSet(Cells(f, D))
  BY <1>2, FS_Subset
<1> QED
  BY <1>1, <1>3, FS_CardinalityType DEF Bytes

(* Only the sizes matter.                                                  *)
LEMMA BytesCongruent ==
  ASSUME NEW f, NEW g, NEW D, \A i \in D : f[i].size = g[i].size
  PROVE  Bytes(f, D) = Bytes(g, D)
BY DEF Bytes, Cells

(* Disjoint sets of cursors add up.                                        *)
LEMMA BytesUnion ==
  ASSUME NEW f, NEW C \in SUBSET Ids, NEW D \in SUBSET Ids, C \cap D = {}
  PROVE  Bytes(f, C \union D) = Bytes(f, C) + Bytes(f, D)
<1> DEFINE A == Cells(f, C)
           B == Cells(f, D)
<1>1. Cells(f, C \union D) = A \union B /\ A \cap B = {}
  BY DEF Cells
<1>2. IsFiniteSet(A) /\ IsFiniteSet(B)
  BY CellsFinite
<1>3. Cardinality(A) \in Nat /\ Cardinality(B) \in Nat
  BY <1>2, FS_CardinalityType
<1>4. Bytes(f, C) = Cardinality(A) /\ Bytes(f, D) = Cardinality(B)
  BY DEF Bytes
<1>5. Bytes(f, C \union D) = Cardinality(A \union B)
  BY <1>1 DEF Bytes
<1> HIDE DEF A, B
<1>6. Cardinality(A \union B) = Cardinality(A) + Cardinality(B) - Cardinality(A \cap B)
  BY <1>2, FS_Union
<1>7. Cardinality(A \cap B) = 0
  BY <1>1, FS_EmptySet
<1> QED
  BY <1>3, <1>4, <1>5, <1>6, <1>7

(* One cursor is accounted at its size.                                    *)
LEMMA BytesOne ==
  ASSUME NEW f, NEW i \in Ids, f[i].size \in 0..MaxBytes
  PROVE  Bytes(f, {i}) = f[i].size
<1> DEFINE n == f[i].size
           b == [x \in 1..n |-> <<i, x>>]
<1>1. Cells(f, {i}) = {<<i, x>> : x \in 1..n}
  <2>1. ASSUME NEW c \in Cells(f, {i}) PROVE c \in {<<i, x>> : x \in 1..n}
    BY DEF Cells
  <2>2. ASSUME NEW x \in 1..n PROVE <<i, x>> \in Cells(f, {i})
    BY DEF Cells
  <2> QED
    BY <2>1, <2>2
<1>2. b \in Bijection(1..n, Cells(f, {i}))
  BY <1>1 DEF Bijection, Injection, Surjection, IsInjective
<1>3. ExistsBijection(1..n, Cells(f, {i}))
  BY <1>2 DEF ExistsBijection
<1>4. n \in Nat
  OBVIOUS
<1> HIDE DEF n
<1>5. IsFiniteSet(1..n) /\ Cardinality(1..n) = n
  <2> 1 \in Int /\ n \in Int
    BY <1>4
  <2>1. IsFiniteSet(1..n) /\ Cardinality(1..n) = IF 1 > n THEN 0 ELSE n - 1 + 1
    BY FS_Interval
  <2> QED
    BY <1>4, <2>1
<1>6. Bytes(f, {i}) = n
  BY <1>3, <1>5, FS_Bijection DEF Bytes
<1> QED
  BY <1>6 DEF n

(* Some of the cursors are accounted at no more than all, and the others   *)
(* at the difference.                                                      *)
LEMMA BytesPart ==
  ASSUME NEW f, NEW C \in SUBSET Ids, NEW D \in SUBSET C
  PROVE  Bytes(f, D) <= Bytes(f, C) /\ Bytes(f, C \ D) = Bytes(f, C) - Bytes(f, D)
<1>1. Bytes(f, (C \ D) \union D) = Bytes(f, C \ D) + Bytes(f, D)
  BY BytesUnion
<1>2. (C \ D) \union D = C
  OBVIOUS
<1>3. Bytes(f, C \ D) \in Nat /\ Bytes(f, D) \in Nat /\ Bytes(f, C) \in Nat
  BY CellsFinite
<1> QED
  BY <1>1, <1>2, <1>3

-----------------------------------------------------------------------------
(* The registry: dropping, evicting, opening and moving on keep it exact.  *)

LEMMA CursorsFinite ==
  ASSUME NEW r, NEW D \in SUBSET Opened(r)
  PROVE  /\ D \subseteq Ids /\ IsFiniteSet(D) /\ Cardinality(D) \in Nat
         /\ Bytes(r.cursor, D) \in Nat
<1>1. D \in SUBSET Ids
  BY DEF Opened
<1> QED
  BY <1>1, CellsFinite, FS_CardinalityType

(* dropLocked.                                                             *)
LEMMA Dropping ==
  ASSUME NEW r \in Registry, Exact(r), NEW D \in SUBSET Opened(r)
  PROVE  /\ DropAll(r, D) \in Registry
         /\ Exact(DropAll(r, D))
         /\ Opened(DropAll(r, D)) = Opened(r) \ D
         /\ \A i \in Opened(r) \ D : DropAll(r, D).cursor[i] = r.cursor[i]
         /\ DropAll(r, D).bytes <= r.bytes
         /\ \A o \in Owners : DropAll(r, D).perConn[o] <= r.perConn[o]
<1> DEFINE s == DropAll(r, D)
<1>1. /\ s.cursor = [i \in Ids |-> IF i \in D THEN NoCursor ELSE r.cursor[i]]
      /\ s.order = {e \in r.order : e[1] \notin D /\ e[2] \notin D}
      /\ s.bytes = r.bytes - Bytes(r.cursor, D)
      /\ s.perConn = [o \in Owners |-> r.perConn[o] - Cardinality(Held(r, o) \cap D)]
  BY DEF DropAll
<1>2. /\ r.cursor \in [Ids -> Cursor] /\ r.order \in SUBSET (Ids \X Ids)
      /\ r.bytes \in Nat /\ r.perConn \in [Owners -> Nat]
  BY DEF Registry
<1>3. D \subseteq Ids
  BY DEF Opened
<1>4. s.cursor \in [Ids -> Cursor]
  BY <1>1, <1>2 DEF NoCursor, Cursor
<1>5. Opened(s) = Opened(r) \ D
  BY <1>1, <1>3 DEF Opened, NoCursor
<1>6. \A i \in Opened(s) : s.cursor[i] = r.cursor[i]
  BY <1>1, <1>5 DEF Opened
<1>7. /\ Bytes(r.cursor, D) \in Nat
      /\ Bytes(r.cursor, D) <= r.bytes
      /\ Bytes(r.cursor, Opened(r) \ D) = r.bytes - Bytes(r.cursor, D)
  <2>1. Opened(r) \in SUBSET Ids
    BY DEF Opened
  <2>2. r.bytes = Bytes(r.cursor, Opened(r))
    BY DEF Exact
  <2>3. Bytes(r.cursor, D) \in Nat
    BY <1>3, CellsFinite
  <2> QED
    BY <2>1, <2>2, <2>3, BytesPart
<1>8. s.bytes \in Nat /\ s.bytes <= r.bytes /\ s.bytes = Bytes(s.cursor, Opened(s))
  <2>1. Bytes(s.cursor, Opened(s)) = Bytes(r.cursor, Opened(s))
    BY <1>6, BytesCongruent
  <2> QED
    BY <1>1, <1>2, <1>5, <1>7, <2>1
<1>9. ASSUME NEW o \in Owners
      PROVE  /\ s.perConn[o] \in Nat /\ s.perConn[o] <= r.perConn[o]
             /\ s.perConn[o] = Cardinality(Held(s, o))
  <2> DEFINE H == Held(r, o)
  <2>1. H \in SUBSET Opened(r) /\ Held(s, o) = H \ D
    BY <1>5, <1>6 DEF Held
  <2>2. IsFiniteSet(H)
    BY <2>1, CursorsFinite
  <2>3. r.perConn[o] = Cardinality(H)
    BY DEF Exact
  <2>4. s.perConn[o] = r.perConn[o] - Cardinality(H \cap D)
    BY <1>1
  <2> HIDE DEF H
  <2>5. /\ Cardinality(H \ D) = Cardinality(H) - Cardinality(H \cap D)
        /\ IsFiniteSet(H \ D) /\ IsFiniteSet(H \cap D)
    BY <2>2, FS_Difference, FS_Intersection
  <2>6. Cardinality(H \ D) \in Nat /\ Cardinality(H \cap D) \in Nat
    BY <2>5, FS_CardinalityType
  <2> QED
    BY <1>2, <2>1, <2>3, <2>4, <2>5, <2>6
<1>10. Ordered(s)
  <2>1. ASSUME NEW e \in s.order PROVE e \in Opened(s) \X Opened(s)
    <3>1. e \in r.order /\ e[1] \notin D /\ e[2] \notin D
      BY <1>1
    <3>2. e \in Opened(r) \X Opened(r)
      BY <3>1 DEF Exact, Ordered
    <3> QED
      BY <1>5, <3>1, <3>2
  <2>2. \A i, j \in Opened(s) : <<i, j>> \in s.order <=> <<i, j>> \in r.order
    BY <1>1, <1>5
  <2>3. Opened(s) \subseteq Opened(r)
    BY <1>5
  <2> HIDE DEF s
  <2>4. \A i, j \in Opened(s) : <<i, j>> \in s.order <=> i # j /\ <<j, i>> \notin s.order
    BY <2>2, <2>3 DEF Exact, Ordered
  <2>5. \A i, j, k \in Opened(s) :
          <<i, j>> \in s.order /\ <<j, k>> \in s.order => <<i, k>> \in s.order
    BY <2>2, <2>3 DEF Exact, Ordered
  <2> QED
    BY <2>1, <2>4, <2>5 DEF Ordered
<1>11. s \in Registry
  BY <1>1, <1>2, <1>4, <1>8, <1>9 DEF DropAll, Registry
<1> QED
  BY <1>5, <1>6, <1>8, <1>9, <1>10, <1>11 DEF Exact

(* A non-empty set of numbers has a least one.                             *)
LEMMA Least ==
  ASSUME NEW T, T \subseteq Nat, T # {}
  PROVE  \E x \in T : \A y \in T : x <= y
<1> DEFINE R == {e \in Nat \X Nat : e[1] < e[2]}
<1>1. IsWellFoundedOn(R, Nat)
  BY NatLessThanWellFounded DEF OpToRel
<1> HIDE DEF R
<1>2. PICK x \in T : \A y \in T : ~ (<<y, x>> \in R)
  BY <1>1, WFMin
<1>3. ASSUME NEW y \in T PROVE x <= y
  <2>1. <<y, x>> \notin R
    BY <1>2
  <2>2. ~ (y < x)
    BY <2>1 DEF R
  <2> QED
    BY <2>2
<1> QED
  BY <1>3

(* makeRoomLocked: whoever is evicted is open and is not to be kept, and   *)
(* what is wanted fits afterwards if it can be made to fit at all.         *)
LEMMA Evictions ==
  ASSUME NEW r, NEW keep, NEW want
  PROVE  \E D \in SUBSET (Opened(r) \ keep) :
           /\ Evicting(r, keep, want) = DropAll(r, D)
           /\ RoomFor(r, keep, want) => DropAll(r, D).bytes + want <= MaxBytes
<1> DEFINE enough == {n \in Evictable(r, keep) : Fits(r, keep, want, n)}
           least == CHOOSE m \in enough : \A x \in enough : m <= x
           n == IF enough = {} THEN Cardinality(Opened(r) \ keep) ELSE least
           D == Oldest(r, keep, n)
<1>1. Evicting(r, keep, want) = DropAll(r, D)
  BY DEF Evicting
<1>2. D \in SUBSET (Opened(r) \ keep)
  BY DEF Oldest
<1>3. ASSUME RoomFor(r, keep, want) PROVE DropAll(r, D).bytes + want <= MaxBytes
  <2>1. enough # {} /\ enough \subseteq Nat
    BY <1>3 DEF RoomFor, Evictable
  <2>2. \E m \in enough : \A x \in enough : m <= x
    BY <2>1, Least
  <2>3. least \in enough
    BY <2>2
  <2>4. Fits(r, keep, want, n)
    BY <2>1, <2>3
  <2> QED
    BY <2>4 DEF Fits
<1> QED
  BY <1>1, <1>2, <1>3

(* What openLocked asks for fits once everyone else is gone.               *)
LEMMA RoomToOpen ==
  ASSUME NEW r \in Registry, Exact(r)
  PROVE  RoomFor(r, {}, Overhead)
<1> DEFINE n == Cardinality(Opened(r))
           D == Oldest(r, {}, n)
<1>1. IsFiniteSet(Opened(r)) /\ n \in Nat
  BY CursorsFinite
<1>2. ASSUME NEW i \in Opened(r) PROVE i \in D
  <2> DEFINE older == {j \in Opened(r) : <<j, i>> \in r.order}
  <2>1. older \in SUBSET Opened(r) /\ i \notin older
    BY DEF Exact, Ordered
  <2>2. Cardinality(older) <= n /\ (Cardinality(older) = n => older = Opened(r))
    BY <1>1, <2>1, FS_Subset
  <2>3. Cardinality(older) \in Nat
    BY <1>1, <2>1, FS_Subset, FS_CardinalityType
  <2>4. Cardinality(older) < n
    BY <1>1, <2>1, <2>2, <2>3
  <2> QED
    BY <2>4 DEF Oldest
<1>3. D = Opened(r)
  BY <1>2 DEF Oldest
<1>4. DropAll(r, D).bytes = r.bytes - Bytes(r.cursor, Opened(r))
  BY <1>3 DEF DropAll
<1>5. r.bytes = Bytes(r.cursor, Opened(r)) /\ r.bytes \in Nat
  BY DEF Exact, Registry
<1> HIDE DEF D
<1>6. DropAll(r, D).bytes + Overhead <= MaxBytes
  BY <1>4, <1>5
<1>7. n \in Evictable(r, {})
  BY <1>1 DEF Evictable
<1> QED
  BY <1>6, <1>7 DEF RoomFor, Fits, D

(* touchLocked and PushFront: the order of last use stays one.             *)
LEMMA Touching ==
  ASSUME NEW r, Ordered(r), NEW i, NEW s,
         Opened(s) = Opened(r) \union {i}, s.order = Foremost(r, i)
  PROVE  Ordered(s)
<1> DEFINE O == Opened(r)
<1>1. ASSUME NEW j \in Opened(s), NEW k \in Opened(s)
      PROVE  <<j, k>> \in s.order <=>
               j # i /\ (k = i \/ (k # i /\ <<j, k>> \in r.order))
  BY <1>1 DEF Foremost
<1>2. s.order \subseteq Opened(s) \X Opened(s)
  <2>1. ASSUME NEW e \in r.order PROVE e \in Opened(s) \X Opened(s)
    BY DEF Ordered
  <2>2. ASSUME NEW e \in (O \ {i}) \X {i} PROVE e \in Opened(s) \X Opened(s)
    OBVIOUS
  <2> QED
    BY <2>1, <2>2 DEF Foremost
<1>3. \A j, k \in Opened(s) : <<j, k>> \in s.order <=> j # k /\ <<k, j>> \notin s.order
  BY <1>1 DEF Ordered
<1>4. ASSUME NEW j \in Opened(s), NEW k \in Opened(s), NEW l \in Opened(s),
             <<j, k>> \in s.order, <<k, l>> \in s.order
      PROVE  <<j, l>> \in s.order
  <2>1. j # i /\ k # i /\ <<j, k>> \in r.order
    BY <1>1, <1>4
  <2>2. CASE l = i
    BY <1>1, <2>1, <2>2
  <2>3. CASE l # i
    <3>1. <<k, l>> \in r.order
      BY <1>1, <1>4, <2>3
    <3>2. <<j, l>> \in r.order
      BY <2>1, <2>3, <3>1 DEF Ordered
    <3> QED
      BY <1>1, <2>1, <2>3, <3>2
  <2> QED
    BY <2>2, <2>3
<1> QED
  BY <1>2, <1>3, <1>4 DEF Ordered

(* A cursor that reads on or moves on keeps its owner and its place, and   *)
(* the registry is charged the difference of its sizes.                    *)
LEMMA Moving ==
  ASSUME NEW r \in Registry, Exact(r), NEW i \in Opened(r), NEW s,
         s.cursor \in [Ids -> Cursor], s.cursor[i].owner = r.cursor[i].owner,
         \A j \in Ids \ {i} : s.cursor[j] = r.cursor[j],
         s.order = r.order, s.perConn = r.perConn,
         s.bytes = (r.bytes - r.cursor[i].size) + s.cursor[i].size
  PROVE  /\ s.bytes \in Nat /\ Exact(s) /\ Opened(s) = Opened(r)
         /\ r.cursor[i].size <= r.bytes
<1>1. /\ r.cursor \in [Ids -> Cursor] /\ r.bytes \in Nat /\ i \in Ids
      /\ r.cursor[i] \in Cursor
  BY DEF Registry, Opened
<1> DEFINE c == s.cursor[i]
<1>2. c \in Cursor
  BY <1>1
<1>3. \A j \in Ids \ {i} : s.cursor[j] = r.cursor[j]
  OBVIOUS
<1>4. \A j \in Ids : s.cursor[j].owner = r.cursor[j].owner
  BY <1>2, <1>3
<1>5. Opened(s) = Opened(r) /\ \A o \in Owners : Held(s, o) = Held(r, o)
  BY <1>4 DEF Opened, Held
<1>6. Ordered(s)
  BY <1>5 DEF Exact, Ordered
<1> DEFINE C == Opened(r) \ {i}
<1>7. /\ Bytes(r.cursor, Opened(r)) = Bytes(r.cursor, C) + r.cursor[i].size
      /\ Bytes(s.cursor, Opened(r)) = Bytes(s.cursor, C) + c.size
      /\ Bytes(s.cursor, C) = Bytes(r.cursor, C)
      /\ Bytes(r.cursor, C) \in Nat
  <2>1. C \in SUBSET Ids /\ {i} \in SUBSET Ids /\ C \cap {i} = {} /\ C \union {i} = Opened(r)
    BY DEF Opened
  <2>2. r.cursor[i].size \in 0..MaxBytes /\ s.cursor[i].size \in 0..MaxBytes
    BY <1>1, <1>2 DEF Cursor
  <2>3. Bytes(r.cursor, {i}) = r.cursor[i].size /\ Bytes(s.cursor, {i}) = c.size
    BY <1>1, <1>2, <2>2, BytesOne
  <2>4. Bytes(s.cursor, C) = Bytes(r.cursor, C)
    <3>1. \A j \in C : s.cursor[j].size = r.cursor[j].size
      BY <1>3, <2>1
    <3> QED
      BY ONLY <3>1, BytesCongruent
  <2> HIDE DEF C
  <2>5. /\ Bytes(r.cursor, C \union {i}) = Bytes(r.cursor, C) + Bytes(r.cursor, {i})
        /\ Bytes(s.cursor, C \union {i}) = Bytes(s.cursor, C) + Bytes(s.cursor, {i})
    BY <2>1, BytesUnion
  <2>6. Bytes(r.cursor, C) \in Nat
    BY <2>1, CellsFinite
  <2> QED
    BY <2>1, <2>3, <2>4, <2>5, <2>6
<1>8. r.cursor[i].size \in Nat /\ c.size \in Nat
  BY <1>1 DEF Cursor
<1>9. r.bytes = Bytes(r.cursor, Opened(r))
  BY DEF Exact
<1> HIDE DEF C
<1>10. /\ s.bytes = Bytes(s.cursor, Opened(s)) /\ s.bytes \in Nat
       /\ r.cursor[i].size <= r.bytes
  BY <1>5, <1>7, <1>8, <1>9
<1> QED
  BY <1>5, <1>6, <1>10 DEF Exact

(* openLocked: the cursor that joins is the latest used, its owner's and   *)
(* accounted at its size.                                                  *)
LEMMA Joining ==
  ASSUME NEW r \in Registry, Exact(r), NEW i \in Ids \ Opened(r), NEW o \in Owners,
         NEW s, s.cursor \in [Ids -> Cursor], s.cursor[i].owner = {o},
         \A j \in Ids \ {i} : s.cursor[j] = r.cursor[j],
         s.order = Foremost(r, i), s.bytes = r.bytes + s.cursor[i].size,
         s.perConn[o] = r.perConn[o] + 1,
         \A q \in Owners \ {o} : s.perConn[q] = r.perConn[q]
  PROVE  /\ s.order \in SUBSET (Ids \X Ids) /\ s.bytes \in Nat
         /\ \A q \in Owners : s.perConn[q] \in Nat
         /\ Exact(s) /\ Opened(s) = Opened(r) \union {i}
<1>1. /\ r.cursor \in [Ids -> Cursor] /\ r.bytes \in Nat /\ r.perConn \in [Owners -> Nat]
  BY DEF Registry
<1> DEFINE c == s.cursor[i]
<1>2. c \in Cursor /\ c.owner = {o}
  OBVIOUS
<1>3. \A j \in Ids \ {i} : s.cursor[j] = r.cursor[j]
  OBVIOUS
<1>4. Opened(s) = Opened(r) \union {i}
  BY <1>2, <1>3 DEF Opened
<1>5. Ordered(s)
  BY <1>4, Touching DEF Exact
<1>6. s.order \in SUBSET (Ids \X Ids)
  BY <1>5 DEF Ordered, Opened
<1>7. s.bytes = Bytes(s.cursor, Opened(s)) /\ s.bytes \in Nat
  <2>1. Opened(r) \in SUBSET Ids /\ {i} \in SUBSET Ids /\ Opened(r) \cap {i} = {}
    BY DEF Opened
  <2>2. Bytes(s.cursor, Opened(r) \union {i}) = Bytes(s.cursor, Opened(r)) + Bytes(s.cursor, {i})
    BY <2>1, BytesUnion
  <2>3. Bytes(s.cursor, Opened(r)) = Bytes(r.cursor, Opened(r))
    <3>1. \A j \in Opened(r) : s.cursor[j].size = r.cursor[j].size
      BY <1>3, <2>1
    <3> QED
      BY ONLY <3>1, BytesCongruent
  <2>4. c.size \in 0..MaxBytes
    BY DEF Cursor
  <2>5. Bytes(s.cursor, {i}) = c.size
    BY <1>2, <2>4, BytesOne
  <2>6. r.bytes = Bytes(r.cursor, Opened(r))
    BY DEF Exact
  <2> QED
    BY <1>1, <1>4, <2>2, <2>3, <2>4, <2>5, <2>6
<1>8. ASSUME NEW q \in Owners
      PROVE  s.perConn[q] = Cardinality(Held(s, q)) /\ s.perConn[q] \in Nat
  <2>1. r.perConn[q] = Cardinality(Held(r, q))
    BY DEF Exact
  <2>2. CASE q # o
    <3>1. Held(s, q) = Held(r, q)
      BY <1>2, <1>3, <1>4, <2>2 DEF Held, Opened
    <3> QED
      BY <1>1, <2>1, <2>2, <3>1
  <2>3. CASE q = o
    <3>1. Held(s, q) = Held(r, q) \union {i} /\ i \notin Held(r, q)
      BY <1>2, <1>3, <1>4, <2>3 DEF Held, Opened
    <3>2. IsFiniteSet(Held(r, q))
      BY CursorsFinite DEF Held
    <3>3. Cardinality(Held(r, q) \union {i}) = Cardinality(Held(r, q)) + 1
      BY <3>1, <3>2, FS_AddElement
    <3> QED
      BY <1>1, <2>1, <2>3, <3>1, <3>3
  <2> QED
    BY <2>2, <2>3
<1> QED
  BY <1>4, <1>5, <1>6, <1>7, <1>8 DEF Exact

-----------------------------------------------------------------------------
(* The steps                                                               *)

(* A cursor nobody touched, of a keyspace nobody changed, walks on.        *)
LEMMA Untouched ==
  ASSUME NEW i \in Ids, WalkOK(i), reg'.cursor[i] = reg.cursor[i],
         got'[i] = got[i], due'[i] = due[i], live' = live
  PROVE  WalkOK(i)'
BY DEF WalkOK

(* Whatever drops cursors and leaves the page in progress alone.           *)
LEMMA DropKeeps ==
  ASSUME IInv, NEW D \in SUBSET Opened(reg), reg' = DropAll(reg, D),
         UNCHANGED <<live, history>>
  PROVE  /\ reg' \in Registry /\ RegistryExact' /\ WalksOK'
         /\ Opened(reg') = Opened(reg) \ D
         /\ \A i \in Opened(reg) \ D : reg'.cursor[i] = reg.cursor[i]
<1>1. reg \in Registry /\ Exact(reg)
  BY DEF IInv, TypeOK, RegistryExact
<1>2. /\ reg' \in Registry /\ Exact(reg') /\ Opened(reg') = Opened(reg) \ D
      /\ \A i \in Opened(reg) \ D : reg'.cursor[i] = reg.cursor[i]
      /\ reg'.bytes <= reg.bytes
      /\ \A o \in Owners : reg'.perConn[o] <= reg.perConn[o]
  BY <1>1, Dropping
<1>3. RegistryExact'
  <2>1. reg.bytes \in Nat /\ reg'.bytes \in Nat
    BY <1>1, <1>2 DEF Registry
  <2>2. \A o \in Owners : reg.perConn[o] \in Nat /\ reg'.perConn[o] \in Nat
    BY <1>1, <1>2 DEF Registry
  <2>3. reg'.bytes <= MaxBytes
    BY <1>2, <2>1 DEF IInv, RegistryExact
  <2>4. \A o \in Owners : reg'.perConn[o] <= MaxPerOwner
    BY <1>2, <2>2 DEF IInv, RegistryExact
  <2> QED
    BY <1>2, <2>3, <2>4 DEF RegistryExact
<1>4. WalksOK'
  <2>1. ASSUME NEW i \in Opened(reg') PROVE WalkOK(i)'
    <3>1. i \in Opened(reg) \ D /\ i \in Ids
      BY <1>2 DEF Opened
    <3>2. WalkOK(i)
      BY <3>1 DEF IInv, WalksOK
    <3> QED
      BY <1>2, <3>1, <3>2, Untouched DEF history
  <2> QED
    BY <2>1 DEF WalksOK
<1> QED
  BY <1>2, <1>3, <1>4

LEMMA SweepDrops ==
  ASSUME NEW r, NEW n
  PROVE  \E D \in SUBSET Opened(r) : Swept(r, n) = DropAll(r, D)
<1>1. Oldest(r, {}, n) \in SUBSET Opened(r)
  BY DEF Oldest
<1> QED
  BY <1>1 DEF Swept

(* An answer without a page: the connection's limit, or no such cursor.    *)
LEMMA RefuseStep ==
  ASSUME IInv, NEW o \in Owners, TooMany(o) \/ Unknown(o)
  PROVE  IInv'
<1>1. PICK n : Refuse(o, Swept(reg, n))
  BY DEF TooMany, Unknown
<1>2. /\ Idle /\ UNCHANGED <<live, page, engine, history>>
      /\ asked' = [asked EXCEPT ![o] = Nothing]
      /\ reg' = Swept(reg, n)
  BY <1>1 DEF TooMany, Unknown, Turn, Refuse, Answer
<1>3. PICK D \in SUBSET Opened(reg) : reg' = DropAll(reg, D)
  BY <1>2, SweepDrops
<1>4. reg' \in Registry /\ RegistryExact' /\ WalksOK'
  BY <1>2, <1>3, DropKeeps
<1>5. TypeOK'
  BY <1>2, <1>4 DEF IInv, TypeOK, Nothing, history
<1>6. PageOK'
  BY <1>2 DEF PageOK, Idle
<1> QED
  BY <1>4, <1>5, <1>6 DEF IInv

LEMMA OpenStep ==
  ASSUME IInv, NEW o \in Owners, Open(o)
  PROVE  IInv'
<1> DEFINE c == [owner |-> {o}, shard |-> 0, size |-> Overhead, rest |-> {}]
<1>1. PICK n \in Evictable(reg, {}), i \in Ids :
        LET r == Swept(reg, n)
            room == Evicting(r, {}, Overhead)
        IN  /\ i \notin Opened(reg)
            /\ r.perConn[o] < MaxPerOwner
            /\ reg' = [cursor  |-> [room.cursor EXCEPT ![i] = c],
                       order   |-> Foremost(room, i),
                       bytes   |-> room.bytes + Overhead,
                       perConn |-> [room.perConn EXCEPT ![o] = @ + 1]]
            /\ page' = [owner |-> {o}, id |-> i, count |-> asked[o].count]
            /\ due' = [due EXCEPT ![i] = live]
            /\ got' = [got EXCEPT ![i] = {}]
  BY DEF Open
<1>2. UNCHANGED <<live, engine>> /\ asked' = [asked EXCEPT ![o] = Nothing]
  BY DEF Open, Answer
<1> DEFINE r == Swept(reg, n)
           room == Evicting(r, {}, Overhead)
<1>3. PICK D \in SUBSET Opened(reg) : r = DropAll(reg, D)
  BY SweepDrops
<1>4. /\ r \in Registry /\ Exact(r) /\ Opened(r) = Opened(reg) \ D
      /\ \A j \in Opened(r) : r.cursor[j] = reg.cursor[j]
      /\ \A q \in Owners : r.perConn[q] <= reg.perConn[q]
  BY <1>3, Dropping DEF IInv, TypeOK, RegistryExact
<1>5. PICK E \in SUBSET Opened(r) :
        room = DropAll(r, E) /\ (RoomFor(r, {}, Overhead) => room.bytes + Overhead <= MaxBytes)
  <2>1. \E E \in SUBSET (Opened(r) \ {}) :
          room = DropAll(r, E) /\ (RoomFor(r, {}, Overhead) => room.bytes + Overhead <= MaxBytes)
    BY Evictions
  <2> QED
    BY <2>1
<1>6. room.bytes + Overhead <= MaxBytes
  BY <1>4, <1>5, RoomToOpen
<1> HIDE DEF r
<1>7. /\ room \in Registry /\ Exact(room) /\ Opened(room) = Opened(r) \ E
      /\ \A j \in Opened(room) : room.cursor[j] = r.cursor[j]
      /\ \A q \in Owners : room.perConn[q] <= r.perConn[q]
  BY <1>4, <1>5, Dropping
<1>8. /\ reg'.cursor = [room.cursor EXCEPT ![i] = c]
      /\ reg'.order = Foremost(room, i)
      /\ reg'.bytes = room.bytes + c.size
      /\ reg'.perConn = [room.perConn EXCEPT ![o] = @ + 1]
      /\ reg' = [cursor |-> reg'.cursor, order |-> reg'.order,
                 bytes |-> reg'.bytes, perConn |-> reg'.perConn]
      /\ i \notin Opened(reg) /\ r.perConn[o] < MaxPerOwner
  BY <1>1 DEF r
<1> HIDE DEF room
<1>9. c \in Cursor /\ c.owner = {o} /\ i \in Ids \ Opened(room)
  BY <1>4, <1>7, <1>8 DEF Cursor
<1> HIDE DEF c
<1>10. /\ reg'.cursor \in [Ids -> Cursor] /\ reg'.order \in SUBSET (Ids \X Ids)
       /\ reg'.bytes \in Nat /\ reg'.perConn \in [Owners -> Nat]
       /\ Exact(reg') /\ Opened(reg') = Opened(room) \union {i}
  <2>1. room.cursor \in [Ids -> Cursor] /\ room.perConn \in [Owners -> Nat]
    BY <1>7 DEF Registry
  <2>2. /\ reg'.cursor \in [Ids -> Cursor] /\ reg'.cursor[i] = c
        /\ \A j \in Ids \ {i} : reg'.cursor[j] = room.cursor[j]
        /\ reg'.bytes = room.bytes + reg'.cursor[i].size
        /\ reg'.cursor[i].owner = {o}
    BY <1>8, <1>9, <2>1
  <2>3. /\ reg'.perConn[o] = room.perConn[o] + 1
        /\ \A q \in Owners \ {o} : reg'.perConn[q] = room.perConn[q]
        /\ reg'.perConn \in [Owners -> Nat]
    BY <1>8, <2>1
  <2>4. reg'.order = Foremost(room, i)
    BY <1>8
  <2> QED
    BY <1>7, <1>9, <2>2, <2>3, <2>4, Joining
<1>11. reg' \in Registry
  BY <1>8, <1>10 DEF Registry
<1>12. RegistryExact'
  <2>1. reg'.bytes <= MaxBytes
    BY <1>6, <1>8 DEF c
  <2>2. ASSUME NEW q \in Owners PROVE reg'.perConn[q] <= MaxPerOwner
    <3>1. /\ reg.perConn[q] \in Nat /\ r.perConn[q] \in Nat /\ room.perConn[q] \in Nat
          /\ room.perConn \in [Owners -> Nat]
      BY <1>4, <1>7 DEF IInv, TypeOK, Registry
    <3>2. room.perConn[q] <= r.perConn[q] /\ r.perConn[q] <= reg.perConn[q]
      BY <1>4, <1>7
    <3>3. reg.perConn[q] <= MaxPerOwner
      BY DEF IInv, RegistryExact
    <3>4. CASE q = o
      BY <1>8, <3>1, <3>2, <3>4
    <3>5. CASE q # o
      BY <1>8, <3>1, <3>2, <3>3, <3>5
    <3> QED
      BY <3>4, <3>5
  <2> QED
    BY <1>10, <2>1, <2>2 DEF RegistryExact
<1>13. WalksOK'
  <2>1. due \in [Ids -> SUBSET Keys] /\ got \in [Ids -> SUBSET Keys] /\ live \subseteq Keys
    BY DEF IInv, TypeOK
  <2>2. room.cursor \in [Ids -> Cursor]
    BY <1>7 DEF Registry
  <2>3. WalkOK(i)'
    <3>1. reg'.cursor[i] = c /\ got'[i] = {} /\ due'[i] = live /\ live' = live
      BY <1>1, <1>2, <1>8, <2>1, <2>2
    <3>2. \A k \in Keys : ShardOf[k] \in Nat /\ ~(ShardOf[k] <= 0)
      OBVIOUS
    <3> QED
      BY <2>1, <3>1, <3>2 DEF WalkOK, c
  <2>4. ASSUME NEW j \in Opened(reg'), j # i PROVE WalkOK(j)'
    <3>1. j \in Opened(room) /\ j \in Opened(r) /\ j \in Opened(reg) /\ j \in Ids
      BY <1>4, <1>7, <1>10, <2>4 DEF Opened
    <3>2. reg'.cursor[j] = reg.cursor[j]
      BY <1>4, <1>7, <1>8, <2>2, <2>4, <3>1
    <3>3. got'[j] = got[j] /\ due'[j] = due[j]
      BY <1>1, <2>1, <2>4, <3>1
    <3>4. WalkOK(j)
      BY <3>1 DEF IInv, WalksOK
    <3> QED
      BY <1>2, <3>1, <3>2, <3>3, <3>4, Untouched
  <2> QED
    BY <2>3, <2>4 DEF WalksOK
<1>14. PageOK'
  <2>1. reg'.cursor[i] = c
    BY <1>7, <1>8 DEF Registry
  <2> QED
    BY <1>1, <1>10, <2>1 DEF PageOK, c
<1>15. TypeOK'
  <2>1. asked \in [Owners -> [id: Ids \union {Start}, count: Nat]]
    BY DEF IInv, TypeOK
  <2>2. page' \in [owner: {{}} \union {{q} : q \in Owners}, id: Ids \union {Start}, count: Nat]
    BY <1>1, <2>1
  <2>3. asked' \in [Owners -> [id: Ids \union {Start}, count: Nat]]
    BY <1>2, <2>1 DEF Nothing
  <2>4. due' \in [Ids -> SUBSET Keys] /\ got' \in [Ids -> SUBSET Keys]
    BY <1>1 DEF IInv, TypeOK
  <2> QED
    BY <1>2, <1>11, <2>2, <2>3, <2>4 DEF IInv, TypeOK
<1> QED
  BY <1>12, <1>13, <1>14, <1>15 DEF IInv

LEMMA ResumeStep ==
  ASSUME IInv, NEW o \in Owners, Resume(o)
  PROVE  IInv'
<1> DEFINE i == asked[o].id
<1>1. PICK n \in Evictable(reg, {}) :
        LET r == Swept(reg, n)
        IN  Known(o, i, r) /\ reg' = [r EXCEPT !.order = Foremost(r, i)]
  BY DEF Resume
<1>2. /\ page' = [owner |-> {o}, id |-> i, count |-> asked[o].count]
      /\ asked' = [asked EXCEPT ![o] = Nothing]
      /\ UNCHANGED <<live, engine, history>>
  BY DEF Resume, Answer
<1> DEFINE r == Swept(reg, n)
<1>3. PICK D \in SUBSET Opened(reg) : r = DropAll(reg, D)
  BY SweepDrops
<1>4. /\ r \in Registry /\ Exact(r) /\ Opened(r) = Opened(reg) \ D
      /\ \A j \in Opened(r) : r.cursor[j] = reg.cursor[j]
      /\ r.bytes <= reg.bytes
      /\ \A q \in Owners : r.perConn[q] <= reg.perConn[q]
  BY <1>3, Dropping DEF IInv, TypeOK, RegistryExact
<1>5. i \in Opened(r) /\ i \in Ids /\ r.cursor[i].owner = {o}
  BY <1>1 DEF Known, Held, Opened
<1>6. reg' = [r EXCEPT !.order = Foremost(r, i)]
  BY <1>1
<1> HIDE DEF r
<1>7. /\ reg'.cursor = r.cursor /\ reg'.bytes = r.bytes /\ reg'.perConn = r.perConn
      /\ reg'.order = Foremost(r, i)
  BY <1>4, <1>6 DEF Registry
<1>8. Opened(reg') = Opened(r) /\ \A q \in Owners : Held(reg', q) = Held(r, q)
  BY <1>7 DEF Opened, Held
<1>9. Exact(reg')
  <2>1. Ordered(reg')
    BY <1>4, <1>5, <1>7, <1>8, Touching DEF Exact
  <2> QED
    BY <1>4, <1>7, <1>8, <2>1 DEF Exact
<1>10. reg' \in Registry
  <2>1. reg'.order \in SUBSET (Ids \X Ids)
    BY <1>9 DEF Exact, Ordered, Opened
  <2> QED
    BY <1>4, <1>6, <1>7, <2>1 DEF Registry
<1>11. RegistryExact'
  <2>1. reg.bytes \in Nat /\ r.bytes \in Nat
    BY <1>4 DEF IInv, TypeOK, Registry
  <2>2. \A q \in Owners : reg.perConn[q] \in Nat /\ r.perConn[q] \in Nat
    BY <1>4 DEF IInv, TypeOK, Registry
  <2>3. reg'.bytes <= MaxBytes
    BY <1>4, <1>7, <2>1 DEF IInv, RegistryExact
  <2>4. \A q \in Owners : reg'.perConn[q] <= MaxPerOwner
    BY <1>4, <1>7, <2>2 DEF IInv, RegistryExact
  <2> QED
    BY <1>9, <2>3, <2>4 DEF RegistryExact
<1>12. WalksOK'
  <2>1. ASSUME NEW j \in Opened(reg') PROVE WalkOK(j)'
    <3>1. j \in Opened(reg) /\ j \in Ids /\ reg'.cursor[j] = reg.cursor[j]
      BY <1>4, <1>7, <1>8 DEF Opened
    <3>2. WalkOK(j)
      BY <3>1 DEF IInv, WalksOK
    <3> QED
      BY <1>2, <3>1, <3>2, Untouched DEF history
  <2> QED
    BY <2>1 DEF WalksOK
<1>13. PageOK'
  BY <1>2, <1>5, <1>7, <1>8 DEF PageOK
<1>14. TypeOK'
  BY <1>2, <1>5, <1>10 DEF IInv, TypeOK, Nothing, history
<1> QED
  BY <1>11, <1>12, <1>13, <1>14 DEF IInv

(* The page in progress, and its cursor.                                   *)
LEMMA AtWork ==
  ASSUME IInv, ~Idle
  PROVE  /\ page.id \in Opened(reg) /\ page.id \in Ids
         /\ page.owner = Current.owner /\ Current \in Cursor
         /\ WalkOK(page.id) /\ reg \in Registry /\ Exact(reg)
         /\ reg.cursor \in [Ids -> Cursor] /\ reg.bytes \in Nat
<1>1. page.id \in Opened(reg) /\ page.owner = Current.owner
  BY DEF IInv, PageOK, Current
<1>2. page.id \in Ids
  BY <1>1 DEF Opened
<1>3. reg \in Registry /\ Exact(reg) /\ reg.cursor \in [Ids -> Cursor] /\ reg.bytes \in Nat
  BY DEF IInv, TypeOK, Registry, RegistryExact
<1> QED
  BY <1>1, <1>2, <1>3 DEF Current, IInv, WalksOK

(* A registry in which only the cursor of the page has changed.            *)
LEMMA OneMoves ==
  ASSUME IInv, NEW i \in Opened(reg), NEW c \in Cursor,
         reg' \in Registry, WalkOK(i)', Opened(reg') \subseteq Opened(reg),
         live' = live, due' = due, \A j \in Ids \ {i} : got'[j] = got[j],
         \A j \in Opened(reg') \ {i} : reg'.cursor[j] = reg.cursor[j]
  PROVE  WalksOK'
<1>1. ASSUME NEW j \in Opened(reg'), j # i PROVE WalkOK(j)'
  <2>1. j \in Opened(reg) /\ j \in Ids
    BY DEF Opened
  <2>2. WalkOK(j)
    BY <2>1 DEF IInv, WalksOK
  <2> QED
    BY <1>1, <2>1, <2>2, Untouched
<1> QED
  BY <1>1 DEF WalksOK

LEMMA BatchStep ==
  ASSUME IInv, Batch
  PROVE  IInv'
<1>0. PICK i \in Ids : i = page.id
  BY AtWork DEF Batch
<1> DEFINE c == Current
           n == IF page.count < Cardinality(c.rest) THEN page.count ELSE Cardinality(c.rest)
<1>1. PICK B \in kSubset(n, c.rest) :
        /\ reg' = [reg EXCEPT !.cursor[page.id].rest = @ \ B]
        /\ got' = IF page.owner = c.owner
                  THEN [got EXCEPT ![page.id] = @ \union (B \cap live)]
                  ELSE got
  BY DEF Batch
<1>2. /\ ~Idle /\ page' = [page EXCEPT !.count = @ - n]
      /\ UNCHANGED <<live, engine, asked, due>>
  BY DEF Batch
<1>3. /\ i \in Opened(reg) /\ i \in Ids /\ page.owner = c.owner /\ c \in Cursor
      /\ WalkOK(i) /\ reg \in Registry /\ Exact(reg)
      /\ reg.cursor \in [Ids -> Cursor] /\ reg.bytes \in Nat
  BY <1>0, <1>2, AtWork
<1>4. B \subseteq c.rest /\ c = reg.cursor[i] /\ c.rest \subseteq Keys
  BY <1>0, <1>1, <1>3 DEF kSubset, Current, Cursor
<1> DEFINE d == [c EXCEPT !.rest = @ \ B]
<1>5. d \in Cursor /\ d.owner = c.owner /\ d.size = c.size /\ d.shard = c.shard /\ d.rest = c.rest \ B
  BY <1>3 DEF Cursor
<1>6. reg' = [reg EXCEPT !.cursor = [reg.cursor EXCEPT ![i] = d]]
  BY <1>0, <1>1, <1>3, <1>4
<1>7. got'[i] = got[i] \union (B \cap live) /\ \A j \in Ids \ {i} : got'[j] = got[j]
  BY <1>0, <1>1, <1>3 DEF IInv, TypeOK
<1> HIDE DEF d, c
<1>8. /\ reg'.cursor \in [Ids -> Cursor] /\ reg'.cursor[i] = d
      /\ \A j \in Ids \ {i} : reg'.cursor[j] = reg.cursor[j]
      /\ reg'.order = reg.order /\ reg'.perConn = reg.perConn /\ reg'.bytes = reg.bytes
      /\ reg' \in Registry
  BY <1>3, <1>5, <1>6 DEF Registry
<1>9. Exact(reg') /\ Opened(reg') = Opened(reg)
  <2>1. reg'.bytes = (reg.bytes - reg.cursor[i].size) + reg'.cursor[i].size
    <3>1. c.size \in Nat
      BY <1>3 DEF Cursor
    <3> QED
      BY <1>3, <1>4, <1>5, <1>8, <3>1
  <2>2. reg'.cursor[i].owner = reg.cursor[i].owner
    BY <1>4, <1>5, <1>8
  <2> QED
    BY <1>3, <1>8, <2>1, <2>2, Moving
<1>10. RegistryExact'
  BY <1>8, <1>9 DEF IInv, RegistryExact
<1>11. WalkOK(i)'
  <2>1. /\ \A k \in c.rest : ShardOf[k] = c.shard
        /\ \A k \in got[i] : ShardOf[k] <= c.shard /\ k \notin c.rest
        /\ \A k \in due[i] : k \in live /\ (ShardOf[k] <= c.shard => k \in got[i] \union c.rest)
    BY <1>3, <1>4 DEF WalkOK
  <2>2. c.shard \in Nat
    BY <1>3 DEF Cursor
  <2>3. \A k \in got'[i] : ShardOf[k] <= d.shard /\ k \notin d.rest
    BY <1>4, <1>5, <1>7, <2>1, <2>2
  <2>4. \A k \in d.rest : ShardOf[k] = d.shard
    BY <1>5, <2>1
  <2>5. \A k \in due'[i] :
          k \in live' /\ (ShardOf[k] <= d.shard => k \in got'[i] \union d.rest)
    BY <1>2, <1>4, <1>5, <1>7, <2>1
  <2> QED
    BY <1>8, <2>3, <2>4, <2>5 DEF WalkOK
<1>12. WalksOK'
  BY <1>2, <1>3, <1>5, <1>7, <1>8, <1>9, <1>11, OneMoves DEF Opened
<1>13. page'.id = i /\ page'.owner = page.owner
  BY <1>0, <1>2 DEF IInv, TypeOK
<1>14. PageOK'
  BY <1>3, <1>4, <1>5, <1>8, <1>9, <1>13 DEF PageOK
<1>15. TypeOK'
  <2>1. n \in Nat /\ n <= page.count /\ page.count \in Nat
    <3>1. IsFiniteSet(c.rest)
      BY <1>4, FS_Subset
    <3>2. Cardinality(c.rest) \in Nat
      BY <3>1, FS_CardinalityType
    <3>3. page.count \in Nat
      BY DEF IInv, TypeOK
    <3> QED
      BY <3>2, <3>3
  <2> HIDE DEF n
  <2>2. page' \in [owner: {{}} \union {{o} : o \in Owners}, id: Ids \union {Start}, count: Nat]
    BY <1>2, <2>1 DEF IInv, TypeOK
  <2>3. got' \in [Ids -> SUBSET Keys]
    BY <1>1, <1>3, <1>4 DEF IInv, TypeOK
  <2> QED
    BY <1>2, <1>8, <2>2, <2>3 DEF IInv, TypeOK
<1> QED
  BY <1>10, <1>12, <1>14, <1>15 DEF IInv

(* The registry once the old snapshot is given back.                       *)
LEMMA Releasing ==
  ASSUME IInv, ~Idle
  PROVE  /\ Released \in Registry /\ Exact(Released) /\ Opened(Released) = Opened(reg)
         /\ \A j \in Ids \ {page.id} : Released.cursor[j] = reg.cursor[j]
         /\ Released.cursor[page.id] = [Current EXCEPT !.size = 0, !.rest = {}]
         /\ Released.bytes <= reg.bytes /\ Released.perConn = reg.perConn
<1> DEFINE i == page.id
           c == Current
           d == [c EXCEPT !.size = 0, !.rest = {}]
           s == Released
<1>1. /\ i \in Opened(reg) /\ i \in Ids /\ c \in Cursor /\ c = reg.cursor[i]
      /\ reg \in Registry /\ Exact(reg)
      /\ reg.cursor \in [Ids -> Cursor] /\ reg.bytes \in Nat
  BY AtWork DEF Current
<1>2. d \in Cursor /\ d.owner = c.owner /\ d.size = 0
  <2>1. c \in Cursor /\ 0 \in 0..MaxBytes
    BY <1>1
  <2> HIDE DEF c
  <2> QED
    BY <2>1 DEF Cursor
<1>3. s = [reg EXCEPT !.cursor = [reg.cursor EXCEPT ![i] = d], !.bytes = reg.bytes - c.size]
  BY <1>1 DEF Released
<1> HIDE DEF d, c, s
<1>4. /\ s.cursor \in [Ids -> Cursor] /\ s.cursor[i] = d
      /\ \A j \in Ids \ {i} : s.cursor[j] = reg.cursor[j]
      /\ s.order = reg.order /\ s.perConn = reg.perConn
      /\ s.bytes = reg.bytes - c.size
      /\ s = [cursor |-> s.cursor, order |-> s.order, bytes |-> s.bytes, perConn |-> s.perConn]
  BY <1>1, <1>2, <1>3 DEF Registry
<1>5. c.size \in Nat
  BY <1>1 DEF Cursor
<1>6. s.cursor[i].owner = reg.cursor[i].owner
  BY <1>1, <1>2, <1>4
<1>7. s.bytes = (reg.bytes - reg.cursor[i].size) + s.cursor[i].size
  BY <1>1, <1>2, <1>4, <1>5
<1>8. /\ s.bytes \in Nat /\ Exact(s) /\ Opened(s) = Opened(reg)
      /\ reg.cursor[i].size <= reg.bytes
  BY <1>1, <1>4, <1>6, <1>7, Moving
<1>9. s \in Registry
  BY <1>1, <1>4, <1>8 DEF Registry
<1> QED
  BY <1>1, <1>4, <1>5, <1>8, <1>9 DEF s, d, c

LEMMA AdvanceStep ==
  ASSUME IInv, Advance
  PROVE  IInv'
<1>0. PICK i \in Ids : i = page.id
  BY AtWork DEF Advance
<1> DEFINE c == Current
           next == c.shard + 1
           need == Cost(Cardinality(KeysOf(next)))
           room == Evicting(Released, {i}, need)
           d == [room.cursor[i] EXCEPT !.shard = next, !.size = need, !.rest = KeysOf(next)]
<1>1. /\ ~Idle /\ Exhausted /\ next <= Shards
      /\ RoomFor(Released, {i}, need)
      /\ reg' = [room EXCEPT
                   !.cursor[page.id] = [@ EXCEPT !.shard = next, !.size = need,
                                                 !.rest = KeysOf(next)],
                   !.bytes = @ + need]
      /\ UNCHANGED <<live, page, engine, asked, history>>
  BY <1>0 DEF Advance
<1>2. /\ i \in Opened(reg) /\ i \in Ids /\ page.owner = c.owner /\ c \in Cursor
      /\ WalkOK(i) /\ c = reg.cursor[i]
  BY <1>0, <1>1, AtWork DEF Current
<1>3. /\ Released \in Registry /\ Exact(Released) /\ Opened(Released) = Opened(reg)
      /\ \A j \in Ids \ {i} : Released.cursor[j] = reg.cursor[j]
      /\ Released.cursor[i] = [c EXCEPT !.size = 0, !.rest = {}]
      /\ Released.bytes <= reg.bytes /\ Released.perConn = reg.perConn
  BY <1>0, <1>1, Releasing
<1>4. PICK D \in SUBSET (Opened(Released) \ {i}) :
        room = DropAll(Released, D) /\ room.bytes + need <= MaxBytes
  BY <1>1, Evictions
<1>5. KeysOf(next) \subseteq Keys /\ need \in Nat
  <2>1. KeysOf(next) \in SUBSET Keys
    BY DEF KeysOf, IInv, TypeOK
  <2>2. Cardinality(KeysOf(next)) \in Nat
    BY <2>1, FS_Subset, FS_CardinalityType
  <2> QED
    BY <2>1, <2>2 DEF Cost
<1>6. c.shard \in Nat /\ next \in 0..Shards
  BY <1>1, <1>2 DEF Cursor
<1>7. Exhausted /\ c.rest = {}
  BY <1>1 DEF Exhausted
<1> HIDE DEF room, need
<1>8. /\ room \in Registry /\ Exact(room) /\ Opened(room) = Opened(reg) \ D
      /\ \A j \in Opened(room) : room.cursor[j] = Released.cursor[j]
      /\ \A o \in Owners : room.perConn[o] <= reg.perConn[o]
      /\ i \in Opened(room)
  <2>1. D \in SUBSET Opened(Released)
    OBVIOUS
  <2>2. /\ DropAll(Released, D) \in Registry /\ Exact(DropAll(Released, D))
        /\ Opened(DropAll(Released, D)) = Opened(Released) \ D
        /\ \A j \in Opened(Released) \ D : DropAll(Released, D).cursor[j] = Released.cursor[j]
        /\ \A o \in Owners : DropAll(Released, D).perConn[o] <= Released.perConn[o]
    BY <1>3, <2>1, Dropping
  <2> QED
    BY <1>2, <1>3, <1>4, <2>2
<1>9. room.cursor \in [Ids -> Cursor] /\ room.bytes \in Nat /\ room.perConn \in [Owners -> Nat]
  BY <1>8 DEF Registry
<1>10. need \in 0..MaxBytes
  BY <1>4, <1>5, <1>9
<1>11. room.cursor[i].owner = c.owner /\ room.cursor[i].size = 0
  BY <1>2, <1>3, <1>8 DEF Cursor
<1>12. /\ d \in Cursor /\ d.owner = c.owner /\ d.size = need /\ d.shard = next
       /\ d.rest = KeysOf(next)
  <2>1. room.cursor[i] \in Cursor
    BY <1>2, <1>9
  <2> QED
    BY <1>5, <1>6, <1>10, <1>11, <2>1 DEF Cursor
<1>13. reg' = [room EXCEPT !.cursor = [room.cursor EXCEPT ![i] = d], !.bytes = room.bytes + need]
  BY <1>0, <1>1, <1>2, <1>8, <1>9 DEF Registry
<1> HIDE DEF d, c
<1>14. /\ reg'.cursor \in [Ids -> Cursor] /\ reg'.cursor[i] = d
       /\ \A j \in Ids \ {i} : reg'.cursor[j] = room.cursor[j]
       /\ reg'.order = room.order /\ reg'.perConn = room.perConn
       /\ reg'.bytes = room.bytes + need
       /\ reg' = [cursor |-> reg'.cursor, order |-> reg'.order,
                  bytes |-> reg'.bytes, perConn |-> reg'.perConn]
  BY <1>2, <1>8, <1>9, <1>12, <1>13 DEF Registry
<1>15. reg'.bytes \in Nat /\ Exact(reg') /\ Opened(reg') = Opened(room)
  <2>1. reg'.cursor[i].owner = room.cursor[i].owner
    BY <1>11, <1>12, <1>14
  <2>2. reg'.bytes = (room.bytes - room.cursor[i].size) + reg'.cursor[i].size
    BY <1>5, <1>9, <1>11, <1>12, <1>14
  <2> QED
    BY <1>8, <1>14, <2>1, <2>2, Moving
<1>16. reg' \in Registry
  BY <1>8, <1>14, <1>15 DEF Registry
<1>17. RegistryExact'
  <2>1. ASSUME NEW o \in Owners PROVE reg'.perConn[o] <= MaxPerOwner
    <3>1. reg.perConn[o] \in Nat /\ room.perConn[o] \in Nat /\ reg.perConn[o] <= MaxPerOwner
      BY <1>9 DEF IInv, TypeOK, RegistryExact, Registry
    <3> QED
      BY <1>8, <1>14, <3>1
  <2> QED
    BY <1>4, <1>14, <1>15, <2>1 DEF RegistryExact
<1>18. WalkOK(i)'
  <2>1. /\ \A k \in got[i] : ShardOf[k] <= c.shard
        /\ \A k \in due[i] : k \in live /\ (ShardOf[k] <= c.shard => k \in got[i])
    BY <1>2, <1>7 DEF WalkOK
  <2>2. got'[i] = got[i] /\ due'[i] = due[i] /\ live' = live
    BY <1>1 DEF history
  <2>3. got[i] \subseteq Keys /\ due[i] \subseteq Keys
    BY <1>2 DEF IInv, TypeOK
  <2>4. \A k \in Keys : ShardOf[k] \in Nat
    OBVIOUS
  <2>5. \A k \in got[i] : ShardOf[k] <= d.shard /\ k \notin d.rest
    BY <1>6, <1>12, <2>1, <2>3, <2>4 DEF KeysOf
  <2>6. \A k \in d.rest : ShardOf[k] = d.shard
    BY <1>12 DEF KeysOf
  <2>7. \A k \in due[i] : k \in live /\ (ShardOf[k] <= d.shard => k \in got[i] \union d.rest)
    <3> SUFFICES ASSUME NEW k \in due[i]
                 PROVE  k \in live /\ (ShardOf[k] <= d.shard => k \in got[i] \union d.rest)
      OBVIOUS
    <3>1. ShardOf[k] \in Nat /\ k \in live
      BY <2>1, <2>3
    <3>2. ShardOf[k] <= next => ShardOf[k] <= c.shard \/ ShardOf[k] = next
      BY <1>6, <3>1
    <3>3. ShardOf[k] = next => k \in d.rest
      BY <1>12, <3>1 DEF KeysOf
    <3> QED
      BY <1>12, <2>1, <3>1, <3>2, <3>3
  <2> QED
    BY <1>14, <2>2, <2>5, <2>6, <2>7 DEF WalkOK
<1>19. WalksOK'
  <2>1. \A j \in Opened(reg') \ {i} : j \in Ids /\ reg'.cursor[j] = reg.cursor[j]
    BY <1>3, <1>8, <1>14, <1>15 DEF Opened
  <2>2. Opened(reg') \subseteq Opened(reg)
    BY <1>8, <1>15
  <2> QED
    BY <1>1, <1>2, <1>12, <1>16, <1>18, <2>1, <2>2, OneMoves DEF history
<1>20. PageOK'
  BY <1>0, <1>1, <1>2, <1>8, <1>12, <1>14, <1>15 DEF PageOK
<1>21. TypeOK'
  BY <1>1, <1>16 DEF IInv, TypeOK, history
<1> QED
  BY <1>17, <1>19, <1>20, <1>21 DEF IInv

(* The scan is over: every shard walked, or no room for the next.          *)
LEMMA EndStep ==
  ASSUME IInv, Finish \/ AdvanceRefused
  PROVE  IInv'
<1>1. ~Idle /\ page' = NoPage /\ UNCHANGED <<live, engine, asked, history>>
  BY DEF Finish, AdvanceRefused
<1>2. page.id \in Opened(reg) /\ page.id \in Ids /\ reg \in Registry /\ Exact(reg)
  BY <1>1, AtWork
<1>3. reg' \in Registry /\ RegistryExact' /\ WalksOK'
  <2>1. CASE Finish
    <3>1. reg' = DropAll(reg, {page.id}) /\ {page.id} \in SUBSET Opened(reg)
      BY <1>2, <2>1 DEF Finish
    <3> QED
      BY <1>1, <3>1, DropKeeps
  <2>2. CASE AdvanceRefused
    <3> DEFINE need == Cost(Cardinality(KeysOf(Current.shard + 1)))
               room == Evicting(Released, {page.id}, need)
    <3>1. reg' = DropAll(room, {page.id})
      BY <2>2 DEF AdvanceRefused
    <3>2. /\ Released \in Registry /\ Exact(Released) /\ Opened(Released) = Opened(reg)
          /\ \A j \in Ids \ {page.id} : Released.cursor[j] = reg.cursor[j]
          /\ Released.bytes <= reg.bytes /\ Released.perConn = reg.perConn
      BY <1>1, Releasing
    <3>3. PICK D \in SUBSET (Opened(Released) \ {page.id}) : room = DropAll(Released, D)
      <4>1. \E D \in SUBSET (Opened(Released) \ {page.id}) :
              /\ room = DropAll(Released, D)
              /\ RoomFor(Released, {page.id}, need) => DropAll(Released, D).bytes + need <= MaxBytes
        BY Evictions
      <4> QED
        BY <4>1
    <3> HIDE DEF room
    <3>4. /\ room \in Registry /\ Exact(room) /\ Opened(room) = Opened(reg) \ D
          /\ \A j \in Opened(reg) \ D : room.cursor[j] = Released.cursor[j]
          /\ room.bytes <= Released.bytes
          /\ \A o \in Owners : room.perConn[o] <= reg.perConn[o]
      <4>1. D \in SUBSET Opened(Released)
        OBVIOUS
      <4> QED
        BY <3>2, <3>3, <4>1, Dropping
    <3>5. {page.id} \in SUBSET Opened(room)
      BY <1>2, <3>2, <3>4
    <3>6. /\ reg' \in Registry /\ Exact(reg') /\ Opened(reg') = Opened(room) \ {page.id}
          /\ \A j \in Opened(room) \ {page.id} : reg'.cursor[j] = room.cursor[j]
          /\ reg'.bytes <= room.bytes
          /\ \A o \in Owners : reg'.perConn[o] <= room.perConn[o]
      BY <3>1, <3>4, <3>5, Dropping
    <3>7. RegistryExact'
      <4>1. /\ reg.bytes \in Nat /\ Released.bytes \in Nat /\ room.bytes \in Nat
            /\ reg'.bytes \in Nat /\ reg.bytes <= MaxBytes
        BY <1>2, <3>2, <3>4, <3>6 DEF Registry, IInv, RegistryExact
      <4>2. ASSUME NEW o \in Owners PROVE reg'.perConn[o] <= MaxPerOwner
        <5>1. /\ reg.perConn[o] \in Nat /\ room.perConn[o] \in Nat /\ reg'.perConn[o] \in Nat
              /\ reg.perConn[o] <= MaxPerOwner
          BY <1>2, <3>4, <3>6 DEF Registry, IInv, RegistryExact
        <5> QED
          BY <3>4, <3>6, <5>1
      <4>3. reg'.bytes <= MaxBytes
        BY <3>2, <3>4, <3>6, <4>1
      <4> QED
        BY <3>6, <4>2, <4>3 DEF RegistryExact
    <3>8. ASSUME NEW j \in Opened(reg') PROVE WalkOK(j)'
      <4>1. j \in Opened(reg) /\ j \in Ids /\ reg'.cursor[j] = reg.cursor[j]
        BY <3>2, <3>4, <3>6 DEF Opened
      <4>2. WalkOK(j)
        BY <4>1 DEF IInv, WalksOK
      <4> QED
        BY <1>1, <4>1, <4>2, Untouched DEF history
    <3> QED
      BY <3>6, <3>7, <3>8 DEF WalksOK
  <2> QED
    BY <2>1, <2>2 DEF Finish, AdvanceRefused
<1>4. PageOK'
  BY <1>1 DEF PageOK, Idle
<1>5. TypeOK'
  BY <1>1, <1>3 DEF IInv, TypeOK, NoPage, history
<1> QED
  BY <1>3, <1>4, <1>5 DEF IInv

(* Cursors given up while no page is in progress.                          *)
LEMMA GiveUpStep ==
  ASSUME IInv, CloseAll \/ \E o \in Owners : Release(o)
  PROVE  IInv'
<1>1. /\ Idle /\ UNCHANGED <<live, page, asked, history>>
      /\ engine' \in {"open", "closing", "closed"}
  BY DEF CloseAll, Release, IInv, TypeOK
<1>2. PICK D \in SUBSET Opened(reg) : reg' = DropAll(reg, D)
  <2>1. ASSUME NEW o \in Owners PROVE Held(reg, o) \in SUBSET Opened(reg)
    BY DEF Held
  <2> QED
    BY <2>1 DEF CloseAll, Release
<1>3. reg' \in Registry /\ RegistryExact' /\ WalksOK'
  BY <1>1, <1>2, DropKeeps
<1>4. PageOK'
  BY <1>1 DEF PageOK, Idle
<1>5. TypeOK'
  BY <1>1, <1>3 DEF IInv, TypeOK, history
<1> QED
  BY <1>3, <1>4, <1>5 DEF IInv

(* Writers create and remove keys between the holds of a page.             *)
LEMMA WriterStep ==
  ASSUME IInv, NEW k \in Volatile, Create(k) \/ Vanish(k)
  PROVE  IInv'
<1>1. UNCHANGED <<reg, page, engine, asked, got>>
  BY DEF Create, Vanish, history
<1>2. \/ live' = live \union {k} /\ due' = due
      \/ live' = live \ {k} /\ due' = [i \in Ids |-> due[i] \ {k}]
  BY DEF Create, Vanish, history
<1>3. ASSUME NEW i \in Opened(reg) PROVE WalkOK(i)'
  <2>1. i \in Ids /\ WalkOK(i)
    BY DEF Opened, IInv, WalksOK
  <2>2. \A j \in due'[i] : j \in due[i] /\ j \in live'
    BY <1>2, <2>1 DEF WalkOK
  <2> QED
    BY <1>1, <2>1, <2>2 DEF WalkOK
<1>4. WalksOK' /\ RegistryExact' /\ PageOK'
  BY <1>1, <1>3 DEF IInv, WalksOK, RegistryExact, PageOK, Idle
<1>5. live' \subseteq Keys /\ due' \in [Ids -> SUBSET Keys]
  BY <1>2 DEF IInv, TypeOK
<1>6. TypeOK'
  BY <1>1, <1>5 DEF IInv, TypeOK
<1> QED
  BY <1>4, <1>6 DEF IInv

(* Steps that only ask, end a page, or begin to close.                     *)
LEMMA QuietStep ==
  ASSUME IInv, Close \/ PageDone \/ UNCHANGED vars \/ \E o \in Owners : Ask(o)
  PROVE  IInv'
<1>1. UNCHANGED <<live, reg, history>> /\ (page' = page \/ page' = NoPage)
  BY DEF Close, PageDone, vars, Ask, AskFor, history
<1>2. WalksOK'
  <2>1. ASSUME NEW i \in Opened(reg) PROVE WalkOK(i)'
    BY <1>1 DEF IInv, WalksOK, WalkOK, history
  <2> QED
    BY <1>1, <2>1 DEF WalksOK
<1>3. RegistryExact' /\ PageOK'
  BY <1>1 DEF IInv, RegistryExact, PageOK, Idle
<1>4. engine' \in {"open", "closing", "closed"}
  BY DEF Close, PageDone, vars, Ask, AskFor, IInv, TypeOK
<1>5. asked' \in [Owners -> [id: Ids \union {Start}, count: Nat]]
  <2>1. CASE asked' = asked
    BY <2>1 DEF IInv, TypeOK
  <2>2. ASSUME NEW o \in Owners, Ask(o)
        PROVE  asked' \in [Owners -> [id: Ids \union {Start}, count: Nat]]
    <3>1. PICK id \in Ids \union {Start}, m \in Counts :
            asked' = [asked EXCEPT ![o] = [id |-> id, count |-> m]]
      BY <2>2 DEF Ask, AskFor
    <3>2. m \in Nat
      OBVIOUS
    <3> QED
      BY <3>1, <3>2 DEF IInv, TypeOK
  <2> QED
    BY <2>1, <2>2 DEF Close, PageDone, vars
<1>6. TypeOK'
  BY <1>1, <1>4, <1>5 DEF IInv, TypeOK, NoPage, history
<1> QED
  BY <1>2, <1>3, <1>6 DEF IInv

-----------------------------------------------------------------------------
(* The theorems                                                            *)

LEMMA Initially == Init => IInv
<1> SUFFICES ASSUME Init PROVE IInv
  OBVIOUS
<1>1. /\ reg = [cursor |-> [i \in Ids |-> NoCursor], order |-> {}, bytes |-> 0,
                perConn |-> [o \in Owners |-> 0]]
      /\ Idle /\ page = NoPage
  BY DEF Init, Idle
<1>2. Opened(reg) = {} /\ \A o \in Owners : Held(reg, o) = {}
  BY <1>1 DEF Opened, Held, NoCursor
<1>3. Bytes(reg.cursor, Opened(reg)) = 0
  <2>1. Cells(reg.cursor, {}) = {}
    BY DEF Cells
  <2> QED
    BY <1>2, <2>1, FS_EmptySet DEF Bytes
<1>4. Cardinality({}) = 0
  BY FS_EmptySet
<1>5. RegistryExact
  <2>1. Ordered(reg)
    BY <1>1, <1>2 DEF Ordered
  <2>2. reg.bytes = 0 /\ \A o \in Owners : reg.perConn[o] = 0
    BY <1>1
  <2>3. \A o \in Owners : Cardinality(Held(reg, o)) = 0
    BY <1>2, <1>4
  <2>4. Exact(reg)
    BY ONLY <1>3, <2>1, <2>2, <2>3 DEF Exact
  <2> QED
    BY <2>2, <2>4 DEF RegistryExact
<1>6. NoCursor \in Cursor
  BY DEF NoCursor, Cursor
<1>7. TypeOK
  BY <1>1, <1>6 DEF Init, TypeOK, Registry, NoPage, Nothing
<1> QED
  BY <1>1, <1>2, <1>5, <1>7 DEF IInv, PageOK, WalksOK

LEMMA Inductive == IInv /\ [Next]_vars => IInv'
<1> SUFFICES ASSUME IInv, [Next]_vars PROVE IInv'
  OBVIOUS
<1>1. CASE Page
  BY <1>1, BatchStep, AdvanceStep, EndStep, QuietStep DEF Page
<1>2. CASE Close \/ CloseAll
  BY <1>2, QuietStep, GiveUpStep
<1>3. ASSUME NEW o \in Owners, Ask(o) \/ Begin(o) \/ Release(o) PROVE IInv'
  <2>1. CASE Begin(o)
    BY <2>1, OpenStep, RefuseStep, ResumeStep DEF Begin
  <2>2. CASE Ask(o) \/ Release(o)
    BY <2>2, QuietStep, GiveUpStep
  <2> QED
    BY <1>3, <2>1, <2>2
<1>4. ASSUME NEW k \in Volatile, Create(k) \/ Vanish(k) PROVE IInv'
  BY <1>4, WriterStep
<1>5. CASE UNCHANGED vars
  BY <1>5, QuietStep
<1> QED
  BY <1>1, <1>2, <1>3, <1>4, <1>5 DEF Next

LEMMA Invariant == Spec => []IInv
BY Initially, Inductive, PTL DEF Spec

(* scan.go: types, and with them that no counter of the registry is ever   *)
(* taken below zero and no cursor is accounted at more than the cap.       *)
THEOREM ScanTypeCorrect == Spec => []TypeOK
<1>1. IInv => TypeOK
  BY DEF IInv
<1> QED
  BY <1>1, Invariant, PTL

(* scan.go, dropLocked and makeRoomLocked: the bytes, the slots and the    *)
(* LRU list are those of the cursors there are, and both caps are kept,    *)
(* for any number of connections and cursors, whoever is evicted, swept or *)
(* released, and also while the cursor of a page steps from one snapshot   *)
(* to the next.                                                            *)
THEOREM RegistryAlwaysExact == Spec => []RegistryExact
<1>1. IInv => RegistryExact
  BY DEF IInv
<1> QED
  BY <1>1, Invariant, PTL

(* scan.go, "The guarantee": no scan returns a key twice, whatever is      *)
(* created and removed between its pages.                                  *)
THEOREM NeverTwiceAlways == Spec => []NeverTwice
<1>1. IInv => NeverTwice
  BY DEF IInv, WalksOK, WalkOK, NeverTwice
<1> QED
  BY <1>1, Invariant, PTL

(* scan.go, "The guarantee": a scan that ends with "0" has returned every  *)
(* key that was present from its beginning to its end.                     *)
THEOREM ScansAreComplete == Spec => ScanComplete
<1>1. IInv /\ [Next]_vars => [Finish => due[page.id] \subseteq got[page.id]]_vars
  <2> SUFFICES ASSUME IInv, Finish PROVE due[page.id] \subseteq got[page.id]
    OBVIOUS
  <2>1. ~Idle /\ Exhausted /\ Current.shard = Shards
    BY DEF Finish
  <2>2. page.id \in Ids /\ WalkOK(page.id)
    BY <2>1, AtWork
  <2>3. due[page.id] \subseteq Keys
    BY <2>2 DEF IInv, TypeOK
  <2>4. \A k \in Keys : ShardOf[k] <= Shards
    OBVIOUS
  <2> QED
    BY <2>1, <2>2, <2>3, <2>4 DEF WalkOK, Exhausted, Current
<1> QED
  BY <1>1, Invariant, PTL DEF Spec, ScanComplete

=============================================================================
