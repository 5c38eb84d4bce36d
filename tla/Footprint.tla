------------------------------ MODULE Footprint -----------------------------
(***************************************************************************)
(* Entries and what they weigh (internal/storage/entry.go).                *)
(*                                                                         *)
(* Data abstraction: an entry is its accounted size and the state of its   *)
(* expiry.  CalculateSize adds a fixed overhead, so no resident entry      *)
(* weighs nothing; "nothing there" is the entry of size zero.              *)
(***************************************************************************)
EXTENDS Naturals, FiniteSets

CONSTANT MaxSize   \* largest accounted size of an entry

ASSUME MaxSizeType == MaxSize \in Nat \ {0}

Entry == [size: 1..MaxSize, ttl: {"none", "live", "expired"}]
Absent == [size |-> 0, ttl |-> "absent"]
Slot == Entry \union {Absent}

Present(e) == e.size > 0
IsExpired(e) == e.ttl = "expired"
HasTTL(e) == e.ttl \in {"live", "expired"}
Live(e) == Present(e) /\ ~IsExpired(e)
TTLCount(e) == IF HasTTL(e) THEN 1 ELSE 0

(* The bytes the keys K are charged for under f: one cell per byte, so     *)
(* that a sum of sizes is a cardinality.                                   *)
Cells(f, K) == {c \in K \X (1..MaxSize) : c[2] <= f[c[1]].size}
Bytes(f, K) == Cardinality(Cells(f, K))

(* The keys of K that carry an expiry under f.                             *)
Expiring(f, K) == {k \in K : HasTTL(f[k])}

=============================================================================
