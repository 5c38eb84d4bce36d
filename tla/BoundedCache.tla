---------------------------- MODULE BoundedCache ----------------------------
(***************************************************************************)
(* What the storage engine promises: a map from keys to entries whose      *)
(* total accounted size is known exactly and never grows past a configured *)
(* limit.  Every operation is one step.                                    *)
(***************************************************************************)
EXTENDS Footprint

CONSTANTS Keys, Limits

VARIABLES content, charged

Fits(n) == \E l \in Limits : l = 0 \/ n <= l

Init ==
  /\ content = [k \in Keys |-> Absent]
  /\ charged = 0

(* A write is admitted whole, paying only for what it does not displace.   *)
Put(k, e) ==
  /\ content' = [content EXCEPT ![k] = e]
  /\ charged' = (charged - content[k].size) + e.size
  /\ Fits(charged')

(* Entries leave: deleted, reclaimed, evicted or cleared.                  *)
Drop(K) ==
  /\ content' = [k \in Keys |-> IF k \in K THEN Absent ELSE content[k]]
  /\ charged' = charged - Bytes(content, K)

(* A deadline passes, or a live entry is given another; an expired entry   *)
(* never comes back to life.                                               *)
Retime(k, t) ==
  /\ content[k].ttl \in {"none", "live"}
  /\ content' = [content EXCEPT ![k].ttl = t]
  /\ UNCHANGED charged

Next ==
  \/ \E k \in Keys, e \in Entry : Put(k, e)
  \/ \E K \in SUBSET Keys : Drop(K)
  \/ \E k \in Keys, t \in {"none", "live", "expired"} : Retime(k, t)

Spec == Init /\ [][Next]_<<content, charged>>

=============================================================================
