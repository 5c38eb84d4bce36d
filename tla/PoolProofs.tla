----------------------------- MODULE PoolProofs ------------------------------
(* Pool for any number of callers, sockets and connections, in three       *)
(* invariants, each built on the one before.  IInv counts: the pool never  *)
(* has more connections open than its size, no slot is lost or given back  *)
(* twice, live counts what is open (Ceiling).  JInv says whose connection  *)
(* each is and what is on it: a connection in the pool is at a frame       *)
(* boundary (IdleClean) and a reply is the caller's own (OwnReply).  KInv  *)
(* follows the requests that are not retried: one that is answered 0 did   *)
(* nothing (AnswersTruthful).                                              *)
EXTENDS Pool, FiniteSetTheorems, SequenceTheorems, TLAPS

-----------------------------------------------------------------------------
(* The types                                                               *)

Doings == {None, "call", "HELLO", "AUTH"}
Whats == DOMAIN Policy \union {None, "HELLO", "AUTH"}
Outcomes == {None, "ok", "error", "push"}
Tags == [by : Callers \union {None}, nth : Nat, try : Nat, what : Whats]
Answers == [tag : Tags, kind : Outcomes, n : {0, 1}]
CallType == [at : Places, method : DOMAIN Policy \union {None}, nth : Nat, try : Nat, dials : Nat,
             doing : Doings, conn : Conns \union {None}, reply : Answers, err : Errors]
SockType == [side : {"open", "closed"}, srv : {"up", "gone"}, req : Seq(Tags), rep : Seq(Answers),
             broken : BOOLEAN, expired : BOOLEAN]

PoolType ==
  /\ slots \in Nat /\ idle \in Seq(Conns) /\ closed \in BOOLEAN /\ live \in Int
  /\ caller \in [Callers -> CallType]
  /\ watch \in [Callers -> [at : {"off", "armed", "fired"}, conn : Conns \union {None}]]
  /\ sock \in [Conns -> SockType]

(* What a caller holds at each place of its call.                          *)
HoldsAt(at, conn, doing) ==
  /\ conn # None <=> at \in {"alive", "forget", "send", "read", "release", "adopt", "put"}
  /\ at \in {"get", "slot", "take", "alive", "forget"} => doing = None
  /\ at \in {"send", "read", "release"} => doing \in {"call", "HELLO", "AUTH"}
  /\ at \in {"adopt", "put"} => doing = "call"
CallOK(c) == HoldsAt(c.at, c.conn, c.doing)
CallsOK == \A p \in Callers : CallOK(caller[p])

(* A watcher that is there watches the connection of its caller.           *)
WatchOK == \A p \in Callers : watch[p].at # "off" => watch[p].conn \in Conns

(* An open connection is in the pool or with a caller that will put it     *)
(* back, or hang it up.                                                    *)
Kept(c) == \E i \in DOMAIN idle : idle[i] = c
With(c) == \E p \in Callers : caller[p].conn = c /\ caller[p].at # "forget"
Cover == \A c \in Conns : sock[c].side = "open" => Kept(c) \/ With(c)

Tally ==
  /\ slots + Cardinality(Holders) = PoolSize
  /\ live = Len(idle) + Cardinality(Counted)
  /\ Len(idle) + Cardinality(Busy) <= PoolSize
  /\ closed => idle = <<>>

IInv == PoolType /\ CallsOK /\ WatchOK /\ Cover /\ Tally

USE SetsAssumption, SizeAssumption, NoneAssumption, BoundAssumption

-----------------------------------------------------------------------------
(* Counting the callers at some places                                     *)

BusyPlaces == {"alive", "forget", "check", "dial", "redial", "send", "read", "release",
               "adopt", "put"}
One(b) == IF b THEN 1 ELSE 0
InBusy(c) == One(c.at \in BusyPlaces)
InHolders(c) == One(c.at \in BusyPlaces \union {"take", "unslot"})
InCounted(c) == One(c.conn # None /\ c.at # "adopt" /\ c.doing \notin {"HELLO", "AUTH"})

LEMMA CountedSets ==
  /\ IsFiniteSet(Busy) /\ IsFiniteSet(Holders) /\ IsFiniteSet(Counted)
  /\ Cardinality(Busy) \in Nat /\ Cardinality(Holders) \in Nat /\ Cardinality(Counted) \in Nat
<1>1. Busy \subseteq Callers /\ Holders \subseteq Callers /\ Counted \subseteq Callers
  BY DEF Busy, Holders, Counted
<1> QED
  BY <1>1, FS_Subset, FS_CardinalityType

(* A set that changes by at most one element changes its size by that.     *)
LEMMA CountOne ==
  ASSUME NEW S, NEW T, NEW p, IsFiniteSet(S),
         \A q : q # p => (q \in S <=> q \in T)
  PROVE  /\ IsFiniteSet(T)
         /\ Cardinality(T) = Cardinality(S) + One(p \in T) - One(p \in S)
<1>0. Cardinality(S) \in Nat
  BY FS_CardinalityType
<1>1. CASE p \in S /\ p \in T
  <2>1. S = T
    BY <1>1
  <2> QED
    BY <2>1, <1>0, <1>1 DEF One
<1>2. CASE p \notin S /\ p \notin T
  <2>1. S = T
    BY <1>2
  <2> QED
    BY <2>1, <1>0, <1>2 DEF One
<1>3. CASE p \notin S /\ p \in T
  <2>1. T = S \union {p}
    BY <1>3
  <2>2. Cardinality(T) = Cardinality(S) + 1 /\ IsFiniteSet(T)
    BY <2>1, <1>3, FS_AddElement
  <2> QED
    BY <2>2, <1>0, <1>3 DEF One
<1>4. CASE p \in S /\ p \notin T
  <2>1. T = S \ {p}
    BY <1>4
  <2>2. Cardinality(T) = Cardinality(S) - 1 /\ IsFiniteSet(T)
    BY <2>1, <1>4, FS_RemoveElement
  <2> QED
    BY <2>2, <1>0, <1>4 DEF One
<1> QED
  BY <1>1, <1>2, <1>3, <1>4

(* What a step of one caller does to the three counts.                     *)
LEMMA Moved ==
  ASSUME caller \in [Callers -> CallType], NEW p \in Callers, NEW r,
         caller' = [caller EXCEPT ![p] = r]
  PROVE  /\ Cardinality(Busy)' = Cardinality(Busy) + InBusy(r) - InBusy(caller[p])
         /\ Cardinality(Holders)' = Cardinality(Holders) + InHolders(r) - InHolders(caller[p])
         /\ Cardinality(Counted)' = Cardinality(Counted) + InCounted(r) - InCounted(caller[p])
<1>1. caller'[p] = r /\ \A q \in Callers : q # p => caller'[q] = caller[q]
  OBVIOUS
<1>2. Cardinality(Busy)' = Cardinality(Busy) + InBusy(r) - InBusy(caller[p])
  <2>1. \A q : q # p => (q \in Busy <=> q \in Busy')
    BY <1>1 DEF Busy
  <2>2. One(p \in Busy') = InBusy(r) /\ One(p \in Busy) = InBusy(caller[p])
    BY <1>1 DEF Busy, InBusy, BusyPlaces, One
  <2> QED
    BY <2>1, <2>2, CountedSets, CountOne
<1>3. Cardinality(Holders)' = Cardinality(Holders) + InHolders(r) - InHolders(caller[p])
  <2>1. \A q : q # p => (q \in Holders <=> q \in Holders')
    BY <1>1 DEF Busy, Holders
  <2>2. One(p \in Holders') = InHolders(r) /\ One(p \in Holders) = InHolders(caller[p])
    BY <1>1 DEF Busy, Holders, InHolders, BusyPlaces, One
  <2> QED
    BY <2>1, <2>2, CountedSets, CountOne
<1>4. Cardinality(Counted)' = Cardinality(Counted) + InCounted(r) - InCounted(caller[p])
  <2>1. \A q : q # p => (q \in Counted <=> q \in Counted')
    BY <1>1 DEF Counted
  <2>2. One(p \in Counted') = InCounted(r) /\ One(p \in Counted) = InCounted(caller[p])
    BY <1>1 DEF Counted, InCounted, One
  <2> QED
    BY <2>1, <2>2, CountedSets, CountOne
<1> QED
  BY <1>2, <1>3, <1>4

(* The obligations of a step of one caller that leaves slots, idle, closed *)
(* and live as the step's own action says.                                 *)
LEMMA Advance ==
  ASSUME IInv, NEW p \in Callers, NEW r \in CallType, CallOK(r),
         caller' = [caller EXCEPT ![p] = r],
         slots' \in Nat, idle' \in Seq(Conns), closed' \in BOOLEAN, live' \in Int,
         watch' \in [Callers -> [at : {"off", "armed", "fired"}, conn : Conns \union {None}]],
         sock' \in [Conns -> SockType], WatchOK', Cover',
         slots' = slots - InHolders(r) + InHolders(caller[p]),
         live' = live + (Len(idle') - Len(idle)) + (InCounted(r) - InCounted(caller[p])),
         Len(idle') + InBusy(r) <= Len(idle) + InBusy(caller[p]) \/ idle' = <<>>,
         closed' => idle' = <<>>
  PROVE  IInv'
<1>1. PoolType'
  BY DEF IInv, PoolType
<1>2. CallsOK'
  BY DEF IInv, PoolType, CallsOK
<1>3. Tally'
  <2>1. /\ Cardinality(Busy)' = Cardinality(Busy) + InBusy(r) - InBusy(caller[p])
        /\ Cardinality(Holders)' = Cardinality(Holders) + InHolders(r) - InHolders(caller[p])
        /\ Cardinality(Counted)' = Cardinality(Counted) + InCounted(r) - InCounted(caller[p])
    BY Moved DEF IInv, PoolType
  <2>2. /\ InBusy(r) \in Int /\ InHolders(r) \in Int /\ InCounted(r) \in Int
        /\ InBusy(caller[p]) \in Int /\ InHolders(caller[p]) \in Int
        /\ InCounted(caller[p]) \in Int
    BY DEF InBusy, InHolders, InCounted, One
  <2>3. Len(idle) \in Nat /\ Len(idle') \in Nat /\ slots \in Nat /\ live \in Int
    BY DEF IInv, PoolType
  <2>0. /\ slots + Cardinality(Holders) = PoolSize /\ live = Len(idle) + Cardinality(Counted)
        /\ Len(idle) + Cardinality(Busy) <= PoolSize /\ PoolSize \in Nat
    BY DEF IInv, Tally
  <2>9. /\ Cardinality(Busy) \in Nat /\ Cardinality(Holders) \in Nat /\ Cardinality(Counted) \in Nat
    BY CountedSets
  <2> DEFINE h == Cardinality(Holders)
             k == Cardinality(Counted)
             b == Cardinality(Busy)
             n == Len(idle)
             m == Len(idle')
             h1 == InHolders(r)
             h0 == InHolders(caller[p])
             k1 == InCounted(r)
             k0 == InCounted(caller[p])
             b1 == InBusy(r)
             b0 == InBusy(caller[p])
  <2>10. /\ h \in Int /\ k \in Int /\ b \in Int /\ n \in Int /\ m \in Int /\ slots \in Int
         /\ h1 \in Int /\ h0 \in Int /\ k1 \in Int /\ k0 \in Int /\ b1 \in Int /\ b0 \in Int
    BY <2>2, <2>3, <2>9
  <2>11. /\ Cardinality(Holders)' = h + h1 - h0 /\ slots' = slots - h1 + h0
         /\ Cardinality(Counted)' = k + k1 - k0 /\ live' = live + (m - n) + (k1 - k0)
         /\ Cardinality(Busy)' = b + b1 - b0
         /\ slots + h = PoolSize /\ live = n + k /\ n + b <= PoolSize
    BY <2>0, <2>1
  <2>12. m + b1 <= n + b0 \/ idle' = <<>>
    OBVIOUS
  <2> HIDE DEF h, k, b, n, h1, h0, k1, k0, b1, b0, m
  <2>4. slots' + Cardinality(Holders)' = PoolSize
    BY <2>10, <2>11
  <2>5. live' = Len(idle') + Cardinality(Counted)'
    <3>1. live' = m + Cardinality(Counted)'
      BY <2>10, <2>11
    <3> QED
      BY <3>1 DEF m
  <2>6. Len(idle') + Cardinality(Busy)' <= PoolSize
    <3>1. CASE m + b1 <= n + b0
      <4>1. m + Cardinality(Busy)' <= PoolSize
        BY <3>1, <2>10, <2>11, <2>0
      <4> QED
        BY <4>1 DEF m
    <3>2. CASE idle' = <<>>
      <4>1. IsFiniteSet(Holders') /\ Cardinality(Holders)' \in Nat
        <5>1. Holders' \subseteq Callers
          BY DEF Holders, Busy
        <5> QED
          BY <5>1, FS_Subset, FS_CardinalityType
      <4>2. Cardinality(Busy)' <= Cardinality(Holders)' /\ Cardinality(Busy)' \in Nat
        <5>1. Busy' \subseteq Holders'
          BY DEF Holders
        <5> QED
          BY <4>1, <5>1, FS_Subset, FS_CardinalityType
      <4>3. Len(idle') = 0
        BY <3>2
      <4> QED
        BY <4>1, <4>2, <4>3, <2>4
    <3> QED
      BY <3>1, <3>2, <2>12
  <2> QED
    BY <2>4, <2>5, <2>6 DEF Tally
<1> QED
  BY <1>1, <1>2, <1>3 DEF IInv

(* A caller that neither takes nor gives back anything.                    *)
LEMMA Quiet ==
  ASSUME IInv, NEW p \in Callers, NEW r \in CallType, CallOK(r),
         caller' = [caller EXCEPT ![p] = r], UNCHANGED <<pool, watch, sock>>,
         r.conn = caller[p].conn, r.at # "forget",
         InHolders(r) = InHolders(caller[p]), InCounted(r) = InCounted(caller[p]),
         InBusy(r) <= InBusy(caller[p]) \/ idle = <<>>
  PROVE  IInv'
<1>1. slots' = slots /\ idle' = idle /\ closed' = closed /\ live' = live
  BY DEF pool
<1>2. Cover'
  BY <1>1 DEF IInv, PoolType, Cover, Kept, With
<1>3. WatchOK'
  BY DEF IInv, WatchOK
<1>4. \A c : InBusy(c) \in {0, 1} /\ InHolders(c) \in {0, 1} /\ InCounted(c) \in {0, 1}
  BY DEF InBusy, InHolders, InCounted, One
<1>5. /\ slots \in Nat /\ idle \in Seq(Conns) /\ closed \in BOOLEAN /\ live \in Int
      /\ watch \in [Callers -> [at : {"off", "armed", "fired"}, conn : Conns \union {None}]]
      /\ sock \in [Conns -> SockType] /\ Len(idle) \in Nat
      /\ closed => idle = <<>>
  BY DEF IInv, PoolType, Tally
<1>6. slots' = slots - InHolders(r) + InHolders(caller[p])
  BY <1>1, <1>4, <1>5
<1>7. live' = live + (Len(idle') - Len(idle)) + (InCounted(r) - InCounted(caller[p]))
  BY <1>1, <1>4, <1>5
<1>8. Len(idle') + InBusy(r) <= Len(idle) + InBusy(caller[p]) \/ idle' = <<>>
  BY <1>1, <1>4, <1>5
<1> QED
  BY <1>1, <1>2, <1>3, <1>5, <1>6, <1>7, <1>8, Advance

(* What the steps make of a caller's record.                               *)
LEMMA Fields ==
  ASSUME NEW c \in CallType, NEW place \in Places, NEW e \in Errors
  PROVE  /\ [c EXCEPT !.at = place] \in CallType
         /\ [c EXCEPT !.at = place].at = place
         /\ [c EXCEPT !.at = place].conn = c.conn
         /\ [c EXCEPT !.at = place].doing = c.doing
         /\ [c EXCEPT !.at = place, !.err = e] \in CallType
         /\ [c EXCEPT !.at = place, !.err = e].at = place
         /\ [c EXCEPT !.at = place, !.err = e].conn = c.conn
         /\ [c EXCEPT !.at = place, !.err = e].doing = c.doing
         /\ [c EXCEPT !.at = place, !.err = e, !.conn = None] \in CallType
         /\ [c EXCEPT !.at = place, !.err = e, !.conn = None].at = place
         /\ [c EXCEPT !.at = place, !.err = e, !.conn = None].conn = None
         /\ [c EXCEPT !.at = place, !.err = e, !.conn = None].doing = c.doing
BY DEF CallType

LEMMA CallerType ==
  ASSUME IInv, NEW p \in Callers
  PROVE  caller[p] \in CallType /\ CallOK(caller[p])
BY DEF IInv, PoolType, CallsOK

USE DEF At, Go, Fail, Drop, Conn

(* The steps that only move a caller: it holds what it held.               *)
LEMMA GoQuiet ==
  ASSUME IInv, NEW p \in Callers, NEW place \in Places, NEW e \in Errors,
         Go(p, place) \/ Fail(p, place, e), UNCHANGED <<pool, watch, sock>>,
         place # "forget", HoldsAt(place, caller[p].conn, caller[p].doing),
         caller[p].at \in BusyPlaces \union {"take", "unslot"}
           <=> place \in BusyPlaces \union {"take", "unslot"},
         (place \in BusyPlaces => caller[p].at \in BusyPlaces) \/ idle = <<>>,
         caller[p].at # "adopt" /\ place # "adopt"
  PROVE  IInv'
<1> DEFINE c == caller[p]
           g == [c EXCEPT !.at = place]
           f == [c EXCEPT !.at = place, !.err = e]
<1>1. c \in CallType
  BY CallerType
<1>2. /\ g \in CallType /\ g.at = place /\ g.conn = c.conn /\ g.doing = c.doing
      /\ f \in CallType /\ f.at = place /\ f.conn = c.conn /\ f.doing = c.doing
  BY <1>1 DEF CallType
<1>3. caller' = [caller EXCEPT ![p] = g] \/ caller' = [caller EXCEPT ![p] = f]
  BY DEF IInv, PoolType
<1> HIDE DEF g, f
<1>4. CallOK(f) /\ CallOK(g)
  BY <1>2 DEF CallOK
<1>5. /\ InHolders(g) = InHolders(c) /\ InHolders(f) = InHolders(c)
      /\ InCounted(g) = InCounted(c) /\ InCounted(f) = InCounted(c)
  BY <1>2 DEF InHolders, InCounted
<1>6. idle = <<>> \/ (InBusy(g) <= InBusy(c) /\ InBusy(f) <= InBusy(c))
  BY <1>2 DEF InBusy, One
<1> QED
  BY <1>2, <1>3, <1>4, <1>5, <1>6, Quiet

USE DEF Places, Errors, BusyPlaces

-----------------------------------------------------------------------------
(* One lemma per action                                                    *)

LEMMA GetKeeps == ASSUME IInv, NEW p \in Callers, Get(p) PROVE IInv'
<1>1. HoldsAt("answered", caller[p].conn, caller[p].doing) /\ HoldsAt("slot", caller[p].conn, caller[p].doing)
  BY CallerType DEF CallOK, HoldsAt, Get
<1> QED
  BY <1>1, GoQuiet DEF Get

LEMMA SlotGivenUpKeeps == ASSUME IInv, NEW p \in Callers, SlotGivenUp(p) PROVE IInv'
<1>1. HoldsAt("answered", caller[p].conn, caller[p].doing)
  BY CallerType DEF CallOK, HoldsAt, SlotGivenUp
<1> QED
  BY <1>1, GoQuiet DEF SlotGivenUp

LEMMA NoIdleKeeps == ASSUME IInv, NEW p \in Callers, NoIdle(p) PROVE IInv'
<1>1. HoldsAt("check", caller[p].conn, caller[p].doing)
  BY CallerType DEF CallOK, HoldsAt, NoIdle
<1> QED
  BY <1>1, GoQuiet DEF NoIdle

LEMMA CheckKeeps == ASSUME IInv, NEW p \in Callers, Check(p) PROVE IInv'
<1>1. HoldsAt("unslot", caller[p].conn, caller[p].doing) /\ HoldsAt("dial", caller[p].conn, caller[p].doing)
  BY CallerType DEF CallOK, HoldsAt, Check
<1> QED
  BY <1>1, GoQuiet DEF Check

LEMMA DialFailsKeeps == ASSUME IInv, NEW p \in Callers, DialFails(p) PROVE IInv'
<1>1. HoldsAt("redial", caller[p].conn, caller[p].doing)
  BY CallerType DEF CallOK, HoldsAt, DialFails
<1> QED
  BY <1>1, GoQuiet DEF DialFails

LEMMA DialGivenUpKeeps == ASSUME IInv, NEW p \in Callers, DialGivenUp(p) PROVE IInv'
<1>1. HoldsAt("unslot", caller[p].conn, caller[p].doing)
  BY CallerType DEF CallOK, HoldsAt, DialGivenUp
<1> QED
  BY <1>1, GoQuiet DEF DialGivenUp

LEMMA ReadFailsKeeps == ASSUME IInv, NEW p \in Callers, ReadFails(p) PROVE IInv'
<1>1. HoldsAt("release", caller[p].conn, caller[p].doing)
  BY CallerType DEF CallOK, HoldsAt, ReadFails
<1> QED
  BY <1>1, GoQuiet DEF ReadFails

LEMMA AnsweredKeeps == ASSUME IInv, NEW p \in Callers, Answered(p) PROVE IInv'
<1>1. HoldsAt("backoff", caller[p].conn, caller[p].doing) /\ HoldsAt("returned", caller[p].conn, caller[p].doing)
  BY CallerType DEF CallOK, HoldsAt, Answered
<1> QED
  BY <1>1, GoQuiet DEF Answered

LEMMA NoTagType == NoReply \in Answers /\ NoCall \in CallType
<1>0. None \in Whats /\ None \in Outcomes /\ None \in Doings
  BY DEF Whats, Outcomes, Doings
<1>1. NoTag \in Tags
  BY <1>0 DEF NoTag, Tags
<1>2. NoReply \in Answers
  BY <1>0, <1>1 DEF NoReply, Answers
<1>3. NoCall \in CallType
  BY <1>0, <1>2 DEF NoCall, CallType
<1> QED
  BY <1>2, <1>3

LEMMA BackoffKeeps == ASSUME IInv, NEW p \in Callers, Backoff(p) PROVE IInv'
<1>1. HoldsAt("returned", caller[p].conn, caller[p].doing) /\ HoldsAt("get", caller[p].conn, None)
  BY CallerType DEF CallOK, HoldsAt, Backoff
<1>2. CASE Fail(p, "returned", "context")
  BY <1>1, <1>2, GoQuiet DEF Backoff
<1>3. CASE caller' = [caller EXCEPT ![p].at = "get", ![p].try = @ + 1, ![p].err = None,
                                    ![p].dials = 0, ![p].doing = None, ![p].reply = NoReply]
  <2> DEFINE c == caller[p]
             r == [c EXCEPT !.at = "get", !.try = @ + 1, !.err = None,
                            !.dials = 0, !.doing = None, !.reply = NoReply]
  <2>1. c \in CallType /\ CallOK(c) /\ c.at = "backoff"
    BY CallerType DEF Backoff
  <2>2. r \in CallType /\ r.at = "get" /\ r.conn = c.conn /\ r.doing = None
    <3>1. c.try + 1 \in Nat /\ None \in Doings
      BY <2>1 DEF CallType, Doings
    <3>2. r = [c EXCEPT !.at = "get", !.try = c.try + 1, !.err = None,
                        !.dials = 0, !.doing = None, !.reply = NoReply]
      BY <2>1 DEF CallType
    <3> QED
      BY <2>1, <3>1, <3>2, NoTagType DEF CallType
  <2>3. caller' = [caller EXCEPT ![p] = r]
    BY <1>3 DEF IInv, PoolType
  <2> HIDE DEF r
  <2>4. CallOK(r) /\ InHolders(r) = InHolders(c) /\ InCounted(r) = InCounted(c) /\ InBusy(r) = InBusy(c)
    BY <2>1, <2>2, <1>1 DEF CallOK, HoldsAt, InHolders, InCounted, InBusy, One
  <2>5. InBusy(c) \in Int
    BY DEF InBusy, One
  <2>6. UNCHANGED <<pool, watch, sock>> /\ InBusy(r) <= InBusy(c) /\ r.at # "forget"
    BY <2>2, <2>4, <2>5 DEF Backoff
  <2> QED
    BY <2>2, <2>3, <2>4, <2>6, Quiet
<1> QED
  BY <1>2, <1>3 DEF Backoff

LEMMA RedialKeeps == ASSUME IInv, NEW p \in Callers, Redial(p) PROVE IInv'
<1> DEFINE c == caller[p]
           r == [c EXCEPT !.at = "dial", !.dials = @ + 1, !.err = None]
<1>1. c \in CallType /\ CallOK(c) /\ c.at = "redial"
  BY CallerType DEF Redial
<1>2. r \in CallType /\ r.at = "dial" /\ r.conn = c.conn /\ r.doing = c.doing
  <2>1. c.dials + 1 \in Nat
    BY <1>1 DEF CallType
  <2>2. r = [c EXCEPT !.at = "dial", !.dials = c.dials + 1, !.err = None]
    BY <1>1 DEF CallType
  <2> QED
    BY <1>1, <2>1, <2>2 DEF CallType
<1>3. caller' = [caller EXCEPT ![p] = r]
  BY DEF IInv, PoolType, Redial
<1> HIDE DEF r
<1>4. CallOK(r) /\ InHolders(r) = InHolders(c) /\ InCounted(r) = InCounted(c) /\ InBusy(r) = InBusy(c)
  BY <1>1, <1>2 DEF CallOK, HoldsAt, InHolders, InCounted, InBusy, One
<1>5. InBusy(c) \in Int
  BY DEF InBusy, One
<1>6. UNCHANGED <<pool, watch, sock>> /\ InBusy(r) <= InBusy(c) /\ r.at # "forget"
  BY <1>2, <1>4, <1>5 DEF Redial
<1> QED
  BY <1>2, <1>3, <1>4, <1>6, Quiet

LEMMA StartKeeps == ASSUME IInv, NEW p \in Callers, NEW m \in DOMAIN Policy, Start(p, m) PROVE IInv'
<1> DEFINE c == caller[p]
           r == [NoCall EXCEPT !.at = "get", !.method = m, !.nth = c.nth + 1]
<1>1. c \in CallType /\ CallOK(c) /\ c.at \in {"idle", "returned"}
  BY CallerType DEF Start, Over
<1>2. r \in CallType /\ r.at = "get" /\ r.conn = None /\ r.doing = None
  <2>1. c.nth + 1 \in Nat /\ NoCall.conn = None /\ NoCall.doing = None
    BY <1>1 DEF CallType, NoCall
  <2> QED
    BY <2>1, NoTagType DEF CallType
<1>3. caller' = [caller EXCEPT ![p] = r]
  BY DEF IInv, PoolType, Start
<1>4. c.conn = None
  BY <1>1 DEF CallOK, HoldsAt
<1> HIDE DEF r
<1>5. CallOK(r) /\ InHolders(r) = InHolders(c) /\ InCounted(r) = InCounted(c) /\ InBusy(r) = InBusy(c)
  BY <1>1, <1>2, <1>4 DEF CallOK, HoldsAt, InHolders, InCounted, InBusy, One
<1>6. InBusy(c) \in Int
  BY DEF InBusy, One
<1>7. UNCHANGED <<pool, watch, sock>> /\ InBusy(r) <= InBusy(c) /\ r.at # "forget"
  BY <1>2, <1>5, <1>6 DEF Start
<1> QED
  BY <1>2, <1>3, <1>4, <1>5, <1>7, Quiet

-----------------------------------------------------------------------------
(* The steps that open, close or use a connection                          *)

WatchType == [Callers -> [at : {"off", "armed", "fired"}, conn : Conns \union {None}]]

LEMMA Types ==
  ASSUME IInv
  PROVE  /\ slots \in Nat /\ idle \in Seq(Conns) /\ closed \in BOOLEAN /\ live \in Int
         /\ caller \in [Callers -> CallType] /\ watch \in WatchType /\ sock \in [Conns -> SockType]
         /\ Len(idle) \in Nat /\ (closed => idle = <<>>)
BY DEF IInv, PoolType, Tally, WatchType

LEMMA Ones == \A c : /\ InBusy(c) \in {0, 1} /\ InHolders(c) \in {0, 1} /\ InCounted(c) \in {0, 1}
BY DEF InBusy, InHolders, InCounted, One

(* What is open once a caller's record has become r is open already, and   *)
(* not with the caller alone, or is the caller's still.                    *)
StillOpen(p, r) ==
  \A c \in Conns : sock'[c].side = "open" =>
    \/ sock[c].side = "open" /\ c # caller[p].conn
    \/ c = r.conn /\ r.at # "forget"
    \/ sock[c].side = "open" /\ caller[p].at = "forget"

(* Hanging up a connection that only this caller has covers no other.      *)
LEMMA StillCovered ==
  ASSUME IInv, NEW p \in Callers, NEW r,
         caller' = [caller EXCEPT ![p] = r], idle' = idle, StillOpen(p, r)
  PROVE  Cover'
<1> SUFFICES ASSUME NEW c \in Conns, sock'[c].side = "open"
             PROVE  (\E i \in DOMAIN idle : idle[i] = c)
                      \/ \E q \in Callers : caller'[q].conn = c /\ caller'[q].at # "forget"
  BY DEF Cover, Kept, With
<1>1. caller'[p] = r /\ \A q \in Callers : q # p => caller'[q] = caller[q]
  BY Types
<1>2. CASE c = r.conn /\ r.at # "forget"
  BY <1>1, <1>2
<1>3. CASE sock[c].side = "open" /\ (c # caller[p].conn \/ caller[p].at = "forget")
  <2>1. Kept(c) \/ With(c)
    BY <1>3 DEF IInv, Cover
  <2> QED
    BY <2>1, <1>1, <1>3 DEF Kept, With
<1> QED
  BY <1>2, <1>3 DEF StillOpen

(* A step that leaves the pool alone.                                      *)
LEMMA Works ==
  ASSUME IInv, NEW p \in Callers, NEW r \in CallType, CallOK(r),
         caller' = [caller EXCEPT ![p] = r], UNCHANGED pool,
         watch' \in WatchType, WatchOK', sock' \in [Conns -> SockType], Cover',
         InHolders(r) = InHolders(caller[p]), InCounted(r) = InCounted(caller[p]),
         InBusy(r) = InBusy(caller[p])
  PROVE  IInv'
<1>1. slots' = slots /\ idle' = idle /\ closed' = closed /\ live' = live
  BY DEF pool
<1>2. slots' = slots - InHolders(r) + InHolders(caller[p])
  BY <1>1, Ones, Types
<1>3. live' = live + (Len(idle') - Len(idle)) + (InCounted(r) - InCounted(caller[p]))
  BY <1>1, Ones, Types
<1>4. Len(idle') + InBusy(r) <= Len(idle) + InBusy(caller[p])
  BY <1>1, Ones, Types
<1> QED
  BY <1>1, <1>2, <1>3, <1>4, Types, Advance DEF WatchType

LEMMA WatchStays == ASSUME IInv, UNCHANGED watch PROVE watch' \in WatchType /\ WatchOK'
BY Types DEF IInv, WatchOK

LEMMA HungType ==
  ASSUME sock \in [Conns -> SockType], NEW c \in Conns
  PROVE  /\ [sock EXCEPT ![c] = Hung(@)] \in [Conns -> SockType]
         /\ [sock EXCEPT ![c] = Hung(@)][c].side = "closed"
         /\ \A d \in Conns : d # c => [sock EXCEPT ![c] = Hung(@)][d] = sock[d]
<1>1. Hung(sock[c]) \in SockType /\ Hung(sock[c]).side = "closed"
  <2>1. sock[c] \in SockType /\ <<>> \in Seq(Answers)
    OBVIOUS
  <2> QED
    BY <2>1 DEF Hung, SockType
<1> QED
  BY <1>1

LEMMA AliveKeeps ==
  ASSUME IInv, NEW p \in Callers, NEW since, Alive(p, since)
  PROVE  IInv'
<1> DEFINE c == caller[p]
           good == Healthy(sock[c.conn], since)
           r == [c EXCEPT !.at = IF good THEN "send" ELSE "forget",
                          !.doing = IF good THEN "call" ELSE None]
<1>1. c \in CallType /\ CallOK(c) /\ c.at = "alive"
  BY CallerType DEF Alive
<1>2. c.conn \in Conns /\ c.doing = None
  BY <1>1 DEF CallOK, HoldsAt, CallType
<1>3. /\ r \in CallType /\ r.conn = c.conn
      /\ (good /\ r.at = "send" /\ r.doing = "call") \/ (~good /\ r.at = "forget" /\ r.doing = None)
  BY <1>1 DEF CallType, Doings
<1>4. caller' = [caller EXCEPT ![p] = r]
  BY Types DEF Alive
<1>5. sock' = IF good THEN sock ELSE [sock EXCEPT ![c.conn] = Hung(@)]
  BY DEF Alive
<1> HIDE DEF r, good
<1>6. /\ CallOK(r)
      /\ InHolders(r) = InHolders(c) /\ InCounted(r) = InCounted(c) /\ InBusy(r) = InBusy(c)
  <2>1. r.conn # None
    BY <1>2, <1>3
  <2>2. CallOK(r)
    BY <2>1, <1>3 DEF CallOK, HoldsAt
  <2>3. InHolders(r) = InHolders(c) /\ InBusy(r) = InBusy(c)
    BY <1>1, <1>3 DEF InHolders, InBusy
  <2>4. InCounted(r) = InCounted(c)
    BY <1>1, <1>2, <1>3 DEF InCounted, One, None
  <2> QED
    BY <2>2, <2>3, <2>4
<1>7. sock' \in [Conns -> SockType]
  BY <1>5, <1>2, Types, HungType
<1>8. idle' = idle /\ UNCHANGED pool /\ UNCHANGED watch
  BY DEF Alive, pool
<1>9. \A d \in Conns : sock'[d].side = "open" =>
        (sock[d].side = "open" /\ d # c.conn) \/ (d = r.conn /\ r.at # "forget")
  BY <1>2, <1>3, <1>5, Types, HungType
<1>10. Cover'
  <2>1. StillOpen(p, r)
    BY <1>4, <1>8, <1>9 DEF StillOpen
  <2> QED
    BY <2>1, <1>4, <1>8, <1>9, StillCovered
<1> QED
  BY <1>3, <1>4, <1>6, <1>7, <1>8, <1>10, WatchStays, Works

LEMMA DialKeeps ==
  ASSUME IInv, NEW p \in Callers, NEW k \in Conns, NEW s \in {Accepted, TurnedAway}, Dial(p, k, s)
  PROVE  IInv'
<1> DEFINE c == caller[p]
           r == [c EXCEPT !.at = "send", !.conn = k, !.doing = "HELLO"]
<1>1. c \in CallType /\ CallOK(c) /\ c.at = "dial"
  BY CallerType DEF Dial
<1>2. c.conn = None
  BY <1>1 DEF CallOK, HoldsAt
<1>3. r \in CallType /\ r.conn = k /\ r.at = "send" /\ r.doing = "HELLO"
  BY <1>1 DEF CallType, Doings
<1>4. caller' = [caller EXCEPT ![p] = r] /\ sock' = [sock EXCEPT ![k] = s]
  BY Types DEF Dial
<1> HIDE DEF r
<1>5. k # None /\ CallOK(r)
  <2>1. k # None
    OBVIOUS
  <2> QED
    BY <1>3, <2>1 DEF CallOK, HoldsAt
<1>6. InHolders(r) = InHolders(c) /\ InCounted(r) = InCounted(c) /\ InBusy(r) = InBusy(c)
  BY <1>1, <1>2, <1>3 DEF InHolders, InCounted, InBusy, One
<1>7. sock' \in [Conns -> SockType]
  <2>1. NoTag \in Tags /\ "error" \in Outcomes
    BY NoTagType DEF NoReply, Answers, Outcomes
  <2>2. Refusal \in Answers
    BY <2>1 DEF Refusal, Answers
  <2>3. <<Refusal>> \in Seq(Answers) /\ <<>> \in Seq(Answers) /\ <<>> \in Seq(Tags)
    BY <2>2
  <2>4. Accepted \in SockType /\ TurnedAway \in SockType
    BY <2>3 DEF Accepted, TurnedAway, Unused, SockType
  <2> QED
    BY <2>4, <1>4, Types
<1>8. idle' = idle /\ UNCHANGED pool /\ UNCHANGED watch
  BY DEF Dial, pool
<1>9. \A d \in Conns : sock'[d].side = "open" =>
        (sock[d].side = "open" /\ d # c.conn) \/ (d = r.conn /\ r.at # "forget")
  BY <1>2, <1>3, <1>4, Types
<1>10. Cover'
  <2>1. StillOpen(p, r)
    BY <1>4, <1>8, <1>9 DEF StillOpen
  <2> QED
    BY <2>1, <1>4, <1>8, <1>9, StillCovered
<1> QED
  BY <1>3, <1>4, <1>5, <1>6, <1>7, <1>8, <1>10, WatchStays, Works

(* What an exchange leaves of a connection is well typed.                  *)
LEMMA TagType == ASSUME IInv, NEW p \in Callers PROVE Tag(p) \in Tags
<1>1. /\ caller[p].nth \in Nat /\ caller[p].try \in Nat
      /\ caller[p].method \in Whats /\ caller[p].doing \in {None, "call", "HELLO", "AUTH"}
  BY CallerType DEF CallType, Doings, Whats
<1>2. (IF caller[p].doing = "call" THEN caller[p].method ELSE caller[p].doing) \in Whats
  BY <1>1 DEF Whats
<1> QED
  BY <1>1, <1>2 DEF Tag, Tags

LEMMA SomeConn ==
  ASSUME IInv, NEW p \in Callers, caller[p].at \in {"alive", "send", "read", "release", "adopt", "put"}
  PROVE  caller[p].conn \in Conns /\ caller[p].conn # None /\ sock[caller[p].conn] \in SockType
BY CallerType, Types DEF CallOK, HoldsAt, CallType

(* A caller that keeps its connection, and its place among the counted.    *)
LEMMA Onward ==
  ASSUME IInv, NEW p \in Callers, NEW r \in CallType,
         caller' = [caller EXCEPT ![p] = r], UNCHANGED pool,
         watch' \in WatchType, WatchOK', sock' \in [Conns -> SockType],
         \A c \in Conns : sock'[c].side = "open" => sock[c].side = "open",
         caller[p].at \in {"send", "read", "release", "alive"},
         r.at \in {"read", "release", "put", "send"},
         r.conn = caller[p].conn, r.doing = caller[p].doing,
         r.at = "put" => r.doing = "call", r.doing \in {"call", "HELLO", "AUTH"}
  PROVE  IInv'
<1> DEFINE c == caller[p]
<1>1. r.conn # None /\ CallOK(r)
  BY SomeConn DEF CallOK, HoldsAt
<1>2. InHolders(r) = InHolders(c) /\ InBusy(r) = InBusy(c)
  BY DEF InHolders, InBusy
<1>3. InCounted(r) = InCounted(c)
  BY DEF InCounted, One
<1>4. idle' = idle /\ r.at # "forget"
  BY DEF pool
<1>5. Cover'
  <2>1. StillOpen(p, r)
    BY <1>4 DEF StillOpen
  <2> QED
    BY <2>1, <1>4, StillCovered
<1> QED
  BY <1>1, <1>2, <1>3, <1>5, Works

(* A handshake that failed: the connection is hung up and forgotten.       *)
LEMMA HandshakeOver ==
  ASSUME IInv, NEW p \in Callers, NEW e \in Errors, Drop(p, "redial", e), UNCHANGED pool,
         watch' \in WatchType, WatchOK', sock' = [sock EXCEPT ![caller[p].conn] = Hung(@)],
         caller[p].at \in {"send", "release"}, caller[p].doing # "call"
  PROVE  IInv'
<1> DEFINE c == caller[p]
           r == [c EXCEPT !.at = "redial", !.err = e, !.conn = None]
<1>1. c \in CallType /\ CallOK(c) /\ c.conn \in Conns /\ c.conn # None
  BY CallerType, SomeConn
<1>2. c.doing \in {"HELLO", "AUTH"}
  BY <1>1 DEF CallOK, HoldsAt
<1>3. r \in CallType /\ r.at = "redial" /\ r.conn = None /\ r.doing = c.doing
  BY <1>1 DEF CallType
<1>4. caller' = [caller EXCEPT ![p] = r]
  BY Types
<1> HIDE DEF r
<1>5. CallOK(r)
  BY <1>3, <1>2 DEF CallOK, HoldsAt
<1>6. InHolders(r) = InHolders(c) /\ InBusy(r) = InBusy(c)
  BY <1>3 DEF InHolders, InBusy
<1>7. InCounted(r) = InCounted(c)
  BY <1>2, <1>3 DEF InCounted, One
<1>8. /\ sock' \in [Conns -> SockType] /\ idle' = idle
      /\ \A d \in Conns : sock'[d].side = "open" => sock[d].side = "open" /\ d # c.conn
  BY <1>1, Types, HungType DEF pool
<1>9. Cover'
  <2> SUFFICES ASSUME NEW d \in Conns, sock'[d].side = "open"
               PROVE  (\E i \in DOMAIN idle : idle[i] = d)
                        \/ \E q \in Callers : caller'[q].conn = d /\ caller'[q].at # "forget"
    BY <1>8 DEF Cover, Kept, With
  <2>1. Kept(d) \/ With(d)
    BY <1>8 DEF IInv, Cover
  <2>2. d # c.conn /\ \A q \in Callers : q # p => caller'[q] = caller[q]
    BY <1>4, <1>8, Types
  <2> QED
    BY <2>1, <2>2 DEF Kept, With
<1> QED
  BY <1>3, <1>4, <1>5, <1>6, <1>7, <1>8, <1>9, Works

LEMMA NotSentKeeps == ASSUME IInv, NEW p \in Callers, NotSent(p) PROVE IInv'
<1> DEFINE c == caller[p]
           r == [c EXCEPT !.at = "put", !.err = "context"]
<1>1. c \in CallType /\ c.at = "send" /\ UNCHANGED pool /\ UNCHANGED watch
  BY CallerType DEF NotSent
<1>2. CASE c.doing = "call"
  <2>1. r \in CallType /\ r.at = "put" /\ r.conn = c.conn /\ r.doing = c.doing
    BY <1>1 DEF CallType
  <2>2. caller' = [caller EXCEPT ![p] = r] /\ sock' = sock
    BY <1>2, Types DEF NotSent
  <2> HIDE DEF r
  <2> QED
    BY <1>1, <1>2, <2>1, <2>2, WatchStays, Types, Onward
<1>3. CASE c.doing # "call"
  BY <1>1, <1>3, WatchStays, HandshakeOver DEF NotSent
<1> QED
  BY <1>2, <1>3

LEMMA SendKeeps == ASSUME IInv, NEW p \in Callers, Send(p) PROVE IInv'
<1> DEFINE c == caller[p]
           r == [c EXCEPT !.at = "read"]
<1>1. /\ c \in CallType /\ CallOK(c) /\ c.at = "send" /\ UNCHANGED pool
      /\ c.conn \in Conns /\ sock[c.conn] \in SockType
  BY CallerType, SomeConn DEF Send
<1>2. r \in CallType /\ r.at = "read" /\ r.conn = c.conn /\ r.doing = c.doing
  BY <1>1 DEF CallType
<1>3. c.doing \in {"call", "HELLO", "AUTH"}
  BY <1>1 DEF CallOK, HoldsAt
<1>4. caller' = [caller EXCEPT ![p] = r]
  BY Types DEF Send
<1>5. watch' \in WatchType /\ WatchOK'
  <2>1. watch' = [watch EXCEPT ![p] = [at |-> "armed", conn |-> c.conn]]
    BY DEF Send
  <2>2. [at |-> "armed", conn |-> c.conn] \in [at : {"off", "armed", "fired"}, conn : Conns \union {None}]
    BY <1>1
  <2> QED
    BY <2>1, <2>2, <1>1, Types DEF WatchType, WatchOK, IInv
<1>6. sock' \in [Conns -> SockType] /\ \A d \in Conns : sock'[d].side = sock[d].side
  <2> DEFINE s == [sock[c.conn] EXCEPT !.req = Append(@, Tag(p))]
  <2>1. Append(sock[c.conn].req, Tag(p)) \in Seq(Tags)
    BY <1>1, TagType, AppendProperties DEF SockType
  <2>2. s \in SockType /\ s.side = sock[c.conn].side
    BY <1>1, <2>1 DEF SockType
  <2>3. sock' = sock \/ sock' = [sock EXCEPT ![c.conn] = s]
    BY Types DEF Send
  <2> HIDE DEF s
  <2> QED
    BY <1>1, <2>2, <2>3, Types
<1> HIDE DEF r
<1> QED
  BY <1>1, <1>2, <1>3, <1>4, <1>5, <1>6, Onward

LEMMA SendFailsKeeps == ASSUME IInv, NEW p \in Callers, SendFails(p) PROVE IInv'
<1> DEFINE c == caller[p]
           r == [c EXCEPT !.at = "release", !.err = "wire"]
<1>1. c \in CallType /\ CallOK(c) /\ c.at = "send" /\ c.conn \in Conns /\ UNCHANGED <<pool, sock>>
  BY CallerType, SomeConn DEF SendFails
<1>2. r \in CallType /\ r.at = "release" /\ r.conn = c.conn /\ r.doing = c.doing
  BY <1>1 DEF CallType
<1>3. c.doing \in {"call", "HELLO", "AUTH"}
  BY <1>1 DEF CallOK, HoldsAt
<1>4. caller' = [caller EXCEPT ![p] = r]
  BY Types DEF SendFails
<1>5. watch' \in WatchType /\ WatchOK'
  <2>1. watch' = [watch EXCEPT ![p] = [at |-> "armed", conn |-> c.conn]]
    BY DEF SendFails
  <2>2. [at |-> "armed", conn |-> c.conn] \in [at : {"off", "armed", "fired"}, conn : Conns \union {None}]
    BY <1>1
  <2> QED
    BY <2>1, <2>2, <1>1, Types DEF WatchType, WatchOK, IInv
<1> HIDE DEF r
<1> QED
  BY <1>1, <1>2, <1>3, <1>4, <1>5, Types, Onward

LEMMA ReadKeeps == ASSUME IInv, NEW p \in Callers, Read(p) PROVE IInv'
<1> DEFINE c == caller[p]
           k == c.conn
           r == [c EXCEPT !.at = "release", !.reply = Head(sock[k].rep)]
<1>1. /\ c \in CallType /\ CallOK(c) /\ c.at = "read" /\ UNCHANGED <<pool, watch>>
      /\ k \in Conns /\ sock[k] \in SockType /\ sock[k].rep # <<>>
  BY CallerType, SomeConn DEF Read
<1>2. Head(sock[k].rep) \in Answers /\ Tail(sock[k].rep) \in Seq(Answers)
  BY <1>1, HeadTailProperties DEF SockType
<1>3. r \in CallType /\ r.at = "release" /\ r.conn = c.conn /\ r.doing = c.doing
  BY <1>1, <1>2 DEF CallType
<1>4. c.doing \in {"call", "HELLO", "AUTH"}
  BY <1>1 DEF CallOK, HoldsAt
<1>5. caller' = [caller EXCEPT ![p] = r]
  BY Types DEF Read
<1>6. sock' \in [Conns -> SockType] /\ \A d \in Conns : sock'[d].side = sock[d].side
  <2> DEFINE s == [sock[k] EXCEPT !.rep = Tail(@)]
  <2>1. s \in SockType /\ s.side = sock[k].side
    BY <1>1, <1>2 DEF SockType
  <2>2. sock' = [sock EXCEPT ![k] = s]
    BY Types DEF Read
  <2> HIDE DEF s
  <2> QED
    BY <1>1, <2>1, <2>2, Types
<1> HIDE DEF r, k
<1> QED
  BY <1>1, <1>3, <1>4, <1>5, <1>6, WatchStays, Onward

LEMMA OutcomeType == ASSUME IInv, NEW p \in Callers, NEW b \in BOOLEAN PROVE Outcome(p, b) \in Errors
<1>1. caller[p].err \in Errors
  BY CallerType DEF CallType
<1> QED
  BY <1>1 DEF Outcome

(* The next exchange of a handshake, or the end of it.                     *)
LEMMA Handshaken ==
  ASSUME IInv, NEW p \in Callers, NEW place \in Places, NEW d \in Doings,
         caller' = [caller EXCEPT ![p].at = place, ![p].doing = d, ![p].reply = NoReply],
         UNCHANGED <<pool, sock>>, watch' \in WatchType, WatchOK',
         caller[p].at = "release", caller[p].doing \in {"HELLO", "AUTH"},
         (place = "send" /\ d = "AUTH") \/ (place = "adopt" /\ d = "call")
  PROVE  IInv'
<1> DEFINE c == caller[p]
           r == [c EXCEPT !.at = place, !.doing = d, !.reply = NoReply]
<1>1. c \in CallType /\ CallOK(c) /\ c.conn \in Conns /\ c.conn # None
  BY CallerType, SomeConn
<1>2. r \in CallType /\ r.at = place /\ r.conn = c.conn /\ r.doing = d
  BY <1>1, NoTagType DEF CallType
<1>3. caller' = [caller EXCEPT ![p] = r]
  BY Types
<1> HIDE DEF r
<1>4. CallOK(r)
  BY <1>1, <1>2 DEF CallOK, HoldsAt
<1>5. InHolders(r) = InHolders(c) /\ InBusy(r) = InBusy(c)
  BY <1>2 DEF InHolders, InBusy
<1>6. InCounted(r) = InCounted(c)
  BY <1>2 DEF InCounted, One
<1>7. Cover'
  <2>1. idle' = idle /\ r.at # "forget" /\ \A k \in Conns : sock'[k].side = "open" => sock[k].side = "open"
    BY <1>2 DEF pool
  <2>2. StillOpen(p, r)
    BY <2>1, <1>2 DEF StillOpen
  <2> QED
    BY <2>1, <2>2, <1>3, StillCovered
<1> QED
  BY <1>2, <1>3, <1>4, <1>5, <1>6, <1>7, Types, Works

LEMMA ReleaseKeeps == ASSUME IInv, NEW p \in Callers, Release(p) PROVE IInv'
<1> DEFINE b == watch[p].at = "fired"
           err == Outcome(p, b)
           c == caller[p]
<1>1. c.at = "release" /\ Judge(p, b) /\ watch' = [watch EXCEPT ![p] = NoWatch] /\ UNCHANGED pool
  BY DEF Release, Judge
<1>2. watch' \in WatchType /\ WatchOK'
  <2>1. NoWatch \in [at : {"off", "armed", "fired"}, conn : Conns \union {None}] /\ NoWatch.at = "off"
    BY DEF NoWatch
  <2> QED
    BY <2>1, <1>1, Types DEF WatchType, WatchOK, IInv
<1>3. err \in Errors
  BY OutcomeType
<1> HIDE DEF err
<1>4. c \in CallType /\ CallOK(c) /\ c.conn \in Conns /\ sock[c.conn] \in SockType
  BY <1>1, CallerType, SomeConn
<1>5. c.doing \in {"call", "HELLO", "AUTH"}
  BY <1>1, <1>4 DEF CallOK, HoldsAt
<1>6. CASE /\ c.doing = "call" /\ Fail(p, "put", err)
           /\ sock' = [sock EXCEPT ![c.conn].broken = Breaks(err)]
  <2> DEFINE r == [c EXCEPT !.at = "put", !.err = err]
             s == [sock[c.conn] EXCEPT !.broken = Breaks(err)]
  <2>1. r \in CallType /\ r.at = "put" /\ r.conn = c.conn /\ r.doing = c.doing
    BY <1>3, <1>4 DEF CallType
  <2>2. caller' = [caller EXCEPT ![p] = r] /\ sock' = [sock EXCEPT ![c.conn] = s]
    BY <1>6, Types
  <2>3. s \in SockType /\ s.side = sock[c.conn].side
    BY <1>4 DEF SockType, Breaks
  <2> HIDE DEF r, s
  <2>4. sock' \in [Conns -> SockType] /\ \A d \in Conns : sock'[d].side = sock[d].side
    BY <1>4, <2>2, <2>3, Types
  <2>5. /\ caller' = [caller EXCEPT ![p] = r] /\ UNCHANGED pool
        /\ r.doing = "call" /\ caller[p].at = "release"
        /\ \A d \in Conns : sock'[d].side = "open" => sock[d].side = "open"
    BY <1>1, <1>6, <2>1, <2>2, <2>4
  <2> QED
    BY <1>2, <2>1, <2>4, <2>5, Onward
<1>7. CASE c.doing # "call" /\ Drop(p, "redial", err) /\ sock' = [sock EXCEPT ![c.conn] = Hung(@)]
  BY <1>1, <1>2, <1>3, <1>7, HandshakeOver
<1>8. CASE /\ c.doing \in {"HELLO", "AUTH"} /\ UNCHANGED sock
           /\ \/ caller' = [caller EXCEPT ![p].at = "send", ![p].doing = "AUTH",
                                          ![p].reply = NoReply]
              \/ caller' = [caller EXCEPT ![p].at = "adopt", ![p].doing = "call",
                                          ![p].reply = NoReply]
  BY <1>1, <1>2, <1>8, Handshaken DEF Doings
<1>9. \/ /\ c.doing = "call" /\ Fail(p, "put", err)
         /\ sock' = [sock EXCEPT ![c.conn].broken = Breaks(err)]
      \/ c.doing # "call" /\ Drop(p, "redial", err) /\ sock' = [sock EXCEPT ![c.conn] = Hung(@)]
      \/ /\ c.doing \in {"HELLO", "AUTH"} /\ UNCHANGED sock
         /\ \/ caller' = [caller EXCEPT ![p].at = "send", ![p].doing = "AUTH",
                                        ![p].reply = NoReply]
            \/ caller' = [caller EXCEPT ![p].at = "adopt", ![p].doing = "call",
                                        ![p].reply = NoReply]
  BY <1>1 DEF Judge, err
<1> QED
  BY <1>6, <1>7, <1>8, <1>9

-----------------------------------------------------------------------------
(* The steps that take from the pool and give back                         *)

LEMMA TakeSlotKeeps == ASSUME IInv, NEW p \in Callers, TakeSlot(p) PROVE IInv'
<1> DEFINE c == caller[p]
           r == [c EXCEPT !.at = "take"]
<1>1. c \in CallType /\ CallOK(c) /\ c.at = "slot"
  BY CallerType DEF TakeSlot
<1>2. r \in CallType /\ r.at = "take" /\ r.conn = c.conn /\ r.doing = c.doing
  BY <1>1 DEF CallType
<1>3. caller' = [caller EXCEPT ![p] = r]
  BY Types DEF TakeSlot
<1> HIDE DEF r
<1>4. CallOK(r)
  BY <1>1, <1>2 DEF CallOK, HoldsAt
<1>5. InHolders(r) = 1 /\ InHolders(c) = 0 /\ InBusy(r) = 0 /\ InBusy(c) = 0
  BY <1>1, <1>2 DEF InHolders, InBusy, One
<1>6. InCounted(r) = InCounted(c) /\ InCounted(c) \in Int
  BY <1>1, <1>2 DEF InCounted, One
<1>7. /\ slots' = slots - 1 /\ slots' \in Nat /\ idle' = idle /\ closed' = closed /\ live' = live
      /\ UNCHANGED <<watch, sock>>
  BY Types DEF TakeSlot
<1>8. Cover'
  <2>1. StillOpen(p, r)
    BY <1>1, <1>2, <1>3, <1>7 DEF StillOpen
  <2> QED
    BY <2>1, <1>1, <1>2, <1>3, <1>7, StillCovered
<1>9. /\ slots' = slots - InHolders(r) + InHolders(c)
      /\ live' = live + (Len(idle') - Len(idle)) + (InCounted(r) - InCounted(c))
      /\ Len(idle') + InBusy(r) <= Len(idle) + InBusy(c)
  BY <1>5, <1>6, <1>7, Types
<1> QED
  BY <1>2, <1>3, <1>4, <1>7, <1>8, <1>9, WatchStays, Types, Advance DEF WatchType

LEMMA TakeIdleKeeps == ASSUME IInv, NEW p \in Callers, TakeIdle(p) PROVE IInv'
<1> DEFINE c == caller[p]
           k == Last(idle)
           r == [c EXCEPT !.at = "alive", !.conn = k]
<1>1. c \in CallType /\ CallOK(c) /\ c.at = "take" /\ idle # <<>>
  BY CallerType DEF TakeIdle
<1>2. Len(idle) \in Nat \ {0} /\ k = idle[Len(idle)] /\ k \in Conns /\ k # None
  BY <1>1, Types DEF Last
<1>3. c.conn = None /\ c.doing = None
  BY <1>1 DEF CallOK, HoldsAt
<1>4. r \in CallType /\ r.at = "alive" /\ r.conn = k /\ r.doing = None
  BY <1>1, <1>2, <1>3 DEF CallType
<1>5. caller' = [caller EXCEPT ![p] = r]
  BY Types DEF TakeIdle
<1>6. /\ idle' \in Seq(Conns) /\ Len(idle') = Len(idle) - 1
      /\ \A i \in 1 .. Len(idle) - 1 : idle'[i] = idle[i]
  <2> DEFINE n == Len(idle) - 1
  <2>1. n \in Nat /\ 1 \in Int /\ n \in Int /\ \A i \in 1 .. n : idle[i] \in Conns
    BY <1>2, Types
  <2>2. idle' = SubSeq(idle, 1, n)
    BY DEF TakeIdle, Front
  <2> HIDE DEF n
  <2>3. /\ SubSeq(idle, 1, n) \in Seq(Conns)
        /\ Len(SubSeq(idle, 1, n)) = IF 1 <= n THEN n - 1 + 1 ELSE 0
        /\ \A i \in 1 .. n - 1 + 1 : SubSeq(idle, 1, n)[i] = idle[1 + i - 1]
    BY <2>1, SubSeqProperties
  <2>4. Len(idle') = n /\ \A i \in 1 .. n : idle'[i] = idle[i]
    BY <2>1, <2>2, <2>3
  <2> QED
    BY <2>2, <2>3, <2>4 DEF n
<1>7. /\ slots' = slots /\ live' = live /\ closed' = closed /\ UNCHANGED <<watch, sock>>
  BY DEF TakeIdle
<1> HIDE DEF r, k
<1>8. CallOK(r)
  BY <1>2, <1>4 DEF CallOK, HoldsAt
<1>9. /\ InHolders(r) = 1 /\ InHolders(c) = 1 /\ InBusy(r) = 1 /\ InBusy(c) = 0
      /\ InCounted(r) = 1 /\ InCounted(c) = 0
  BY <1>1, <1>2, <1>3, <1>4 DEF InHolders, InBusy, InCounted, One, None
<1>10. Cover'
  <2> SUFFICES ASSUME NEW d \in Conns, sock[d].side = "open"
               PROVE  (\E i \in DOMAIN idle' : idle'[i] = d)
                        \/ \E q \in Callers : caller'[q].conn = d /\ caller'[q].at # "forget"
    BY <1>7 DEF Cover, Kept, With
  <2>1. CASE Kept(d)
    <3>1. PICK i \in DOMAIN idle : idle[i] = d
      BY <2>1 DEF Kept
    <3>2. i \in 1 .. Len(idle)
      BY <3>1, Types
    <3>3. CASE i = Len(idle)
      BY <3>1, <3>3, <1>2, <1>4, <1>5, Types
    <3>4. CASE i # Len(idle)
      <4>1. i \in 1 .. Len(idle) - 1
        BY <3>2, <3>4, <1>2
      <4>2. i \in DOMAIN idle'
        BY <4>1, <1>6
      <4> QED
        BY <4>1, <4>2, <1>6, <3>1
    <3> QED
      BY <3>3, <3>4
  <2>2. CASE With(d)
    BY <2>2, <1>3, <1>5, Types DEF With
  <2> QED
    BY <2>1, <2>2 DEF IInv, Cover
<1>11. /\ slots' = slots - InHolders(r) + InHolders(c)
       /\ live' = live + (Len(idle') - Len(idle)) + (InCounted(r) - InCounted(c))
       /\ Len(idle') + InBusy(r) <= Len(idle) + InBusy(c)
  BY <1>2, <1>6, <1>7, <1>9, Types
<1>12. closed' => idle' = <<>>
  BY <1>1, <1>7, Types
<1> QED
  BY <1>4, <1>5, <1>6, <1>7, <1>8, <1>10, <1>11, <1>12, WatchStays, Types, Advance DEF WatchType

LEMMA ForgetKeeps == ASSUME IInv, NEW p \in Callers, Forget(p) PROVE IInv'
<1> DEFINE c == caller[p]
           r == [c EXCEPT !.at = "take", !.err = None, !.conn = None]
<1>1. c \in CallType /\ CallOK(c) /\ c.at = "forget"
  BY CallerType DEF Forget
<1>2. c.conn # None /\ c.doing = None
  BY <1>1 DEF CallOK, HoldsAt
<1>3. r \in CallType /\ r.at = "take" /\ r.conn = None /\ r.doing = None
  BY <1>1, <1>2 DEF CallType
<1>4. caller' = [caller EXCEPT ![p] = r]
  BY Types DEF Forget
<1> HIDE DEF r
<1>5. /\ slots' = slots /\ live' = live - 1 /\ closed' = closed /\ idle' = idle
      /\ UNCHANGED <<watch, sock>>
  BY DEF Forget
<1>6. CallOK(r)
  BY <1>3 DEF CallOK, HoldsAt
<1>7. /\ InHolders(r) = 1 /\ InHolders(c) = 1 /\ InBusy(r) = 0 /\ InBusy(c) = 1
      /\ InCounted(r) = 0 /\ InCounted(c) = 1
  BY <1>1, <1>2, <1>3 DEF InHolders, InBusy, InCounted, One, None
<1>8. Cover'
  <2>1. StillOpen(p, r)
    BY <1>1, <1>4, <1>5 DEF StillOpen
  <2> QED
    BY <2>1, <1>1, <1>4, <1>5, StillCovered
<1>9. /\ slots' = slots - InHolders(r) + InHolders(c)
      /\ live' = live + (Len(idle') - Len(idle)) + (InCounted(r) - InCounted(c))
      /\ Len(idle') + InBusy(r) <= Len(idle) + InBusy(c) /\ live' \in Int
  BY <1>5, <1>7, Types
<1> QED
  BY <1>3, <1>4, <1>5, <1>6, <1>8, <1>9, WatchStays, Types, Advance DEF WatchType

LEMMA AdoptKeeps == ASSUME IInv, NEW p \in Callers, Adopt(p) PROVE IInv'
<1> DEFINE c == caller[p]
           r == [c EXCEPT !.at = "send"]
<1>1. c \in CallType /\ CallOK(c) /\ c.at = "adopt"
  BY CallerType DEF Adopt
<1>2. c.conn # None /\ c.doing = "call"
  BY <1>1 DEF CallOK, HoldsAt
<1>3. r \in CallType /\ r.at = "send" /\ r.conn = c.conn /\ r.doing = "call"
  BY <1>1, <1>2 DEF CallType
<1>4. caller' = [caller EXCEPT ![p] = r]
  BY Types DEF Adopt
<1> HIDE DEF r
<1>5. /\ slots' = slots /\ live' = live + 1 /\ closed' = closed /\ idle' = idle
      /\ UNCHANGED <<watch, sock>>
  BY DEF Adopt
<1>6. CallOK(r)
  BY <1>2, <1>3 DEF CallOK, HoldsAt
<1>7. /\ InHolders(r) = 1 /\ InHolders(c) = 1 /\ InBusy(r) = 1 /\ InBusy(c) = 1
      /\ InCounted(r) = 1 /\ InCounted(c) = 0
  BY <1>1, <1>2, <1>3 DEF InHolders, InBusy, InCounted, One
<1>8. Cover'
  <2>1. StillOpen(p, r)
    BY <1>1, <1>3, <1>4, <1>5 DEF StillOpen
  <2> QED
    BY <2>1, <1>1, <1>3, <1>4, <1>5, StillCovered
<1>9. /\ slots' = slots - InHolders(r) + InHolders(c)
      /\ live' = live + (Len(idle') - Len(idle)) + (InCounted(r) - InCounted(c))
      /\ Len(idle') + InBusy(r) <= Len(idle) + InBusy(c) /\ live' \in Int
  BY <1>5, <1>7, Types
<1> QED
  BY <1>3, <1>4, <1>5, <1>6, <1>8, <1>9, WatchStays, Types, Advance DEF WatchType

LEMMA UnslotKeeps == ASSUME IInv, NEW p \in Callers, Unslot(p) PROVE IInv'
<1> DEFINE c == caller[p]
           r == [c EXCEPT !.at = "answered"]
<1>1. c \in CallType /\ CallOK(c) /\ c.at = "unslot"
  BY CallerType DEF Unslot
<1>2. c.conn = None
  BY <1>1 DEF CallOK, HoldsAt
<1>3. r \in CallType /\ r.at = "answered" /\ r.conn = None /\ r.doing = c.doing
  BY <1>1, <1>2 DEF CallType
<1>4. caller' = [caller EXCEPT ![p] = r]
  BY Types DEF Unslot
<1> HIDE DEF r
<1>5. slots < PoolSize
  <2>1. p \in Holders /\ IsFiniteSet(Holders)
    BY <1>1, CountedSets DEF Holders
  <2>2. Cardinality(Holders) # 0
    BY <2>1, FS_EmptySet
  <2>3. slots + Cardinality(Holders) = PoolSize
    BY DEF IInv, Tally
  <2> DEFINE h == Cardinality(Holders)
  <2>4. h \in Nat /\ h # 0 /\ slots + h = PoolSize
    BY <2>2, <2>3, CountedSets
  <2> HIDE DEF h
  <2> QED
    BY <2>4, Types
<1>6. /\ slots' = slots + 1 /\ live' = live /\ closed' = closed /\ idle' = idle
      /\ UNCHANGED <<watch, sock>>
  BY <1>5 DEF Unslot
<1>7. CallOK(r)
  BY <1>3 DEF CallOK, HoldsAt
<1>8. /\ InHolders(r) = 0 /\ InHolders(c) = 1 /\ InBusy(r) = 0 /\ InBusy(c) = 0
      /\ InCounted(r) = 0 /\ InCounted(c) = 0
  BY <1>1, <1>2, <1>3 DEF InHolders, InBusy, InCounted, One
<1>9. Cover'
  <2>1. StillOpen(p, r)
    BY <1>1, <1>2, <1>4, <1>6 DEF StillOpen
  <2> QED
    BY <2>1, <1>1, <1>2, <1>4, <1>6, StillCovered
<1>10. /\ slots' = slots - InHolders(r) + InHolders(c) /\ slots' \in Nat
       /\ live' = live + (Len(idle') - Len(idle)) + (InCounted(r) - InCounted(c))
       /\ Len(idle') + InBusy(r) <= Len(idle) + InBusy(c)
  BY <1>6, <1>8, Types
<1> QED
  BY <1>3, <1>4, <1>6, <1>7, <1>9, <1>10, WatchStays, Types, Advance DEF WatchType

LEMMA PutKeeps == ASSUME IInv, NEW p \in Callers, Put(p) PROVE IInv'
<1> DEFINE c == caller[p]
           k == c.conn
           r == [c EXCEPT !.at = "unslot", !.conn = None]
<1>1. c \in CallType /\ CallOK(c) /\ c.at = "put" /\ k \in Conns /\ k # None
  BY CallerType, SomeConn DEF Put
<1>2. c.doing = "call"
  BY <1>1 DEF CallOK, HoldsAt
<1>3. r \in CallType /\ r.at = "unslot" /\ r.conn = None /\ r.doing = "call"
  BY <1>1, <1>2 DEF CallType
<1>4. caller' = [caller EXCEPT ![p] = r]
  BY Types DEF Put, Return
<1>5. /\ slots' = slots /\ closed' = closed /\ UNCHANGED watch
      /\ \/ /\ closed \/ sock[k].broken
            /\ live' = live - 1 /\ idle' = idle /\ sock' = [sock EXCEPT ![k] = Hung(@)]
         \/ ~closed /\ idle' = Append(idle, k) /\ live' = live /\ sock' = sock
  BY DEF Put
<1> HIDE DEF r, k
<1>6. CallOK(r)
  BY <1>3 DEF CallOK, HoldsAt
<1>7. /\ InHolders(r) = 1 /\ InHolders(c) = 1 /\ InBusy(r) = 0 /\ InBusy(c) = 1
      /\ InCounted(r) = 0 /\ InCounted(c) = 1
  <2>1. c.conn # None
    BY <1>1 DEF k
  <2> QED
    BY <1>1, <1>2, <1>3, <2>1 DEF InHolders, InBusy, InCounted, One
<1>8. CASE live' = live - 1 /\ idle' = idle /\ sock' = [sock EXCEPT ![k] = Hung(@)]
  <2>1. /\ sock' \in [Conns -> SockType]
        /\ \A d \in Conns : sock'[d].side = "open" => sock[d].side = "open" /\ d # c.conn
    BY <1>1, <1>8, Types, HungType DEF k
  <2>2. Cover'
    <3>1. StillOpen(p, r)
      BY <1>4, <1>8, <2>1 DEF StillOpen
    <3> QED
      BY <3>1, <1>4, <1>8, <2>1, StillCovered
  <2>3. /\ slots' = slots - InHolders(r) + InHolders(c)
        /\ live' = live + (Len(idle') - Len(idle)) + (InCounted(r) - InCounted(c))
        /\ Len(idle') + InBusy(r) <= Len(idle) + InBusy(c) /\ live' \in Int
    BY <1>5, <1>7, <1>8, Types
  <2> QED
    BY <1>3, <1>4, <1>5, <1>6, <1>8, <2>1, <2>2, <2>3, WatchStays, Types, Advance DEF WatchType
<1>9. CASE ~closed /\ idle' = Append(idle, k) /\ live' = live /\ sock' = sock
  <2>1. /\ idle' \in Seq(Conns) /\ Len(idle') = Len(idle) + 1 /\ idle'[Len(idle) + 1] = k
        /\ \A i \in 1 .. Len(idle) : idle'[i] = idle[i]
    BY <1>1, <1>9, Types, AppendProperties
  <2>2. Cover'
    <3> SUFFICES ASSUME NEW d \in Conns, sock[d].side = "open"
                 PROVE  (\E i \in DOMAIN idle' : idle'[i] = d)
                          \/ \E q \in Callers : caller'[q].conn = d /\ caller'[q].at # "forget"
      BY <1>9 DEF Cover, Kept, With
    <3>1. DOMAIN idle' = 1 .. Len(idle) + 1 /\ DOMAIN idle = 1 .. Len(idle)
      BY <2>1, Types
    <3>2. CASE Kept(d)
      <4>1. PICK i \in 1 .. Len(idle) : idle[i] = d
        BY <3>1, <3>2 DEF Kept
      <4>2. i \in 1 .. Len(idle) + 1
        BY <4>1, Types
      <4> QED
        BY <4>1, <4>2, <3>1, <2>1
    <3>3. CASE With(d)
      <4>1. CASE d = k
        <5>1. Len(idle) + 1 \in 1 .. Len(idle) + 1
          BY Types
        <5> QED
          BY <4>1, <5>1, <3>1, <2>1
      <4>2. CASE d # k
        <5>1. PICK q \in Callers : caller[q].conn = d /\ caller[q].at # "forget"
          BY <3>3 DEF With
        <5>2. q # p
          BY <4>2, <5>1 DEF k
        <5> QED
          BY <5>1, <5>2, <1>4, Types
      <4> QED
        BY <4>1, <4>2
    <3> QED
      BY <3>2, <3>3 DEF IInv, Cover
  <2>3. /\ slots' = slots - InHolders(r) + InHolders(c)
        /\ live' = live + (Len(idle') - Len(idle)) + (InCounted(r) - InCounted(c))
        /\ Len(idle') + InBusy(r) <= Len(idle) + InBusy(c)
    BY <1>5, <1>7, <1>9, <2>1, Types
  <2> QED
    BY <1>3, <1>4, <1>5, <1>6, <1>9, <2>1, <2>2, <2>3, WatchStays, Types, Advance DEF WatchType
<1> QED
  BY <1>5, <1>8, <1>9

-----------------------------------------------------------------------------
(* The steps of nobody's call                                              *)

LEMMA Aside ==
  ASSUME IInv, UNCHANGED <<pool, caller>>, watch' \in WatchType, WatchOK',
         sock' \in [Conns -> SockType],
         \A c \in Conns : sock'[c].side = "open" => sock[c].side = "open"
  PROVE  IInv'
<1>1. slots' = slots /\ idle' = idle /\ closed' = closed /\ live' = live
  BY DEF pool
<1>2. Busy' = Busy /\ Holders' = Holders /\ Counted' = Counted
  BY DEF Busy, Holders, Counted
<1>3. PoolType'
  BY <1>1, Types DEF PoolType, WatchType
<1>4. CallsOK' /\ Tally'
  BY <1>1, <1>2 DEF IInv, CallsOK, Tally
<1>5. Cover'
  BY <1>1 DEF IInv, Cover, Kept, With
<1> QED
  BY <1>3, <1>4, <1>5 DEF IInv

LEMMA WatchKeeps == ASSUME IInv, NEW p \in Callers, Watch(p) PROVE IInv'
<1> DEFINE k == watch[p].conn
           s == [sock[k] EXCEPT !.expired = TRUE]
           w == [watch[p] EXCEPT !.at = "fired"]
<1>1. watch[p].at # "off" /\ UNCHANGED <<pool, caller>>
  BY DEF Watch
<1>2. k \in Conns /\ sock[k] \in SockType
  BY <1>1, Types DEF IInv, WatchOK
<1>3. /\ w \in [at : {"off", "armed", "fired"}, conn : Conns \union {None}] /\ w.conn = k
      /\ s \in SockType /\ s.side = sock[k].side
  <2>1. watch[p] \in [at : {"off", "armed", "fired"}, conn : Conns \union {None}]
    BY Types DEF WatchType
  <2>2. w \in [at : {"off", "armed", "fired"}, conn : Conns \union {None}] /\ w.conn = k
    BY <2>1
  <2>3. s \in SockType /\ s.side = sock[k].side
    BY <1>2 DEF SockType
  <2> QED
    BY <2>2, <2>3
<1>4. watch' = [watch EXCEPT ![p] = w] /\ sock' = [sock EXCEPT ![k] = s]
  BY Types DEF Watch, WatchType
<1> HIDE DEF w, s, k
<1>5. watch' \in WatchType /\ WatchOK'
  BY <1>2, <1>3, <1>4, Types DEF WatchType, WatchOK, IInv
<1>6. sock' \in [Conns -> SockType] /\ \A d \in Conns : sock'[d].side = sock[d].side
  BY <1>2, <1>3, <1>4, Types
<1> QED
  BY <1>1, <1>5, <1>6, Aside

LEMMA CancelKeeps == ASSUME IInv, NEW p \in Callers, Cancel(p) PROVE IInv'
<1>1. UNCHANGED <<pool, caller, watch, sock>>
  BY DEF Cancel
<1> QED
  BY <1>1, WatchStays, Types, Aside

LEMMA HangUpKeeps == ASSUME IInv, NEW k \in Conns, HangUp(k) PROVE IInv'
<1> DEFINE s == [sock[k] EXCEPT !.srv = "gone", !.req = <<>>]
<1>1. sock[k] \in SockType /\ <<>> \in Seq(Tags)
  BY Types
<1>2. s \in SockType /\ s.side = sock[k].side
  BY <1>1 DEF SockType
<1>3. sock' = [sock EXCEPT ![k] = s] /\ UNCHANGED <<pool, caller, watch>>
  BY Types DEF HangUp
<1> HIDE DEF s
<1>4. sock' \in [Conns -> SockType] /\ \A d \in Conns : sock'[d].side = sock[d].side
  BY <1>2, <1>3, Types
<1> QED
  BY <1>3, <1>4, WatchStays, Aside

LEMMA ServeKeeps == ASSUME IInv, NEW k \in Conns, Serve(k) PROVE IInv'
<1> DEFINE tag == Head(sock[k].req)
<1>1. sock[k] \in SockType /\ sock[k].req # <<>> /\ UNCHANGED <<pool, caller, watch>>
  BY Types DEF Serve
<1>2. tag \in Tags /\ Tail(sock[k].req) \in Seq(Tags)
  BY <1>1, HeadTailProperties DEF SockType
<1>3. PICK kind \in Kinds(tag.what), n \in {0, 1} :
        sock' = [sock EXCEPT ![k].req = Tail(@),
                             ![k].rep = IF sock[k].side = "closed" THEN @
                                        ELSE Append(@, [tag |-> tag, kind |-> kind, n |-> n])]
  <2>1. PICK kind \in Kinds(tag.what) :
          LET hit == kind = "ok" /\ Applies(tag.what)
          IN  sock' = [sock EXCEPT
                ![k].req = Tail(@),
                ![k].rep = IF sock[k].side = "closed" THEN @
                           ELSE Append(@, [tag |-> tag, kind |-> kind,
                                           n |-> IF hit THEN 1 ELSE 0])]
    BY DEF Serve
  <2> QED
    BY <2>1
<1> DEFINE answer == [tag |-> tag, kind |-> kind, n |-> n]
           s == [sock[k] EXCEPT !.req = Tail(sock[k].req),
                                !.rep = IF sock[k].side = "closed" THEN sock[k].rep
                                        ELSE Append(sock[k].rep, answer)]
<1>4. answer \in Answers
  BY <1>2 DEF Answers, Outcomes, Kinds
<1>5. Append(sock[k].rep, answer) \in Seq(Answers)
  BY <1>1, <1>4, AppendProperties DEF SockType
<1>6. s \in SockType /\ s.side = sock[k].side
  BY <1>1, <1>2, <1>5 DEF SockType
<1>7. sock' = [sock EXCEPT ![k] = s]
  BY <1>1, <1>3, Types DEF SockType
<1> HIDE DEF s
<1>8. sock' \in [Conns -> SockType] /\ \A d \in Conns : sock'[d].side = sock[d].side
  BY <1>6, <1>7, Types
<1> QED
  BY <1>1, <1>8, WatchStays, Aside

LEMMA CloseKeeps == ASSUME IInv, Close PROVE IInv'
<1>1. /\ closed' = TRUE /\ idle' = <<>> /\ live' = live - Len(idle) /\ slots' = slots
      /\ caller' = caller /\ watch' = watch
      /\ sock' = [c \in Conns |-> IF Contains(idle, c) THEN Hung(sock[c]) ELSE sock[c]]
  BY DEF Close
<1>2. Busy' = Busy /\ Holders' = Holders /\ Counted' = Counted
  BY <1>1 DEF Busy, Holders, Counted
<1>3. \A c \in Conns : Hung(sock[c]) \in SockType /\ Hung(sock[c]).side = "closed"
  <2> TAKE c \in Conns
  <2>1. sock[c] \in SockType /\ <<>> \in Seq(Answers)
    BY Types
  <2> QED
    BY <2>1 DEF Hung, SockType
<1>4. sock' \in [Conns -> SockType]
  BY <1>1, <1>3, Types
<1>5. PoolType'
  <2>1. live' \in Int /\ idle' \in Seq(Conns)
    BY <1>1, Types
  <2> QED
    BY <1>1, <1>4, <2>1, Types DEF PoolType, WatchType
<1>6. CallsOK' /\ WatchOK'
  BY <1>1 DEF IInv, CallsOK, WatchOK
<1>7. Tally'
  <2> DEFINE h == Cardinality(Holders)
             k == Cardinality(Counted)
             b == Cardinality(Busy)
             n == Len(idle)
  <2>1. /\ slots + h = PoolSize /\ live = n + k /\ n + b <= PoolSize
        /\ h \in Nat /\ k \in Nat /\ b \in Nat /\ n \in Nat /\ slots \in Nat /\ live \in Int
    BY CountedSets, Types DEF IInv, Tally
  <2>2. /\ Cardinality(Holders)' = h /\ Cardinality(Counted)' = k /\ Cardinality(Busy)' = b
        /\ slots' = slots /\ live' = live - n /\ Len(idle') = 0 /\ idle' = <<>>
    BY <1>1, <1>2
  <2> HIDE DEF h, k, b, n
  <2>3. slots' + Cardinality(Holders)' = PoolSize /\ live' = 0 + Cardinality(Counted)'
    BY <2>1, <2>2
  <2>4. 0 + Cardinality(Busy)' <= PoolSize
    BY <2>1, <2>2
  <2> QED
    BY <2>2, <2>3, <2>4 DEF Tally
<1>8. Cover'
  <2> SUFFICES ASSUME NEW d \in Conns, sock'[d].side = "open"
               PROVE  With(d)
    BY <1>1 DEF Cover, With
  <2>1. ~Contains(idle, d) /\ sock[d].side = "open"
    BY <1>1, <1>3
  <2>2. ~Kept(d)
    BY <2>1, Types DEF Kept, Contains
  <2> QED
    BY <2>1, <2>2 DEF IInv, Cover
<1> QED
  BY <1>5, <1>6, <1>7, <1>8 DEF IInv

-----------------------------------------------------------------------------
LEMMA InitHolds == Init => IInv
<1> SUFFICES ASSUME Init PROVE IInv
  OBVIOUS
<1>1. PoolType
  <2>1. Unused \in SockType
    <3>1. <<>> \in Seq(Tags) /\ <<>> \in Seq(Answers)
      OBVIOUS
    <3> QED
      BY <3>1 DEF Unused, SockType
  <2>2. NoWatch \in [at : {"off", "armed", "fired"}, conn : Conns \union {None}]
    BY DEF NoWatch
  <2>3. slots \in Nat /\ closed \in BOOLEAN /\ live \in Int
    <3>1. slots = PoolSize /\ live = 0
      BY DEF Init
    <3>2. closed \in BOOLEAN
      BY DEF Init
    <3>3. slots \in Nat /\ live \in Int
      BY <3>1
    <3> QED
      BY <3>2, <3>3
  <2>4. idle \in Seq(Conns)
    BY DEF Init
  <2> QED
    BY <2>1, <2>2, <2>3, <2>4, NoTagType DEF Init, PoolType
<1>2. CallsOK /\ WatchOK
  BY DEF Init, CallsOK, CallOK, HoldsAt, WatchOK, NoCall, NoWatch
<1>3. Cover
  BY DEF Init, Cover, Unused
<1>4. Busy = {} /\ Holders = {} /\ Counted = {}
  BY DEF Init, Busy, Holders, Counted, NoCall
<1>5. Tally
  <2>1. Cardinality(Busy) = 0 /\ Cardinality(Holders) = 0 /\ Cardinality(Counted) = 0
    BY <1>4, FS_EmptySet
  <2>2. Len(idle) = 0 /\ slots = PoolSize /\ live = 0 /\ idle = <<>>
    BY DEF Init
  <2> QED
    BY <2>1, <2>2 DEF Tally
<1> QED
  BY <1>1, <1>2, <1>3, <1>5 DEF IInv

LEMMA StepKeeps == ASSUME IInv, NEW p \in Callers, Step(p) PROVE IInv'
BY GetKeeps, TakeSlotKeeps, SlotGivenUpKeeps, TakeIdleKeeps, NoIdleKeeps, AliveKeeps, ForgetKeeps,
   CheckKeeps, DialFailsKeeps, RedialKeeps, DialGivenUpKeeps, DialKeeps, NotSentKeeps, SendKeeps,
   SendFailsKeeps, ReadKeeps, ReadFailsKeeps, ReleaseKeeps, AdoptKeeps, PutKeeps, UnslotKeeps,
   AnsweredKeeps, BackoffKeeps DEF Step

LEMMA NextKeeps == ASSUME IInv, [Next]_vars PROVE IInv'
<1>1. CASE UNCHANGED vars
  <2>1. UNCHANGED <<pool, caller, watch, sock>>
    BY <1>1 DEF vars
  <2> QED
    BY <2>1, WatchStays, Types, Aside
<1>2. CASE Next
  BY <1>2, StepKeeps, WatchKeeps, CancelKeeps, StartKeeps, ServeKeeps, HangUpKeeps, CloseKeeps
     DEF Next
<1> QED
  BY <1>1, <1>2

(* A finite set has at least as many elements as its image.                *)
LEMMA ImageBounded ==
  ASSUME NEW S, IsFiniteSet(S), NEW f, f = [x \in S |-> f[x]]
  PROVE  /\ IsFiniteSet({f[x] : x \in S})
         /\ Cardinality({f[x] : x \in S}) <= Cardinality(S)
<1> DEFINE T == {f[x] : x \in S}
<1>1. f \in [S -> T] /\ \A t \in T : \E x \in S : f[x] = t
  OBVIOUS
<1> HIDE DEF T
<1>2. f \in Surjection(S, T)
  BY <1>1 DEF Surjection
<1>3. IsFiniteSet(T) /\ Cardinality(T) <= Cardinality(S)
  BY <1>2, FS_Surjection
<1> QED
  BY <1>3 DEF T

(* The connections that are open are at most the ones in the pool and one  *)
(* for each busy caller.                                                   *)
LEMMA OpenBounded ==
  ASSUME IInv
  PROVE  Cardinality({c \in Conns : sock[c].side = "open"}) <= PoolSize
<1> DEFINE I == {idle[i] : i \in 1 .. Len(idle)}
           B == {caller[p].conn : p \in Busy}
           O == {c \in Conns : sock[c].side = "open"}
           n == Len(idle)
           b == Cardinality(Busy)
<1>1. O \subseteq I \union B
  <2> SUFFICES ASSUME NEW c \in O PROVE c \in I \/ c \in B
    OBVIOUS
  <2>1. CASE Kept(c)
    BY <2>1, Types DEF Kept
  <2>2. CASE With(c)
    <3>1. PICK p \in Callers : caller[p].conn = c /\ caller[p].at # "forget"
      BY <2>2 DEF With
    <3>2. c # None
      OBVIOUS
    <3>3. p \in Busy
      BY <3>1, <3>2, CallerType DEF CallOK, HoldsAt, Busy
    <3> QED
      BY <3>1, <3>3
  <2> QED
    BY <2>1, <2>2 DEF IInv, Cover
<1>2. IsFiniteSet(I) /\ Cardinality(I) <= n /\ Cardinality(I) \in Nat
  <2>1. n \in Nat
    BY Types
  <2> HIDE DEF n
  <2> DEFINE D == 1 .. n
  <2>2. IsFiniteSet(D) /\ Cardinality(D) = n
    BY <2>1, FS_Interval
  <2> HIDE DEF D
  <2>3. /\ IsFiniteSet({idle[i] : i \in D})
        /\ Cardinality({idle[i] : i \in D}) <= Cardinality(D)
    <3> DEFINE f == [i \in D |-> idle[i]]
    <3>1. {f[i] : i \in D} = {idle[i] : i \in D} /\ f = [i \in D |-> f[i]]
      OBVIOUS
    <3> HIDE DEF f
    <3> QED
      BY <2>2, <3>1, ImageBounded
  <2> QED
    BY <2>2, <2>3, FS_CardinalityType DEF D, n
<1>3. IsFiniteSet(B) /\ Cardinality(B) <= b /\ Cardinality(B) \in Nat
  <2> DEFINE f == [p \in Busy |-> caller[p].conn]
  <2>1. {f[p] : p \in Busy} = B /\ f = [p \in Busy |-> f[p]]
    OBVIOUS
  <2> HIDE DEF f, B
  <2>2. IsFiniteSet(B) /\ Cardinality(B) <= b
    BY <2>1, CountedSets, ImageBounded
  <2> QED
    BY <2>2, FS_CardinalityType
<1> HIDE DEF I, B, O, n, b
<1>4. IsFiniteSet(I \union B) /\ Cardinality(I \union B) <= Cardinality(I) + Cardinality(B)
  <2>1. /\ IsFiniteSet(I \union B) /\ IsFiniteSet(I \intersect B)
        /\ Cardinality(I \union B) = Cardinality(I) + Cardinality(B) - Cardinality(I \intersect B)
    BY <1>2, <1>3, FS_Union, FS_Intersection
  <2>2. Cardinality(I \intersect B) \in Nat
    BY <2>1, FS_CardinalityType
  <2> QED
    BY <2>1, <2>2, <1>2, <1>3
<1>5. IsFiniteSet(O) /\ Cardinality(O) <= Cardinality(I \union B)
  BY <1>1, <1>4, FS_Subset
<1>6. Cardinality(O) \in Nat /\ Cardinality(I \union B) \in Nat
  BY <1>4, <1>5, FS_CardinalityType
<1>7. n + b <= PoolSize /\ n \in Nat /\ b \in Nat
  BY CountedSets, Types DEF IInv, Tally, n, b
<1>8. Cardinality(O) <= PoolSize
  BY <1>2, <1>3, <1>4, <1>5, <1>6, <1>7
<1> QED
  BY <1>8 DEF O

LEMMA InvImplies == IInv => Ceiling
<1> SUFFICES ASSUME IInv PROVE Ceiling
  OBVIOUS
<1>1. ASSUME closed, Busy = {}, NEW c \in Conns PROVE sock[c].side = "closed"
  <2>1. ~Kept(c)
    BY <1>1, Types DEF Kept
  <2>2. ~With(c)
    <3> SUFFICES ASSUME NEW p \in Callers, caller[p].conn = c, caller[p].at # "forget" PROVE FALSE
      BY DEF With
    <3>1. p \in Busy
      BY CallerType DEF CallOK, HoldsAt, Busy
    <3> QED
      BY <3>1, <1>1
  <2>3. sock[c].side \in {"open", "closed"}
    BY Types DEF SockType
  <2> QED
    BY <2>1, <2>2, <2>3 DEF IInv, Cover
<1> QED
  BY <1>1, OpenBounded DEF IInv, Tally, Ceiling

(* pool.go: the pool never opens a connection beyond its size, every slot  *)
(* is free or held by one caller, live is the number of open connections   *)
(* the pool answers for, and a closed pool that nobody uses has left none  *)
(* open, for any number of callers, of sockets and of connections, and any *)
(* number of retries.                                                      *)
THEOREM CeilingAlways == Spec => []Ceiling
<1>1. Init => IInv
  BY InitHolds
<1>2. IInv /\ [Next]_vars => IInv'
  BY NextKeeps
<1>3. IInv => Ceiling
  BY InvImplies
<1> QED
  BY <1>1, <1>2, <1>3, PTL DEF Spec

-----------------------------------------------------------------------------
(* Whose connection it is, and what is on it                               *)

HIDE DEF Places, Errors, BusyPlaces

Has(c) == c.conn # None /\ c.at # "forget"

(* A connection that is open is in the pool once, or with one caller.      *)
Alone ==
  /\ \A i, j \in DOMAIN idle : idle[i] = idle[j] => i = j
  /\ \A i \in DOMAIN idle, p \in Callers : Has(caller[p]) => caller[p].conn # idle[i]
  /\ \A p, q \in Callers : Has(caller[p]) /\ Has(caller[q]) /\ caller[p].conn = caller[q].conn => p = q
  /\ \A p \in Callers : Has(caller[p]) => sock[caller[p].conn].side = "open"

Clean(s) == ~s.broken /\ ~s.expired /\ s.req = <<>> /\ s.rep = <<>>
AtRest == \A i \in DOMAIN idle : sock[idle[i]].side = "open" /\ Clean(sock[idle[i]])

(* What the caller p asks in the state c of its call.                      *)
TagOf(p, c) == [by |-> p, nth |-> c.nth, try |-> c.try,
                what |-> IF c.doing = "call" THEN c.method ELSE c.doing]

Greeted(s) ==
  /\ ~s.broken /\ ~s.expired /\ s.req = <<>>
  /\ s.rep = <<>> \/ (s.rep = <<Refusal>> /\ s.srv = "gone")

(* One round trip: the request is on its way, or the reply is, or neither  *)
(* once the server is gone; a refusal takes the place of the first reply.  *)
UnderWay(p, c, s) ==
  \/ s.req = <<>> /\ s.rep = <<>>
  \/ s.req = <<TagOf(p, c)>> /\ s.rep = <<>>
  \/ s.req = <<>> /\ \E a \in Answers : s.rep = <<a>> /\ a.tag = TagOf(p, c)
  \/ s.req = <<>> /\ s.rep = <<Refusal>> /\ s.srv = "gone" /\ c.doing = "HELLO"

(* What is on the connection of a caller p, at every place of its call; an *)
(* interrupt that has landed is one that its watcher knows of.             *)
OnWire(p, c, w, s) ==
  /\ c.at \in {"alive", "adopt"} => Clean(s)
  /\ c.at = "send" => IF c.doing = "HELLO" THEN Greeted(s) ELSE Clean(s)
  /\ c.at = "read" => ~s.broken /\ (s.expired => w.at = "fired") /\ UnderWay(p, c, s)
  /\ c.at = "release" =>
       /\ ~s.broken /\ (s.expired => w.at = "fired")
       /\ c.err = None => s.req = <<>> /\ s.rep = <<>>
  /\ c.at = "put" => s.broken \/ Clean(s)

Framed(p, c, w, s) ==
  /\ w.at # "off" => c.at \in {"read", "release"} /\ w.conn = c.conn
  /\ c.doing = None => c.reply = NoReply
  /\ c.doing = "call" /\ c.at \in {"adopt", "send", "read"} => c.reply = NoReply
  /\ c.doing = "call" /\ c.reply # NoReply => c.reply.tag = TagOf(p, c)
  /\ Has(c) => OnWire(p, c, w, s)

Framing == \A p \in Callers : Framed(p, caller[p], watch[p], sock[caller[p].conn])

JInv == IInv /\ Alone /\ AtRest /\ Framing

LEMMA HeldConn ==
  ASSUME IInv, NEW p \in Callers, Has(caller[p])
  PROVE  caller[p].conn \in Conns
BY CallerType DEF CallType, Has

(* A step of the caller p that disturbs no connection but its own, or one  *)
(* that was closed.                                                        *)
LEMMA Local ==
  ASSUME JInv, IInv', NEW p \in Callers, NEW r, caller' = [caller EXCEPT ![p] = r], idle' = idle,
         \A q \in Callers : q # p => watch'[q] = watch[q],
         NEW k, \A c \in Conns : c # k => sock'[c] = sock[c],
         k \in Conns => (Has(caller[p]) /\ caller[p].conn = k) \/ sock[k].side = "closed",
         Has(r) => r.conn = k /\ k \in Conns /\ sock'[k].side = "open",
         Framed(p, r, watch'[p], sock'[r.conn])
  PROVE  JInv'
<1>1. IInv /\ Alone /\ AtRest /\ Framing
  BY DEF JInv
<1>2. caller'[p] = r /\ \A q \in Callers : q # p => caller'[q] = caller[q]
  BY <1>1, Types
<1>3. ASSUME NEW q \in Callers, q # p, Has(caller[q])
      PROVE  caller[q].conn # k /\ sock'[caller[q].conn] = sock[caller[q].conn]
             /\ caller[q].conn \in Conns
  BY <1>1, <1>3, HeldConn DEF Alone
<1>4. ASSUME NEW i \in DOMAIN idle PROVE idle[i] # k /\ sock'[idle[i]] = sock[idle[i]]
  <2>1. idle[i] \in Conns
    BY <1>1, Types
  <2> QED
    BY <1>1, <2>1 DEF Alone, AtRest
<1>5. Alone'
  BY <1>1, <1>2, <1>3, <1>4 DEF Alone
<1>6. AtRest'
  BY <1>1, <1>4 DEF AtRest
<1>7. Framing'
  <2> SUFFICES ASSUME NEW q \in Callers PROVE Framed(q, caller'[q], watch'[q], sock'[caller'[q].conn])
    BY DEF Framing, Framed, OnWire, UnderWay, Greeted, Clean, Has, TagOf
  <2>1. CASE q = p
    BY <1>2, <2>1
  <2>2. CASE q # p /\ Has(caller[q])
    BY <1>1, <1>2, <1>3, <2>2 DEF Framing
  <2>3. CASE q # p /\ ~Has(caller[q])
    BY <1>1, <1>2, <2>3 DEF Framing, Framed
  <2> QED
    BY <2>1, <2>2, <2>3
<1> QED
  BY <1>5, <1>6, <1>7 DEF JInv

(* A caller that only moves on, with the connection it had, if any.        *)
LEMMA Shift ==
  ASSUME JInv, IInv', NEW p \in Callers, NEW r, caller' = [caller EXCEPT ![p] = r], idle' = idle,
         watch' = watch, sock' = sock,
         Has(r) => Has(caller[p]) /\ r.conn = caller[p].conn,
         Framed(p, r, watch[p], sock[r.conn])
  PROVE  JInv'
<1>1. CASE Has(r)
  <2>1. r.conn \in Conns /\ sock[r.conn].side = "open"
    BY <1>1, HeldConn DEF JInv, Alone
  <2> QED
    BY <1>1, <2>1, Local
<1>2. CASE ~Has(r)
  BY <1>2, Local
<1> QED
  BY <1>1, <1>2

LEMMA ShiftOff ==
  ASSUME JInv, IInv', NEW p \in Callers, NEW r, caller' = [caller EXCEPT ![p] = r], idle' = idle,
         \A q \in Callers : q # p => watch'[q] = watch[q], sock' = sock,
         Has(caller[p]), r.conn = caller[p].conn,
         Framed(p, r, watch'[p], sock'[r.conn])
  PROVE  JInv'
<1> DEFINE k == caller[p].conn
<1>1. k \in Conns /\ sock[k].side = "open" /\ r.conn = k /\ k = caller[p].conn
  BY HeldConn DEF JInv, Alone
<1> HIDE DEF k
<1>2. /\ k \in Conns => (Has(caller[p]) /\ caller[p].conn = k) \/ sock[k].side = "closed"
      /\ Has(r) => r.conn = k /\ k \in Conns /\ sock'[k].side = "open"
      /\ \A c \in Conns : c # k => sock'[c] = sock[c]
  BY <1>1
<1> QED
  BY <1>2, Local

(* A caller without a connection.                                          *)
LEMMA Outside ==
  ASSUME JInv, IInv', NEW p \in Callers, NEW r, caller' = [caller EXCEPT ![p] = r], idle' = idle,
         watch' = watch, sock' = sock,
         r.conn = None, r.at \notin {"adopt", "send", "read"}, caller[p].at \notin {"read", "release"},
         \/ r.doing = None /\ r.reply = NoReply
         \/ /\ r.doing = caller[p].doing /\ r.reply = caller[p].reply
            /\ r.nth = caller[p].nth /\ r.try = caller[p].try /\ r.method = caller[p].method
  PROVE  JInv'
<1>1. Framed(p, caller[p], watch[p], sock[caller[p].conn])
  BY DEF JInv, Framing
<1>2. Framed(p, r, watch[p], sock[r.conn]) /\ ~Has(r)
  BY <1>1 DEF Framed, Has, TagOf
<1> QED
  BY <1>2, Shift

(* Go, Fail and Drop of a caller without a connection, or about to drop    *)
(* the one it has hung up.                                                 *)
LEMMA GoOutside ==
  ASSUME JInv, IInv', NEW p \in Callers, NEW place \in Places, NEW e \in Errors,
         \/ caller[p].conn = None /\ (Go(p, place) \/ Fail(p, place, e))
         \/ Drop(p, place, e),
         idle' = idle, watch' = watch, sock' = sock,
         place \notin {"adopt", "send", "read"}, caller[p].at \notin {"read", "release"}
  PROVE  JInv'
<1> DEFINE c == caller[p]
<1>1. c \in CallType
  BY CallerType DEF JInv
<1>2. PICK r \in CallType : /\ caller' = [caller EXCEPT ![p] = r]
                            /\ r.at = place /\ r.conn = None /\ r.doing = c.doing /\ r.reply = c.reply
                            /\ r.nth = c.nth /\ r.try = c.try /\ r.method = c.method
  <2>1. CASE Go(p, place) /\ c.conn = None
    <3> DEFINE r == [c EXCEPT !.at = place]
    <3>1. caller' = [caller EXCEPT ![p] = r]
      BY <2>1, Types DEF JInv
    <3>2. r \in CallType /\ r.at = place /\ r.conn = None /\ r.doing = c.doing /\ r.reply = c.reply
          /\ r.nth = c.nth /\ r.try = c.try /\ r.method = c.method
      BY <1>1, <2>1 DEF CallType
    <3> HIDE DEF r
    <3> QED
      BY <3>1, <3>2
  <2>2. CASE Fail(p, place, e) /\ c.conn = None
    <3> DEFINE r == [c EXCEPT !.at = place, !.err = e]
    <3>1. caller' = [caller EXCEPT ![p] = r]
      BY <2>2, Types DEF JInv
    <3>2. r \in CallType /\ r.at = place /\ r.conn = None /\ r.doing = c.doing /\ r.reply = c.reply
          /\ r.nth = c.nth /\ r.try = c.try /\ r.method = c.method
      BY <1>1, <2>2 DEF CallType
    <3> HIDE DEF r
    <3> QED
      BY <3>1, <3>2
  <2>3. CASE Drop(p, place, e)
    <3> DEFINE r == [c EXCEPT !.at = place, !.err = e, !.conn = None]
    <3>1. caller' = [caller EXCEPT ![p] = r]
      BY <2>3, Types DEF JInv
    <3>2. r \in CallType /\ r.at = place /\ r.conn = None /\ r.doing = c.doing /\ r.reply = c.reply
          /\ r.nth = c.nth /\ r.try = c.try /\ r.method = c.method
      BY <1>1 DEF CallType
    <3> HIDE DEF r
    <3> QED
      BY <3>1, <3>2
  <2> QED
    BY <2>1, <2>2, <2>3
<1> QED
  BY <1>2, Outside

(* The steps of a caller without a connection.                             *)
LEMMA OutsideKeeps ==
  ASSUME JInv, IInv', NEW p \in Callers,
         \/ Get(p) \/ TakeSlot(p) \/ SlotGivenUp(p) \/ NoIdle(p) \/ Forget(p) \/ Check(p)
         \/ DialFails(p) \/ DialGivenUp(p) \/ Unslot(p) \/ Answered(p)
  PROVE  JInv'
<1> DEFINE at == caller[p].at
<1>1. at \in {"get", "slot", "take", "check", "dial", "redial", "unslot", "answered"}
        => caller[p].conn = None
  BY CallerType DEF JInv, CallOK, HoldsAt
<1>2. {"answered", "slot", "take", "check", "unslot", "dial", "redial", "backoff", "returned"}
        \subseteq Places
      /\ {None, "context", "closed", "wire"} \subseteq Errors
  BY DEF Places, Errors
<1>3. CASE Get(p) \/ SlotGivenUp(p)
  <2>1. /\ at \in {"get", "slot"} /\ UNCHANGED <<idle, watch, sock>>
        /\ \/ Fail(p, "answered", "context") \/ Fail(p, "answered", "closed") \/ Go(p, "slot")
    BY <1>3 DEF Get, SlotGivenUp, pool
  <2>2. CASE Fail(p, "answered", "context")
    BY <1>1, <1>2, <2>1, <2>2, GoOutside
  <2>3. CASE Fail(p, "answered", "closed")
    BY <1>1, <1>2, <2>1, <2>3, GoOutside
  <2>4. CASE Go(p, "slot")
    BY <1>1, <1>2, <2>1, <2>4, GoOutside
  <2> QED
    BY <2>1, <2>2, <2>3, <2>4
<1>4. CASE TakeSlot(p) \/ NoIdle(p)
  BY <1>1, <1>2, <1>4, GoOutside DEF TakeSlot, NoIdle, pool
<1>5. CASE Forget(p)
  BY <1>1, <1>2, <1>5, GoOutside DEF Forget, pool
<1>6. CASE Check(p) \/ DialFails(p)
  <2>1. /\ at \in {"check", "dial"} /\ UNCHANGED <<idle, watch, sock>>
        /\ \/ Fail(p, "unslot", "closed") \/ Fail(p, "redial", "wire") \/ Go(p, "dial")
    BY <1>6 DEF Check, DialFails, pool
  <2>2. CASE Fail(p, "unslot", "closed")
    BY <1>1, <1>2, <2>1, <2>2, GoOutside
  <2>3. CASE Fail(p, "redial", "wire")
    <3>1. caller[p].conn = None /\ at \notin {"read", "release"}
      BY <1>1, <2>1
    <3>2. "redial" \in Places /\ "wire" \in Errors
      BY <1>2
    <3> QED
      BY <2>1, <2>3, <3>1, <3>2, GoOutside
  <2>4. CASE Go(p, "dial")
    BY <1>1, <1>2, <2>1, <2>4, GoOutside
  <2> QED
    BY <2>1, <2>2, <2>3, <2>4
<1>7. CASE DialGivenUp(p)
  <2>1. /\ at = "redial" /\ UNCHANGED <<idle, watch, sock>>
        /\ Go(p, "unslot") \/ Fail(p, "unslot", "context")
    BY <1>7 DEF DialGivenUp, pool
  <2>2. CASE Go(p, "unslot")
    BY <1>1, <1>2, <2>1, <2>2, GoOutside
  <2>3. CASE Fail(p, "unslot", "context")
    BY <1>1, <1>2, <2>1, <2>3, GoOutside
  <2> QED
    BY <2>1, <2>2, <2>3
<1>8. CASE Unslot(p) \/ Answered(p)
  BY <1>1, <1>2, <1>8, GoOutside DEF Unslot, Answered, pool
<1> QED
  BY <1>3, <1>4, <1>5, <1>6, <1>7, <1>8

LEMMA RedialFrames == ASSUME JInv, IInv', NEW p \in Callers, Redial(p) PROVE JInv'
<1> DEFINE c == caller[p]
           r == [c EXCEPT !.at = "dial", !.dials = @ + 1, !.err = None]
<1>1. c \in CallType /\ c.at = "redial" /\ c.conn = None
  BY CallerType DEF Redial, JInv, CallOK, HoldsAt
<1>2. /\ r.at = "dial" /\ r.conn = c.conn /\ r.doing = c.doing /\ r.reply = c.reply
      /\ r.nth = c.nth /\ r.try = c.try /\ r.method = c.method
  BY <1>1 DEF CallType
<1>3. caller' = [caller EXCEPT ![p] = r]
  BY Types DEF Redial, JInv
<1> HIDE DEF r
<1> QED
  BY <1>1, <1>2, <1>3, Outside DEF Redial, pool

LEMMA BackoffFrames == ASSUME JInv, IInv', NEW p \in Callers, Backoff(p) PROVE JInv'
<1> DEFINE c == caller[p]
           r == [c EXCEPT !.at = "get", !.try = @ + 1, !.err = None,
                          !.dials = 0, !.doing = None, !.reply = NoReply]
<1>1. c \in CallType /\ c.at = "backoff" /\ c.conn = None
  BY CallerType DEF Backoff, JInv, CallOK, HoldsAt
<1>2. r.at = "get" /\ r.conn = c.conn /\ r.doing = None /\ r.reply = NoReply
  BY <1>1 DEF CallType
<1>3. CASE caller' = [caller EXCEPT ![p].at = "get", ![p].try = @ + 1, ![p].err = None,
                                    ![p].dials = 0, ![p].doing = None, ![p].reply = NoReply]
  <2>1. caller' = [caller EXCEPT ![p] = r]
    BY <1>3, Types DEF JInv
  <2> HIDE DEF r
  <2> QED
    BY <1>1, <1>2, <2>1, Outside DEF Backoff, pool
<1>4. CASE Fail(p, "returned", "context")
  <2>1. "returned" \in Places /\ "context" \in Errors
    BY DEF Places, Errors
  <2> QED
    BY <1>1, <1>4, <2>1, GoOutside DEF Backoff, pool
<1> QED
  BY <1>3, <1>4 DEF Backoff

LEMMA StartFrames ==
  ASSUME JInv, IInv', NEW p \in Callers, NEW m \in DOMAIN Policy, Start(p, m) PROVE JInv'
<1> DEFINE c == caller[p]
           r == [NoCall EXCEPT !.at = "get", !.method = m, !.nth = c.nth + 1]
<1>1. c.at \in {"idle", "returned"}
  BY DEF Start, Over
<1>2. r.at = "get" /\ r.conn = None /\ r.doing = None /\ r.reply = NoReply
  BY DEF NoCall
<1>3. caller' = [caller EXCEPT ![p] = r]
  BY DEF Start
<1> HIDE DEF r
<1> QED
  BY <1>1, <1>2, <1>3, Outside DEF Start, pool

(* What a caller with a connection knows of it.                            *)
LEMMA Mine ==
  ASSUME JInv, NEW p \in Callers,
         caller[p].at \in {"alive", "send", "read", "release", "adopt", "put"}
  PROVE  /\ caller[p] \in CallType /\ CallOK(caller[p]) /\ Has(caller[p])
         /\ caller[p].conn \in Conns /\ sock[caller[p].conn] \in SockType
         /\ sock[caller[p].conn].side = "open"
         /\ Framed(p, caller[p], watch[p], sock[caller[p].conn])
         /\ OnWire(p, caller[p], watch[p], sock[caller[p].conn])
<1>1. Has(caller[p]) /\ caller[p].conn \in Conns /\ sock[caller[p].conn] \in SockType
  BY SomeConn DEF JInv, Has
<1>2. Framed(p, caller[p], watch[p], sock[caller[p].conn])
  BY DEF JInv, Framing
<1> QED
  BY <1>1, <1>2, CallerType DEF JInv, Alone, Framed

(* sock with another state of the connection k.                            *)
LEMMA OneSock ==
  ASSUME IInv, NEW k \in Conns, NEW s, sock' = [sock EXCEPT ![k] = s]
  PROVE  sock'[k] = s /\ \A c \in Conns : c # k => sock'[c] = sock[c]
BY Types

(* A step of a caller on the connection it has.                            *)
LEMMA OnOwn ==
  ASSUME JInv, IInv', NEW p \in Callers, Has(caller[p]), NEW r, caller' = [caller EXCEPT ![p] = r],
         idle' = idle, \A q \in Callers : q # p => watch'[q] = watch[q],
         NEW s, sock' = [sock EXCEPT ![caller[p].conn] = s],
         Has(r) => r.conn = caller[p].conn /\ s.side = "open",
         Framed(p, r, watch'[p], s)
  PROVE  JInv'
<1> DEFINE k == caller[p].conn
<1>1. k \in Conns /\ Has(caller[p]) /\ caller[p].conn = k
  BY HeldConn DEF JInv
<1>2. sock' = [sock EXCEPT ![k] = s] /\ (Has(r) => r.conn = k)
  OBVIOUS
<1> HIDE DEF k
<1>3. sock'[k] = s /\ \A c \in Conns : c # k => sock'[c] = sock[c]
  <2>1. sock \in [Conns -> SockType]
    BY Types DEF JInv
  <2> QED
    BY <1>1, <1>2, <2>1
<1>4. Framed(p, r, watch'[p], sock'[r.conn])
  BY <1>2, <1>3 DEF Framed
<1>5. /\ k \in Conns => (Has(caller[p]) /\ caller[p].conn = k) \/ sock[k].side = "closed"
      /\ Has(r) => r.conn = k /\ k \in Conns /\ sock'[k].side = "open"
      /\ \A c \in Conns : c # k => sock'[c] = sock[c]
  BY <1>1, <1>2, <1>3
<1> QED
  BY <1>4, <1>5, Local, ZenonT(40)

LEMMA AliveFrames == ASSUME JInv, IInv', NEW p \in Callers, NEW since, Alive(p, since) PROVE JInv'
<1> DEFINE c == caller[p]
           k == c.conn
           good == Healthy(sock[k], since)
           r == [c EXCEPT !.at = IF good THEN "send" ELSE "forget",
                          !.doing = IF good THEN "call" ELSE None]
<1>1. c.at = "alive"
  BY DEF Alive
<1>2. /\ c \in CallType /\ k \in Conns /\ sock[k].side = "open" /\ Clean(sock[k]) /\ Has(c)
      /\ c.doing = None /\ c.reply = NoReply /\ watch[p].at = "off"
  BY <1>1, Mine DEF CallOK, HoldsAt, OnWire, Framed
<1>3. /\ r.at = (IF good THEN "send" ELSE "forget") /\ r.doing = (IF good THEN "call" ELSE None)
      /\ r.conn = k /\ r.reply = NoReply
  BY <1>2 DEF CallType
<1>4. caller' = [caller EXCEPT ![p] = r] /\ idle' = idle /\ watch' = watch
  BY Types DEF JInv, Alive, pool
<1> HIDE DEF r
<1>5. CASE good
  <2>1. Framed(p, r, watch[p], sock[r.conn])
    BY <1>2, <1>3, <1>5 DEF Framed, OnWire
  <2> QED
    BY <1>2, <1>3, <1>4, <1>5, <2>1, Shift DEF Alive
<1>6. CASE ~good
  <2>1. sock' = [sock EXCEPT ![k] = Hung(sock[k])]
    BY <1>6 DEF Alive
  <2>2. ~Has(r) /\ Framed(p, r, watch'[p], sock'[r.conn])
    BY <1>2, <1>3, <1>4, <1>6 DEF Framed, Has
  <2>3. \A d \in Conns : d # k => sock'[d] = sock[d]
    BY <1>2, <2>1, OneSock DEF JInv
  <2> HIDE DEF k, good
  <2> QED
    BY <1>2, <1>4, <2>2, <2>3, Local DEF k
<1> QED
  BY <1>5, <1>6

LEMMA DialFrames ==
  ASSUME JInv, IInv', NEW p \in Callers, NEW k \in Conns, NEW s \in {Accepted, TurnedAway},
         Dial(p, k, s)
  PROVE  JInv'
<1> DEFINE c == caller[p]
           r == [c EXCEPT !.at = "send", !.conn = k, !.doing = "HELLO"]
<1>1. c \in CallType /\ c.at = "dial" /\ sock[k].side = "closed"
  BY CallerType DEF JInv, Dial, Free
<1>2. r.at = "send" /\ r.conn = k /\ r.doing = "HELLO"
  BY <1>1 DEF CallType
<1>3. caller' = [caller EXCEPT ![p] = r] /\ idle' = idle /\ watch' = watch
      /\ sock' = [sock EXCEPT ![k] = s]
  BY Types DEF JInv, Dial, pool
<1>4. sock'[k] = s /\ \A d \in Conns : d # k => sock'[d] = sock[d]
  BY <1>3, OneSock DEF JInv
<1>5. s.side = "open" /\ Greeted(s)
  BY DEF Accepted, TurnedAway, Unused, Greeted
<1>6. watch[p].at = "off"
  BY <1>1 DEF JInv, Framing, Framed
<1> HIDE DEF r
<1>7. Framed(p, r, watch'[p], sock'[r.conn])
  <2>1. watch'[p].at = "off" /\ Greeted(sock'[r.conn])
    BY <1>2, <1>3, <1>4, <1>5, <1>6
  <2> QED
    BY <1>2, <2>1 DEF Framed, OnWire, None
<1>8. r.conn = k /\ sock[k].side = "closed" /\ sock'[k].side = "open" /\ watch' = watch /\ idle' = idle
  BY <1>1, <1>2, <1>3, <1>4, <1>5
<1> QED
  BY <1>3, <1>4, <1>7, <1>8, Local

LEMMA NotSentFrames == ASSUME JInv, IInv', NEW p \in Callers, NotSent(p) PROVE JInv'
<1> DEFINE c == caller[p]
           k == c.conn
<1>1. c.at = "send" /\ idle' = idle /\ watch' = watch
  BY DEF NotSent, pool
<1>2. /\ c \in CallType /\ k \in Conns /\ Has(c) /\ watch[p].at = "off"
      /\ Framed(p, c, watch[p], sock[k]) /\ OnWire(p, c, watch[p], sock[k])
  BY <1>1, Mine DEF Framed
<1>3. CASE c.doing = "call"
  <2> DEFINE r == [c EXCEPT !.at = "put", !.err = "context"]
  <2>1. /\ r.at = "put" /\ r.conn = k /\ r.doing = "call" /\ r.reply = c.reply
        /\ r.nth = c.nth /\ r.try = c.try /\ r.method = c.method
    BY <1>2, <1>3 DEF CallType
  <2>2. caller' = [caller EXCEPT ![p] = r] /\ sock' = sock
    BY <1>3, Types DEF JInv, NotSent
  <2> HIDE DEF r
  <2>3. Framed(p, r, watch[p], sock[r.conn])
    BY <1>1, <1>2, <1>3, <2>1 DEF Framed, OnWire, TagOf
  <2> QED
    BY <1>1, <1>2, <2>1, <2>2, <2>3, Shift
<1>4. CASE c.doing # "call"
  <2> DEFINE r == [c EXCEPT !.at = "redial", !.err = "context", !.conn = None]
  <2>1. r.at = "redial" /\ r.conn = None /\ r.doing = c.doing /\ r.reply = c.reply
    BY <1>2 DEF CallType
  <2>2. caller' = [caller EXCEPT ![p] = r] /\ sock' = [sock EXCEPT ![k] = Hung(sock[k])]
    BY <1>4, Types DEF JInv, NotSent
  <2> HIDE DEF r
  <2>3. ~Has(r) /\ Framed(p, r, watch'[p], Hung(sock[k]))
    BY <1>1, <1>2, <1>4, <2>1 DEF Framed, Has
  <2> QED
    BY <1>1, <1>2, <2>2, <2>3, OnOwn
<1> QED
  BY <1>3, <1>4

LEMMA SendFrames == ASSUME JInv, IInv', NEW p \in Callers, Send(p) PROVE JInv'
<1> DEFINE c == caller[p]
           k == c.conn
           r == [c EXCEPT !.at = "read"]
           s == IF sock[k].srv = "up" THEN [sock[k] EXCEPT !.req = Append(@, Tag(p))] ELSE sock[k]
<1>1. c.at = "send" /\ idle' = idle
  BY DEF Send, pool
<1>2. /\ c \in CallType /\ k \in Conns /\ Has(c) /\ sock[k] \in SockType /\ sock[k].side = "open"
      /\ Framed(p, c, watch[p], sock[k]) /\ OnWire(p, c, watch[p], sock[k])
      /\ c.doing \in {"call", "HELLO", "AUTH"}
  BY <1>1, Mine DEF CallOK, HoldsAt
<1>3. /\ r.at = "read" /\ r.conn = k /\ r.doing = c.doing /\ r.reply = c.reply
      /\ r.nth = c.nth /\ r.try = c.try /\ r.method = c.method
  BY <1>2 DEF CallType
<1>4. caller' = [caller EXCEPT ![p] = r] /\ sock' = [sock EXCEPT ![k] = s]
      /\ watch' = [watch EXCEPT ![p] = [at |-> "armed", conn |-> k]]
  BY Types, <1>2 DEF JInv, Send
<1> HIDE DEF r, s
<1>6. watch'[p] = [at |-> "armed", conn |-> k] /\ \A q \in Callers : q # p => watch'[q] = watch[q]
  BY <1>4, Types DEF JInv, WatchType
<1>7. Tag(p) = TagOf(p, r) /\ TagOf(p, c) = TagOf(p, r)
  BY <1>3 DEF Tag, TagOf
<1>8. /\ watch'[p].at = "armed" /\ watch'[p].conn = k
      /\ \A q \in Callers : q # p => watch'[q] = watch[q]
  BY <1>6
<1>9. ~s.broken /\ ~s.expired /\ s.side = "open" /\ UnderWay(p, r, s)
  <2>1. Greeted(sock[k]) \/ Clean(sock[k])
    BY <1>1, <1>2 DEF OnWire
  <2>2. sock[k].req = <<>> /\ ~sock[k].broken /\ ~sock[k].expired
    BY <2>1 DEF Greeted, Clean
  <2>3. CASE sock[k].srv = "up"
    <3>1. sock[k].rep = <<>>
      BY <2>1, <2>3 DEF Greeted, Clean
    <3>2. s.req = Append(<<>>, Tag(p)) /\ s.rep = <<>> /\ ~s.broken /\ ~s.expired /\ s.side = "open"
      BY <1>2, <2>2, <2>3, <3>1 DEF SockType, s
    <3>3. Append(<<>>, Tag(p)) = <<Tag(p)>>
      OBVIOUS
    <3> QED
      BY <1>7, <3>2, <3>3 DEF UnderWay
  <2>4. CASE sock[k].srv # "up"
    <3>1. sock[k].rep = <<>> \/ (c.doing = "HELLO" /\ sock[k].rep = <<Refusal>> /\ sock[k].srv = "gone")
      BY <1>1, <1>2 DEF OnWire, Greeted, Clean
    <3> QED
      BY <1>2, <1>3, <2>2, <2>4, <3>1 DEF UnderWay, s
  <2> QED
    BY <2>3, <2>4
<1>10. Framed(p, r, watch'[p], s)
  <2>1. c.doing = "call" => c.reply = NoReply
    BY <1>1, <1>2 DEF Framed
  <2>2. OnWire(p, r, watch'[p], s)
    BY <1>3, <1>9 DEF OnWire
  <2> QED
    BY <1>2, <1>3, <1>8, <2>1, <2>2 DEF Framed, None
<1> QED
  BY <1>1, <1>2, <1>3, <1>4, <1>8, <1>9, <1>10, OnOwn

LEMMA SendFailsFrames == ASSUME JInv, IInv', NEW p \in Callers, SendFails(p) PROVE JInv'
<1> DEFINE c == caller[p]
           k == c.conn
           r == [c EXCEPT !.at = "release", !.err = "wire"]
<1>1. c.at = "send" /\ idle' = idle /\ sock' = sock
  BY DEF SendFails, pool
<1>2. /\ c \in CallType /\ k \in Conns /\ Has(c) /\ sock[k].side = "open"
      /\ Framed(p, c, watch[p], sock[k]) /\ OnWire(p, c, watch[p], sock[k])
      /\ c.doing \in {"call", "HELLO", "AUTH"}
  BY <1>1, Mine DEF CallOK, HoldsAt
<1>3. /\ r.at = "release" /\ r.conn = k /\ r.doing = c.doing /\ r.reply = c.reply /\ r.err = "wire"
      /\ r.nth = c.nth /\ r.try = c.try /\ r.method = c.method
  BY <1>2 DEF CallType
<1>4. caller' = [caller EXCEPT ![p] = r]
      /\ watch' = [watch EXCEPT ![p] = [at |-> "armed", conn |-> k]]
  BY Types DEF JInv, SendFails
<1>5. watch'[p].at = "armed" /\ watch'[p].conn = k /\ \A q \in Callers : q # p => watch'[q] = watch[q]
  BY <1>4, Types DEF JInv, WatchType
<1>6. ~sock[k].broken /\ ~sock[k].expired /\ (c.doing = "call" => c.reply = NoReply)
  BY <1>1, <1>2 DEF OnWire, Greeted, Clean, Framed
<1> HIDE DEF r
<1>7. OnWire(p, r, watch'[p], sock[k])
  BY <1>3, <1>6 DEF OnWire, None
<1>8. Framed(p, r, watch'[p], sock'[r.conn])
  BY <1>1, <1>2, <1>3, <1>5, <1>6, <1>7 DEF Framed
<1> QED
  BY <1>1, <1>2, <1>3, <1>4, <1>5, <1>8, Local

LEMMA ReadFrames == ASSUME JInv, IInv', NEW p \in Callers, Read(p) PROVE JInv'
<1> DEFINE c == caller[p]
           k == c.conn
           r == [c EXCEPT !.at = "release", !.reply = Head(sock[k].rep)]
           s == [sock[k] EXCEPT !.rep = Tail(@)]
<1>1. c.at = "read" /\ idle' = idle /\ watch' = watch /\ sock[k].rep # <<>>
  BY DEF Read, pool
<1>2. /\ c \in CallType /\ k \in Conns /\ Has(c) /\ sock[k] \in SockType /\ sock[k].side = "open"
      /\ Framed(p, c, watch[p], sock[k]) /\ OnWire(p, c, watch[p], sock[k])
      /\ c.doing \in {"call", "HELLO", "AUTH"}
  BY <1>1, Mine DEF CallOK, HoldsAt
<1>3. /\ r.at = "release" /\ r.conn = k /\ r.doing = c.doing /\ r.reply = Head(sock[k].rep)
      /\ r.nth = c.nth /\ r.try = c.try /\ r.method = c.method /\ r.err = c.err
  BY <1>2 DEF CallType
<1>4. caller' = [caller EXCEPT ![p] = r] /\ sock' = [sock EXCEPT ![k] = s]
  BY Types, <1>2 DEF JInv, Read
<1>6. TagOf(p, c) = TagOf(p, r)
  BY <1>3 DEF TagOf
<1>7. PICK a : sock[k].rep = <<a>> /\ sock[k].req = <<>>
               /\ (a.tag = TagOf(p, c) \/ c.doing = "HELLO")
  BY <1>1, <1>2 DEF OnWire, UnderWay
<1>8. Head(sock[k].rep) = a /\ Tail(sock[k].rep) = <<>>
  BY <1>7
<1>9. s.req = <<>> /\ s.rep = <<>> /\ ~s.broken /\ (s.expired => watch[p].at = "fired") /\ s.side = "open"
  BY <1>1, <1>2, <1>7, <1>8 DEF OnWire, SockType
<1> HIDE DEF r, s
<1>10. OnWire(p, r, watch[p], s)
  BY <1>3, <1>9 DEF OnWire
<1>11. r.doing = "call" => r.reply.tag = TagOf(p, r)
  BY <1>3, <1>6, <1>7, <1>8
<1>12. Framed(p, r, watch'[p], s)
  BY <1>1, <1>2, <1>3, <1>10, <1>11 DEF Framed, None
<1> QED
  BY <1>1, <1>2, <1>3, <1>4, <1>9, <1>12, OnOwn

LEMMA ReadFailsFrames == ASSUME JInv, IInv', NEW p \in Callers, ReadFails(p) PROVE JInv'
<1> DEFINE c == caller[p]
           k == c.conn
           r == [c EXCEPT !.at = "release", !.err = "wire"]
<1>1. c.at = "read" /\ idle' = idle /\ sock' = sock /\ watch' = watch
  BY DEF ReadFails, pool
<1>2. /\ c \in CallType /\ k \in Conns /\ Has(c)
      /\ Framed(p, c, watch[p], sock[k]) /\ OnWire(p, c, watch[p], sock[k])
  BY <1>1, Mine
<1>3. /\ r.at = "release" /\ r.conn = k /\ r.doing = c.doing /\ r.reply = c.reply /\ r.err = "wire"
      /\ r.nth = c.nth /\ r.try = c.try /\ r.method = c.method
  BY <1>2 DEF CallType
<1>4. caller' = [caller EXCEPT ![p] = r]
  BY Types DEF JInv, ReadFails
<1> HIDE DEF r
<1>5. OnWire(p, r, watch[p], sock[k])
  BY <1>1, <1>2, <1>3 DEF OnWire, None
<1>6. Framed(p, r, watch[p], sock[r.conn])
  BY <1>1, <1>2, <1>3, <1>5 DEF Framed, TagOf
<1> QED
  BY <1>1, <1>2, <1>3, <1>4, <1>6, Shift

LEMMA AdoptFrames == ASSUME JInv, IInv', NEW p \in Callers, Adopt(p) PROVE JInv'
<1> DEFINE c == caller[p]
           k == c.conn
           r == [c EXCEPT !.at = "send"]
<1>1. c.at = "adopt" /\ idle' = idle /\ sock' = sock /\ watch' = watch
  BY DEF Adopt
<1>2. /\ c \in CallType /\ k \in Conns /\ Has(c) /\ c.doing = "call"
      /\ Framed(p, c, watch[p], sock[k]) /\ OnWire(p, c, watch[p], sock[k])
  BY <1>1, Mine DEF CallOK, HoldsAt
<1>3. r.at = "send" /\ r.conn = k /\ r.doing = "call" /\ r.reply = c.reply
  BY <1>2 DEF CallType
<1>4. caller' = [caller EXCEPT ![p] = r]
  BY Types DEF JInv, Adopt
<1> HIDE DEF r
<1>5. OnWire(p, r, watch[p], sock[k])
  BY <1>1, <1>2, <1>3 DEF OnWire
<1>6. Framed(p, r, watch[p], sock[r.conn])
  BY <1>1, <1>2, <1>3, <1>5 DEF Framed
<1> QED
  BY <1>1, <1>2, <1>3, <1>4, <1>6, Shift

(* A verdict without an error leaves a clean connection.                   *)
LEMMA Verdict ==
  ASSUME JInv, NEW p \in Callers, caller[p].at = "release",
         Outcome(p, watch[p].at = "fired") = None
  PROVE  Clean(sock[caller[p].conn]) /\ caller[p].err = None
<1> DEFINE c == caller[p]
<1>1. watch[p].at # "fired" /\ c.err = None
  BY DEF Outcome, None
<1>2. OnWire(p, c, watch[p], sock[c.conn])
  BY Mine
<1> QED
  BY <1>1, <1>2 DEF OnWire, Clean

LEMMA ReleaseFrames == ASSUME JInv, IInv', NEW p \in Callers, Release(p) PROVE JInv'
<1> DEFINE c == caller[p]
           k == c.conn
           e == Outcome(p, watch[p].at = "fired")
<1>1. c.at = "release" /\ idle' = idle
  BY DEF Release, Judge, pool
<1>2. /\ c \in CallType /\ k \in Conns /\ Has(c) /\ sock[k] \in SockType /\ sock[k].side = "open"
      /\ Framed(p, c, watch[p], sock[k]) /\ c.doing \in {"call", "HELLO", "AUTH"}
  BY <1>1, Mine DEF CallOK, HoldsAt
<1>3. watch'[p].at = "off" /\ \A q \in Callers : q # p => watch'[q] = watch[q]
  BY Types DEF JInv, WatchType, Release, NoWatch
<1>4. e \in Errors /\ (e = None => Clean(sock[k]))
  BY <1>1, Verdict, OutcomeType DEF JInv
<1> HIDE DEF e
<1>5. CASE /\ c.doing = "call" /\ Fail(p, "put", e)
           /\ sock' = [sock EXCEPT ![k].broken = (e # None)]
  <2> DEFINE r == [c EXCEPT !.at = "put", !.err = e]
             s == [sock[k] EXCEPT !.broken = (e # None)]
  <2>1. /\ r.at = "put" /\ r.conn = k /\ r.doing = "call" /\ r.reply = c.reply
        /\ r.nth = c.nth /\ r.try = c.try /\ r.method = c.method
    BY <1>2, <1>5 DEF CallType
  <2>2. caller' = [caller EXCEPT ![p] = r] /\ sock' = [sock EXCEPT ![k] = s]
    BY <1>5, Types DEF JInv
  <2>3. s.side = "open" /\ (s.broken \/ Clean(s))
    BY <1>2, <1>4 DEF SockType, Clean
  <2> HIDE DEF r, s
  <2>4. OnWire(p, r, watch'[p], s)
    BY <2>1, <2>3 DEF OnWire
  <2>5. Framed(p, r, watch'[p], s)
    BY <1>2, <1>3, <1>5, <2>1, <2>4 DEF Framed, TagOf, None
  <2> QED
    BY <1>1, <1>2, <1>3, <2>1, <2>2, <2>3, <2>5, OnOwn
<1>6. CASE /\ c.doing # "call" /\ Drop(p, "redial", e)
           /\ sock' = [sock EXCEPT ![k] = Hung(@)]
  <2> DEFINE r == [c EXCEPT !.at = "redial", !.err = e, !.conn = None]
  <2>1. r.at = "redial" /\ r.conn = None /\ r.doing = c.doing /\ r.reply = c.reply
    BY <1>2 DEF CallType
  <2>2. caller' = [caller EXCEPT ![p] = r] /\ sock' = [sock EXCEPT ![k] = Hung(sock[k])]
    BY <1>6, Types DEF JInv
  <2> HIDE DEF r
  <2>3. ~Has(r) /\ Framed(p, r, watch'[p], Hung(sock[k]))
    BY <1>2, <1>3, <1>6, <2>1 DEF Framed, Has, None
  <2> QED
    BY <1>1, <1>2, <1>3, <2>2, <2>3, OnOwn
<1>7. ASSUME NEW place \in {"send", "adopt"}, NEW what \in {"AUTH", "call"},
             place = "adopt" <=> what = "call", e = None,
             caller' = [caller EXCEPT ![p].at = place, ![p].doing = what, ![p].reply = NoReply],
             sock' = sock
      PROVE  JInv'
  <2> DEFINE r == [c EXCEPT !.at = place, !.doing = what, !.reply = NoReply]
  <2>1. r.at = place /\ r.conn = k /\ r.doing = what /\ r.reply = NoReply
    BY <1>2 DEF CallType
  <2>2. caller' = [caller EXCEPT ![p] = r]
    BY <1>7, Types DEF JInv
  <2> HIDE DEF r
  <2>3. OnWire(p, r, watch'[p], sock[k])
    BY <1>4, <1>7, <2>1 DEF OnWire
  <2>4. Framed(p, r, watch'[p], sock'[r.conn])
    BY <1>3, <1>7, <2>1, <2>3 DEF Framed, None
  <2>5. Has(r) => Has(c) /\ r.conn = c.conn
    BY <1>2, <2>1
  <2>6. \A q \in Callers : q # p => watch'[q] = watch[q]
    BY <1>3
  <2> QED
    BY <1>1, <1>2, <1>7, <2>1, <2>2, <2>4, <2>5, <2>6, ShiftOff
<1>8. \/ /\ c.doing = "call" /\ Fail(p, "put", e)
         /\ sock' = [sock EXCEPT ![k].broken = (e # None)]
      \/ /\ c.doing # "call" /\ Drop(p, "redial", e)
         /\ sock' = [sock EXCEPT ![k] = Hung(@)]
      \/ /\ e = None /\ sock' = sock
         /\ caller' = [caller EXCEPT ![p].at = "send", ![p].doing = "AUTH", ![p].reply = NoReply]
      \/ /\ e = None /\ sock' = sock
         /\ caller' = [caller EXCEPT ![p].at = "adopt", ![p].doing = "call", ![p].reply = NoReply]
  BY DEF Release, Judge, Breaks, e
<1>9. CASE /\ e = None /\ sock' = sock
           /\ caller' = [caller EXCEPT ![p].at = "send", ![p].doing = "AUTH", ![p].reply = NoReply]
  BY <1>7, <1>9
<1>10. CASE /\ e = None /\ sock' = sock
            /\ caller' = [caller EXCEPT ![p].at = "adopt", ![p].doing = "call", ![p].reply = NoReply]
  BY <1>7, <1>10
<1> QED
  BY <1>5, <1>6, <1>8, <1>9, <1>10

LEMMA WatchFrames == ASSUME JInv, IInv', NEW p \in Callers, Watch(p) PROVE JInv'
<1> DEFINE c == caller[p]
           k == c.conn
           s == [sock[k] EXCEPT !.expired = TRUE]
<1>1. watch[p].at = "armed" /\ idle' = idle /\ caller' = caller
  BY DEF Watch, pool
<1>2. c.at \in {"read", "release"} /\ watch[p].conn = k
  BY <1>1 DEF JInv, Framing, Framed
<1>3. /\ c \in CallType /\ k \in Conns /\ Has(c) /\ sock[k] \in SockType /\ sock[k].side = "open"
      /\ Framed(p, c, watch[p], sock[k]) /\ OnWire(p, c, watch[p], sock[k])
  BY <1>2, Mine
<1>4. /\ watch'[p].at = "fired" /\ watch'[p].conn = k
      /\ \A q \in Callers : q # p => watch'[q] = watch[q]
  BY <1>2, Types DEF JInv, WatchType, Watch
<1>5. sock' = [sock EXCEPT ![k] = s]
  BY <1>2, Types DEF JInv, Watch
<1>6. s.side = "open" /\ s.req = sock[k].req /\ s.rep = sock[k].rep /\ s.broken = sock[k].broken
      /\ s.srv = sock[k].srv
  BY <1>3 DEF SockType
<1> HIDE DEF s
<1>7. OnWire(p, c, watch'[p], s)
  BY <1>2, <1>3, <1>4, <1>6 DEF OnWire, UnderWay
<1>8. Framed(p, c, watch'[p], s)
  BY <1>2, <1>3, <1>4, <1>7 DEF Framed
<1>9. caller' = [caller EXCEPT ![p] = c] /\ s.side = "open"
  BY <1>1, <1>3, <1>6, Types DEF JInv
<1> QED
  BY <1>1, <1>3, <1>4, <1>5, <1>8, <1>9, OnOwn

(* What the server does to a connection, whoever has it.                   *)
LEMMA Served ==
  ASSUME JInv, IInv', UNCHANGED <<idle, caller, watch>>, NEW k \in Conns,
         \A c \in Conns : c # k => sock'[c] = sock[c], sock'[k].side = sock[k].side,
         Clean(sock[k]) => Clean(sock'[k]),
         \A p \in Callers :
           sock[k].side = "open" /\ OnWire(p, caller[p], watch[p], sock[k])
             => OnWire(p, caller[p], watch[p], sock'[k])
  PROVE  JInv'
<1>1. IInv /\ Alone /\ AtRest /\ Framing
  BY DEF JInv
<1>2. \A i \in DOMAIN idle : idle[i] \in Conns
  BY <1>1, Types
<1>3. \A p \in Callers : Has(caller[p]) => caller[p].conn \in Conns
  BY <1>1, HeldConn
<1>4. Alone'
  BY <1>1, <1>2, <1>3 DEF Alone
<1>5. AtRest'
  BY <1>1, <1>2 DEF AtRest, Clean
<1>6. Framing'
  <2> SUFFICES ASSUME NEW q \in Callers PROVE Framed(q, caller'[q], watch'[q], sock'[caller'[q].conn])
    BY DEF Framing, Framed, OnWire, UnderWay, Greeted, Clean, Has, TagOf
  <2>1. Framed(q, caller[q], watch[q], sock[caller[q].conn]) /\ caller' = caller /\ watch' = watch
    BY <1>1 DEF Framing
  <2>2. CASE Has(caller[q])
    <3>1. sock[caller[q].conn].side = "open" /\ OnWire(q, caller[q], watch[q], sock[caller[q].conn])
      BY <1>1, <2>1, <2>2 DEF Alone, Framed
    <3>2. OnWire(q, caller[q], watch[q], sock'[caller[q].conn])
      BY <1>3, <2>2, <3>1
    <3> QED
      BY <2>1, <3>2 DEF Framed
  <2>3. CASE ~Has(caller[q])
    BY <2>1, <2>3 DEF Framed
  <2> QED
    BY <2>2, <2>3
<1> QED
  BY <1>4, <1>5, <1>6 DEF JInv

LEMMA HangUpFrames == ASSUME JInv, IInv', NEW k \in Conns, HangUp(k) PROVE JInv'
<1> DEFINE s == [sock[k] EXCEPT !.srv = "gone", !.req = <<>>]
<1>1. UNCHANGED <<idle, caller, watch>> /\ sock' = [sock EXCEPT ![k] = s]
  BY Types DEF HangUp, pool, JInv
<1>2. sock[k] \in SockType /\ sock[k].srv = "up"
  BY Types DEF JInv, HangUp
<1>3. /\ s.side = sock[k].side /\ s.rep = sock[k].rep /\ s.broken = sock[k].broken /\ s.req = <<>>
      /\ s.expired = sock[k].expired
  BY <1>2 DEF SockType
<1> HIDE DEF s
<1>4. sock'[k] = s /\ \A d \in Conns : d # k => sock'[d] = sock[d]
  BY <1>1, OneSock DEF JInv
<1>5. Clean(sock[k]) => Clean(s)
  BY <1>3 DEF Clean
<1>6. \A p \in Callers : OnWire(p, caller[p], watch[p], sock[k]) => OnWire(p, caller[p], watch[p], s)
  BY <1>2, <1>3 DEF OnWire, UnderWay, Greeted, Clean
<1> QED
  BY <1>1, <1>3, <1>4, <1>5, <1>6, Served

LEMMA ServeFrames == ASSUME JInv, IInv', NEW k \in Conns, Serve(k) PROVE JInv'
<1> DEFINE tag == Head(sock[k].req)
<1>1. sock[k] \in SockType /\ sock[k].req # <<>> /\ sock[k].srv = "up" /\ UNCHANGED <<idle, caller, watch>>
  BY Types DEF JInv, Serve, pool
<1>2. tag \in Tags
  BY <1>1, HeadTailProperties DEF SockType
<1>3. PICK kind \in Kinds(tag.what), n \in {0, 1} :
        sock' = [sock EXCEPT ![k].req = Tail(@),
                             ![k].rep = IF sock[k].side = "closed" THEN @
                                        ELSE Append(@, [tag |-> tag, kind |-> kind, n |-> n])]
  <2>1. PICK kind \in Kinds(tag.what) :
          LET hit == kind = "ok" /\ Applies(tag.what)
          IN  sock' = [sock EXCEPT
                ![k].req = Tail(@),
                ![k].rep = IF sock[k].side = "closed" THEN @
                           ELSE Append(@, [tag |-> tag, kind |-> kind,
                                           n |-> IF hit THEN 1 ELSE 0])]
    BY DEF Serve
  <2> QED
    BY <2>1
<1> DEFINE a == [tag |-> tag, kind |-> kind, n |-> n]
           s == [sock[k] EXCEPT !.req = Tail(sock[k].req),
                                !.rep = IF sock[k].side = "closed" THEN sock[k].rep
                                        ELSE Append(sock[k].rep, a)]
<1>4. a \in Answers /\ a.tag = tag
  BY <1>2 DEF Answers, Outcomes, Kinds
<1>5. sock' = [sock EXCEPT ![k] = s]
  BY <1>1, <1>3, Types DEF JInv, SockType
<1> HIDE DEF a
<1>6. /\ s.side = sock[k].side /\ s.broken = sock[k].broken /\ s.expired = sock[k].expired
      /\ s.req = Tail(sock[k].req)
      /\ sock[k].side = "open" => s.rep = Append(sock[k].rep, a)
  BY <1>1 DEF SockType
<1> HIDE DEF s
<1>7. sock'[k] = s /\ \A d \in Conns : d # k => sock'[d] = sock[d]
  BY <1>5, OneSock DEF JInv
<1>8. ~Clean(sock[k])
  BY <1>1 DEF Clean
<1>9. ASSUME NEW p \in Callers, sock[k].side = "open", OnWire(p, caller[p], watch[p], sock[k])
      PROVE  OnWire(p, caller[p], watch[p], s)
  <2>1. ~Greeted(sock[k]) /\ ~Clean(sock[k])
    BY <1>1 DEF Greeted, Clean
  <2>2. CASE caller[p].at = "read"
    <3>1. sock[k].req = <<TagOf(p, caller[p])>> /\ sock[k].rep = <<>>
      BY <1>1, <1>9, <2>2 DEF OnWire, UnderWay
    <3>2. tag = TagOf(p, caller[p]) /\ Tail(sock[k].req) = <<>> /\ Append(sock[k].rep, a) = <<a>>
      BY <3>1
    <3>3. UnderWay(p, caller[p], s)
      BY <1>4, <1>6, <1>9, <3>2 DEF UnderWay
    <3> QED
      BY <1>6, <1>9, <2>2, <3>3 DEF OnWire
  <2>3. CASE caller[p].at = "release"
    <3>1. caller[p].err # None
      BY <1>1, <1>9, <2>3 DEF OnWire
    <3> QED
      BY <1>6, <1>9, <2>3, <3>1 DEF OnWire
  <2>4. CASE caller[p].at \notin {"read", "release"}
    BY <1>6, <1>9, <2>1, <2>4 DEF OnWire
  <2> QED
    BY <2>2, <2>3, <2>4
<1> QED
  BY <1>1, <1>4, <1>6, <1>7, <1>8, <1>9, Served

LEMMA TakeIdleFrames == ASSUME JInv, IInv', NEW p \in Callers, TakeIdle(p) PROVE JInv'
<1> DEFINE c == caller[p]
           k == Last(idle)
           n == Len(idle)
           r == [c EXCEPT !.at = "alive", !.conn = Last(idle)]
<1>1. IInv /\ Alone /\ AtRest /\ Framing
  BY DEF JInv
<1>2. c.at = "take" /\ idle \in Seq(Conns) /\ idle # <<>> /\ idle' = Front(idle)
      /\ sock' = sock /\ watch' = watch
  BY <1>1, Types DEF TakeIdle
<1>3. n \in Nat /\ n > 0 /\ k = idle[n] /\ n \in DOMAIN idle /\ k \in Conns
  BY <1>2 DEF Last
<1>4. /\ DOMAIN idle' = 1 .. n - 1 /\ DOMAIN idle = 1 .. n
      /\ \A i \in DOMAIN idle' : i \in DOMAIN idle /\ i # n /\ idle'[i] = idle[i]
  BY <1>2, <1>3 DEF Front, n
<1>5. c \in CallType /\ c.conn = None /\ c.doing = None /\ c.reply = NoReply /\ watch[p].at = "off"
  BY <1>1, <1>2, CallerType DEF CallOK, HoldsAt, Framing, Framed
<1>6. r.at = "alive" /\ r.conn = k /\ r.doing = None /\ r.reply = NoReply
  BY <1>5 DEF CallType
<1>7. caller' = [caller EXCEPT ![p] = r]
  BY <1>1, Types DEF TakeIdle
<1> HIDE DEF r, k, n
<1>8. caller'[p] = r /\ \A q \in Callers : q # p => caller'[q] = caller[q]
  BY <1>1, <1>7, Types
<1>9. sock[k].side = "open" /\ Clean(sock[k])
  BY <1>1, <1>3 DEF AtRest
<1>10. Alone'
  <2>1. \A i, j \in DOMAIN idle' : idle'[i] = idle'[j] => i = j
    BY <1>1, <1>4 DEF Alone
  <2>2. \A i \in DOMAIN idle' : idle'[i] # k
    BY <1>1, <1>3, <1>4 DEF Alone
  <2>3. \A q \in Callers : q # p /\ Has(caller[q]) => caller[q].conn # k
    BY <1>1, <1>3 DEF Alone
  <2>4. \A i \in DOMAIN idle', q \in Callers : Has(caller'[q]) => caller'[q].conn # idle'[i]
    BY <1>1, <1>4, <1>6, <1>8, <2>2 DEF Alone
  <2>5. \A q \in Callers : Has(caller'[q]) => sock'[caller'[q].conn].side = "open"
    BY <1>1, <1>2, <1>6, <1>8, <1>9 DEF Alone
  <2> QED
    BY <1>1, <1>6, <1>8, <2>1, <2>3, <2>4, <2>5 DEF Alone
<1>11. AtRest'
  BY <1>1, <1>2, <1>4 DEF AtRest
<1>12. Framing'
  <2>1. Framed(p, r, watch[p], sock[r.conn])
    BY <1>5, <1>6, <1>9 DEF Framed, OnWire, None
  <2> QED
    BY <1>1, <1>2, <1>8, <2>1 DEF Framing
<1> QED
  BY <1>10, <1>11, <1>12 DEF JInv

LEMMA PutFrames == ASSUME JInv, IInv', NEW p \in Callers, Put(p) PROVE JInv'
<1> DEFINE c == caller[p]
           k == c.conn
           r == [c EXCEPT !.at = "unslot", !.conn = None]
<1>1. c.at = "put" /\ watch' = watch
  BY DEF Put
<1>2. /\ c \in CallType /\ k \in Conns /\ Has(c) /\ sock[k] \in SockType /\ sock[k].side = "open"
      /\ Framed(p, c, watch[p], sock[k]) /\ OnWire(p, c, watch[p], sock[k])
  BY <1>1, Mine
<1>3. /\ r.at = "unslot" /\ r.conn = None /\ r.doing = c.doing /\ r.reply = c.reply
      /\ r.nth = c.nth /\ r.try = c.try /\ r.method = c.method
  BY <1>2 DEF CallType
<1>4. caller' = [caller EXCEPT ![p] = r]
  BY Types DEF JInv, Put, Return
<1> HIDE DEF r
<1>5. ~Has(r) /\ \A s : Framed(p, r, watch[p], s)
  BY <1>1, <1>2, <1>3 DEF Framed, Has, TagOf
<1>6. CASE closed \/ sock[k].broken
  <2>1. idle' = idle /\ sock' = [sock EXCEPT ![k] = Hung(sock[k])]
    BY <1>6 DEF Put
  <2> QED
    BY <1>1, <1>2, <1>4, <1>5, <2>1, OnOwn
<1>7. CASE ~(closed \/ sock[k].broken)
  <2> DEFINE n == Len(idle)
  <2>1. idle' = Append(idle, k) /\ sock' = sock
    BY <1>7 DEF Put
  <2>2. IInv /\ Alone /\ AtRest /\ Framing /\ idle \in Seq(Conns)
    BY Types DEF JInv
  <2>3. /\ n \in Nat /\ DOMAIN idle' = 1 .. n + 1 /\ DOMAIN idle = 1 .. n
        /\ idle'[n + 1] = k /\ \A i \in DOMAIN idle : idle'[i] = idle[i]
    BY <1>2, <2>1, <2>2, AppendProperties
  <2>4. \A i \in DOMAIN idle' : i = n + 1 \/ i \in DOMAIN idle
    BY <2>3
  <2>5. caller'[p] = r /\ \A q \in Callers : q # p => caller'[q] = caller[q]
    BY <1>4, <2>2, Types
  <2>6. Clean(sock[k]) /\ Has(c) /\ c = caller[p] /\ c.conn = k /\ sock[k].side = "open"
    BY <1>1, <1>2, <1>7 DEF OnWire
  <2> HIDE DEF n, k, c
  <2>7. \A i \in DOMAIN idle : idle[i] # k
    BY <2>2, <2>6 DEF Alone
  <2>8. \A q \in Callers : Has(caller'[q]) => q # p /\ Has(caller[q]) /\ caller'[q] = caller[q]
                                           /\ caller[q].conn # k
    BY <1>5, <2>2, <2>5, <2>6 DEF Alone
  <2>9. Alone'
    <3>1. \A i, j \in DOMAIN idle' : idle'[i] = idle'[j] => i = j
      BY <2>2, <2>3, <2>4, <2>7 DEF Alone
    <3>2. \A i \in DOMAIN idle', q \in Callers : Has(caller'[q]) => caller'[q].conn # idle'[i]
      BY <2>2, <2>3, <2>4, <2>8 DEF Alone
    <3> QED
      BY <2>1, <2>2, <2>8, <3>1, <3>2 DEF Alone
  <2>10. AtRest'
    BY <2>1, <2>2, <2>3, <2>4, <2>6 DEF AtRest
  <2>11. Framing'
    BY <1>1, <1>5, <2>1, <2>2, <2>5 DEF Framing
  <2> QED
    BY <2>9, <2>10, <2>11 DEF JInv
<1> QED
  BY <1>6, <1>7

LEMMA CloseFrames == ASSUME JInv, IInv', Close PROVE JInv'
<1>1. IInv /\ Alone /\ AtRest /\ Framing /\ idle \in Seq(Conns)
  BY Types DEF JInv
<1>2. UNCHANGED <<caller, watch>> /\ idle' = <<>> /\ DOMAIN idle' = {}
  BY DEF Close
<1>3. ASSUME NEW q \in Callers, Has(caller[q])
      PROVE  sock'[caller[q].conn] = sock[caller[q].conn]
  <2>1. caller[q].conn \in Conns /\ \A i \in DOMAIN idle : idle[i] # caller[q].conn
    BY <1>1, <1>3, HeldConn DEF Alone
  <2>2. ~Contains(idle, caller[q].conn)
    BY <2>1 DEF Contains
  <2> QED
    BY <2>1, <2>2 DEF Close
<1>4. Alone' /\ AtRest'
  BY <1>1, <1>2, <1>3 DEF Alone, AtRest
<1>5. Framing'
  <2> SUFFICES ASSUME NEW q \in Callers PROVE Framed(q, caller'[q], watch'[q], sock'[caller'[q].conn])
    BY DEF Framing, Framed, OnWire, UnderWay, Greeted, Clean, Has, TagOf
  <2>1. Framed(q, caller[q], watch[q], sock[caller[q].conn]) /\ caller' = caller /\ watch' = watch
    BY <1>1, <1>2 DEF Framing
  <2> QED
    BY <1>3, <2>1 DEF Framed
<1> QED
  BY <1>4, <1>5 DEF JInv

LEMMA FramesInit == Init => JInv
<1> SUFFICES ASSUME Init PROVE JInv
  OBVIOUS
<1>1. DOMAIN idle = {} /\ \A p \in Callers : caller[p] = NoCall /\ watch[p] = NoWatch
  BY DEF Init
<1>2. \A p \in Callers : ~Has(caller[p])
  BY <1>1 DEF Has, NoCall
<1>3. Alone /\ AtRest
  BY <1>1, <1>2 DEF Alone, AtRest
<1>4. Framing
  BY <1>1, <1>2 DEF Framing, Framed, NoCall, NoWatch, None
<1> QED
  BY <1>3, <1>4, InitHolds DEF JInv

LEMMA FramesKept == ASSUME JInv, [Next]_vars PROVE JInv'
<1>1. IInv'
  BY NextKeeps DEF JInv
<1>2. CASE UNCHANGED <<idle, caller, watch, sock>>
  BY <1>1, <1>2 DEF JInv, Alone, AtRest, Framing
<1>3. ASSUME NEW p \in Callers, Step(p) PROVE JInv'
  <2>1. CASE Get(p) \/ TakeSlot(p) \/ SlotGivenUp(p) \/ NoIdle(p) \/ Forget(p) \/ Check(p)
             \/ DialFails(p) \/ DialGivenUp(p) \/ Unslot(p) \/ Answered(p)
    BY <1>1, <2>1, OutsideKeeps
  <2>2. CASE TakeIdle(p) \/ (\E since \in {"fresh", "aged", "expired"} : Alive(p, since))
             \/ Redial(p) \/ (\E c \in Conns, s \in {Accepted, TurnedAway} : Dial(p, c, s))
             \/ NotSent(p) \/ Send(p) \/ SendFails(p)
    BY <1>1, <2>2, TakeIdleFrames, AliveFrames, RedialFrames, DialFrames, NotSentFrames, SendFrames,
       SendFailsFrames
  <2>3. CASE Read(p) \/ ReadFails(p) \/ Release(p) \/ Adopt(p) \/ Put(p) \/ Backoff(p)
    BY <1>1, <2>3, ReadFrames, ReadFailsFrames, ReleaseFrames, AdoptFrames, PutFrames, BackoffFrames
  <2> QED
    BY <1>3, <2>1, <2>2, <2>3 DEF Step
<1>4. ASSUME NEW p \in Callers, Watch(p) \/ Cancel(p) \/ (\E m \in DOMAIN Policy : Start(p, m))
      PROVE  JInv'
  <2>1. CASE Cancel(p)
    BY <1>2, <2>1 DEF Cancel, pool
  <2> QED
    BY <1>1, <1>4, <2>1, WatchFrames, StartFrames
<1>5. ASSUME NEW c \in Conns, Serve(c) \/ HangUp(c) PROVE JInv'
  BY <1>1, <1>5, ServeFrames, HangUpFrames
<1>6. CASE Close
  BY <1>1, <1>6, CloseFrames
<1>7. CASE UNCHANGED vars
  BY <1>2, <1>7 DEF vars, pool
<1> QED
  BY <1>3, <1>4, <1>5, <1>6, <1>7 DEF Next

(* pool.go, put, and conn.go, release: a connection in the pool is at a    *)
(* frame boundary.  Nothing that was asked on it is unanswered, no reply   *)
(* to an earlier caller is waiting on it, and no interrupt of one can      *)
(* land on it any more, whatever failed, and when, in the call before.     *)
THEOREM IdleAlwaysClean == Spec => []IdleClean
<1>1. JInv => IdleClean
  <2> SUFFICES ASSUME JInv, NEW i \in DOMAIN idle
               PROVE  /\ sock[idle[i]].side = "open" /\ Clean(sock[idle[i]])
                      /\ \A p \in Callers : watch[p].at # "off" => watch[p].conn # idle[i]
    BY DEF IdleClean, Clean
  <2>1. sock[idle[i]].side = "open" /\ Clean(sock[idle[i]])
    BY DEF JInv, AtRest
  <2>2. ASSUME NEW p \in Callers, watch[p].at # "off" PROVE watch[p].conn # idle[i]
    <3>1. caller[p].at \in {"read", "release"} /\ watch[p].conn = caller[p].conn
      BY <2>2 DEF JInv, Framing, Framed
    <3>2. Has(caller[p])
      BY <3>1, Mine
    <3> QED
      BY <3>1, <3>2 DEF JInv, Alone
  <2> QED
    BY <2>1, <2>2
<1> QED
  BY <1>1, FramesInit, FramesKept, PTL DEF Spec

(* conn.go, exchange: the reply a caller is given answers the very command *)
(* it sent last, never one of another caller, of an earlier call or of an  *)
(* earlier attempt, although replies carry nothing that says so.           *)
THEOREM RepliesAreOwn == Spec => []OwnReply
<1>1. JInv => OwnReply
  BY DEF JInv, Framing, Framed, OwnReply, Tag, TagOf
<1> QED
  BY <1>1, FramesInit, FramesKept, PTL DEF Spec

-----------------------------------------------------------------------------
(* Which requests are on their way, and what they have done                *)

OnceMethods == {"SetNX", "Del"}

Sent(s) == {s.req[i] : i \in DOMAIN s.req}

(* The tag t is that of the command of the call that p is in, at c.        *)
Asks(t, p, c) == t.by = p /\ t.nth = c.nth /\ t.what = c.method
NoneSent(p, c, net) == \A k \in Conns : \A t \in Sent(net[k]) : ~Asks(t, p, c)
Unsent(c) == c.doing # "call" \/ c.at \in {"adopt", "send"}

(* No request is from a call still to come, and none of the present call   *)
(* of a caller asks for another command.                                   *)
TagsOK ==
  \A k \in Conns : \A t \in Sent(sock[k]) :
    /\ t.by \in Callers /\ t.nth <= caller[t.by].nth
    /\ t.nth = caller[t.by].nth => t.what \in {"HELLO", "AUTH", caller[t.by].method}

(* A handshake that failed has an error to show.                           *)
Handshakes(c) ==
  /\ c.doing \in {"HELLO", "AUTH"}
       /\ c.at \in {"redial", "unslot", "answered", "backoff", "returned"} => c.err # None
  /\ c.at \in {"check", "dial", "redial"} => c.doing # "call"

(* A command that is not retried is sent once: before that it has not been *)
(* run, and once its reply is there it will not be run again.              *)
Once(p, c, net, tk) ==
  /\ c.try = 1 /\ c.at # "backoff"
  /\ Unsent(c) => p \notin tk /\ NoneSent(p, c, net)
  /\ c.doing = "call" /\ c.at = "read" =>
       /\ \A k \in Conns : k # c.conn => \A t \in Sent(net[k]) : ~Asks(t, p, c)
       /\ net[c.conn].req # <<>> => p \notin tk
       /\ \A i \in DOMAIN net[c.conn].rep : p \in tk => net[c.conn].rep[i].n = 1
  /\ c.doing = "call" /\ c.reply # NoReply => NoneSent(p, c, net) /\ (p \in tk => c.reply.n = 1)

Settled(p, c, net, tk) ==
  Handshakes(c) /\ (c.method \in OnceMethods => Once(p, c, net, tk))

KInv == JInv /\ TagsOK /\ \A p \in Callers : Settled(p, caller[p], sock, took)

LEMMA SentNone == ASSUME NEW s, s.req = <<>> PROVE Sent(s) = {}
BY DEF Sent

(* A caller that has not read is not disturbed by what another one does.   *)
LEMMA OthersSettled ==
  ASSUME KInv, NEW p \in Callers, NEW q \in Callers, q # p,
         NEW k, \A c \in Conns : c # k => sock'[c] = sock[c],
         k \in Conns => (Has(caller[p]) /\ caller[p].conn = k) \/ sock[k].side = "closed",
         k \in Conns => Sent(sock'[k]) \subseteq Sent(sock[k]) \union {Tag(p)}
  PROVE  Settled(q, caller[q], sock', took)
<1> DEFINE c == caller[q]
<1>1. Settled(q, c, sock, took) /\ JInv
  BY DEF KInv
<1>2. SUFFICES ASSUME c.method \in OnceMethods PROVE Once(q, c, sock', took)
  BY <1>1 DEF Settled
<1>3. Once(q, c, sock, took)
  BY <1>1, <1>2 DEF Settled
<1>4. \A j \in Conns : \A t \in Sent(sock'[j]) : t \in Sent(sock[j]) \/ t = Tag(p)
  OBVIOUS
<1>5. ~Asks(Tag(p), q, c)
  BY DEF Asks, Tag
<1>6. NoneSent(q, c, sock) => NoneSent(q, c, sock')
  BY <1>4, <1>5 DEF NoneSent
<1>7. CASE c.doing = "call" /\ c.at = "read"
  <2>1. Has(c) /\ c.conn \in Conns /\ sock[c.conn].side = "open"
    BY <1>1, <1>7, Mine
  <2>2. c.conn # k
    BY <1>1, <2>1 DEF JInv, Alone
  <2>3. sock'[c.conn] = sock[c.conn]
    BY <2>1, <2>2
  <2>4. \A j \in Conns : j # c.conn => \A t \in Sent(sock'[j]) : ~Asks(t, q, c)
    BY <1>3, <1>4, <1>5, <1>7 DEF Once
  <2> QED
    BY <1>3, <1>6, <1>7, <2>3, <2>4 DEF Once
<1>8. CASE ~(c.doing = "call" /\ c.at = "read")
  BY <1>3, <1>6, <1>8 DEF Once
<1> QED
  BY <1>7, <1>8

LEMMA OnceLocal ==
  ASSUME KInv, JInv', NEW p \in Callers, NEW r, caller' = [caller EXCEPT ![p] = r], took' = took,
         r.nth = caller[p].nth, r.method = caller[p].method,
         NEW k, \A c \in Conns : c # k => sock'[c] = sock[c],
         k \in Conns => (Has(caller[p]) /\ caller[p].conn = k) \/ sock[k].side = "closed",
         k \in Conns => \/ Sent(sock'[k]) \subseteq Sent(sock[k])
                       \/ /\ Sent(sock'[k]) \subseteq Sent(sock[k]) \union {Tag(p)}
                          /\ caller[p].doing \in {"call", "HELLO", "AUTH"},
         Settled(p, r, sock', took)
  PROVE  KInv'
<1>1. caller'[p] = r /\ \A q \in Callers : q # p => caller'[q] = caller[q]
  BY Types DEF KInv, JInv
<1>2. ASSUME NEW q \in Callers PROVE Settled(q, caller'[q], sock', took')
  <2>1. CASE q = p
    BY <1>1, <2>1
  <2>2. CASE q # p
    <3>1. Settled(q, caller[q], sock', took)
      BY <2>2, OthersSettled
    <3> QED
      BY <1>1, <2>2, <3>1
  <2> QED
    BY <2>1, <2>2
<1>3. \A q \in Callers : caller'[q].nth = caller[q].nth /\ caller'[q].method = caller[q].method
  BY <1>1
<1>4. TagsOK'
  <2> SUFFICES ASSUME NEW j \in Conns, NEW t \in Sent(sock'[j])
               PROVE  /\ t.by \in Callers /\ t.nth <= caller'[t.by].nth
                      /\ t.nth = caller'[t.by].nth => t.what \in {"HELLO", "AUTH", caller'[t.by].method}
    BY DEF TagsOK, Sent
  <2>1. CASE t \in Sent(sock[j])
    BY <1>3, <2>1 DEF KInv, TagsOK
  <2>2. CASE t \notin Sent(sock[j])
    <3>1. t = Tag(p) /\ caller[p].doing \in {"call", "HELLO", "AUTH"}
      BY <2>2
    <3>2. caller[p].nth \in Nat
      BY CallerType DEF KInv, JInv, CallType
    <3>3. t.by = p /\ t.nth = caller[p].nth /\ t.what \in {"HELLO", "AUTH", caller[p].method}
      BY <3>1 DEF Tag
    <3> QED
      BY <1>3, <3>2, <3>3
  <2> QED
    BY <2>1, <2>2
<1> QED
  BY <1>2, <1>4 DEF KInv, Settled, Once, Handshakes, NoneSent, Sent, Asks, Unsent

(* A step of a caller that sends nothing and reads nothing.                *)
LEMMA OnceMoves ==
  ASSUME KInv, JInv', NEW p \in Callers, NEW r, caller' = [caller EXCEPT ![p] = r], took' = took,
         r.nth = caller[p].nth, r.method = caller[p].method, r.try = caller[p].try,
         NEW k, \A c \in Conns : c # k => sock'[c] = sock[c],
         k \in Conns => (Has(caller[p]) /\ caller[p].conn = k) \/ sock[k].side = "closed",
         k \in Conns => Sent(sock'[k]) \subseteq Sent(sock[k]),
         Handshakes(r),
         caller[p].method \in OnceMethods => r.at # "backoff",
         Unsent(r) => Unsent(caller[p]), r.at # "read",
         r.doing = "call" /\ r.reply # NoReply => caller[p].doing = "call" /\ r.reply = caller[p].reply
  PROVE  KInv'
<1> DEFINE c == caller[p]
<1>1. Settled(p, c, sock, took)
  BY DEF KInv
<1>2. NoneSent(p, c, sock) => NoneSent(p, r, sock')
  BY DEF NoneSent, Asks
<1>3. c.method \in OnceMethods => Once(p, r, sock', took)
  BY <1>1, <1>2 DEF Settled, Once
<1>4. Settled(p, r, sock', took)
  BY <1>3 DEF Settled
<1> QED
  BY <1>4, OnceLocal

(* Without a change to any connection, and with the caller's own hung up.  *)
LEMMA OnceShift ==
  ASSUME KInv, JInv', NEW p \in Callers, NEW r, caller' = [caller EXCEPT ![p] = r], took' = took,
         r.nth = caller[p].nth, r.method = caller[p].method, r.try = caller[p].try,
         sock' = sock, Handshakes(r),
         caller[p].method \in OnceMethods => r.at # "backoff",
         Unsent(r) => Unsent(caller[p]), r.at # "read",
         r.doing = "call" /\ r.reply # NoReply => caller[p].doing = "call" /\ r.reply = caller[p].reply
  PROVE  KInv'
<1>1. None \notin Conns /\ \A c \in Conns : c # None => sock'[c] = sock[c]
  OBVIOUS
<1> QED
  BY <1>1, OnceMoves

LEMMA OnceOwn ==
  ASSUME KInv, JInv', NEW p \in Callers, NEW r, caller' = [caller EXCEPT ![p] = r], took' = took,
         r.nth = caller[p].nth, r.method = caller[p].method, r.try = caller[p].try,
         Has(caller[p]), NEW s, sock' = [sock EXCEPT ![caller[p].conn] = s],
         s.req = sock[caller[p].conn].req, Handshakes(r),
         caller[p].method \in OnceMethods => r.at # "backoff",
         Unsent(r) => Unsent(caller[p]), r.at # "read",
         r.doing = "call" /\ r.reply # NoReply => caller[p].doing = "call" /\ r.reply = caller[p].reply
  PROVE  KInv'
<1> DEFINE k == caller[p].conn
<1>1. k \in Conns /\ caller[p].conn = k
  BY HeldConn DEF KInv, JInv
<1>2. sock' = [sock EXCEPT ![k] = s] /\ s.req = sock[k].req
  OBVIOUS
<1> HIDE DEF k
<1>3. sock'[k] = s /\ \A c \in Conns : c # k => sock'[c] = sock[c]
  <2>1. sock \in [Conns -> SockType]
    BY Types DEF KInv, JInv
  <2> QED
    BY <1>1, <1>2, <2>1
<1>4. Sent(sock'[k]) \subseteq Sent(sock[k])
  BY <1>2, <1>3 DEF Sent
<1> QED
  BY <1>1, <1>3, <1>4, OnceMoves, ZenonT(40)

(* Go, Fail and Drop.                                                      *)
LEMMA OnceGo ==
  ASSUME KInv, JInv', NEW p \in Callers, NEW place, NEW e,
         (Go(p, place) /\ e = caller[p].err) \/ Fail(p, place, e) \/ Drop(p, place, e),
         sock' = sock, took' = took, place \notin {"adopt", "send", "read"},
         caller[p].method \in OnceMethods => place # "backoff",
         place \in {"redial", "unslot", "answered", "backoff", "returned"}
           /\ caller[p].doing \in {"HELLO", "AUTH"} => e # None,
         place \in {"check", "dial", "redial"} => caller[p].doing # "call"
  PROVE  KInv'
<1> DEFINE c == caller[p]
<1>1. c \in CallType
  BY CallerType DEF KInv, JInv
<1>2. PICK r : /\ caller' = [caller EXCEPT ![p] = r]
               /\ r.at = place /\ r.doing = c.doing /\ r.reply = c.reply /\ r.err = e
               /\ r.nth = c.nth /\ r.try = c.try /\ r.method = c.method
  <2>1. CASE Go(p, place) /\ e = c.err
    <3> DEFINE r == [c EXCEPT !.at = place]
    <3>1. caller' = [caller EXCEPT ![p] = r]
      BY <2>1, Types DEF KInv, JInv
    <3>2. r.at = place /\ r.doing = c.doing /\ r.reply = c.reply /\ r.err = e
          /\ r.nth = c.nth /\ r.try = c.try /\ r.method = c.method
      BY <1>1, <2>1 DEF CallType
    <3> HIDE DEF r
    <3> QED
      BY <3>1, <3>2
  <2>2. CASE Fail(p, place, e)
    <3> DEFINE r == [c EXCEPT !.at = place, !.err = e]
    <3>1. caller' = [caller EXCEPT ![p] = r]
      BY <2>2, Types DEF KInv, JInv
    <3>2. r.at = place /\ r.doing = c.doing /\ r.reply = c.reply /\ r.err = e
          /\ r.nth = c.nth /\ r.try = c.try /\ r.method = c.method
      BY <1>1 DEF CallType
    <3> HIDE DEF r
    <3> QED
      BY <3>1, <3>2
  <2>3. CASE Drop(p, place, e)
    <3> DEFINE r == [c EXCEPT !.at = place, !.err = e, !.conn = None]
    <3>1. caller' = [caller EXCEPT ![p] = r]
      BY <2>3, Types DEF KInv, JInv
    <3>2. r.at = place /\ r.doing = c.doing /\ r.reply = c.reply /\ r.err = e
          /\ r.nth = c.nth /\ r.try = c.try /\ r.method = c.method
      BY <1>1 DEF CallType
    <3> HIDE DEF r
    <3> QED
      BY <3>1, <3>2
  <2> QED
    BY <2>1, <2>2, <2>3
<1>3. Handshakes(r)
  BY <1>2 DEF Handshakes
<1>4. Unsent(r) => Unsent(c)
  BY <1>2 DEF Unsent
<1> QED
  BY <1>2, <1>3, <1>4, OnceShift

(* What the caller p knows at each place without a connection.             *)
LEMMA Apart ==
  ASSUME KInv, NEW p \in Callers
  PROVE  /\ caller[p] \in CallType /\ CallOK(caller[p]) /\ Handshakes(caller[p])
         /\ caller[p].at \in {"get", "slot", "take", "alive", "forget"} => caller[p].doing = None
BY CallerType DEF KInv, JInv, CallOK, HoldsAt, Settled

HIDE DEF Go, Fail, Drop

LEMMA OnceOn ==
  ASSUME KInv, JInv', NEW p \in Callers, NEW place, Go(p, place),
         sock' = sock, took' = took, place \notin {"adopt", "send", "read"},
         caller[p].method \in OnceMethods => place # "backoff",
         place \in {"redial", "unslot", "answered", "backoff", "returned"}
           /\ caller[p].doing \in {"HELLO", "AUTH"} => caller[p].err # None,
         place \in {"check", "dial", "redial"} => caller[p].doing # "call"
  PROVE  KInv'
<1> DEFINE e == caller[p].err
<1>1. /\ Go(p, place) /\ e = caller[p].err
      /\ place \in {"redial", "unslot", "answered", "backoff", "returned"}
           /\ caller[p].doing \in {"HELLO", "AUTH"} => e # None
  OBVIOUS
<1> HIDE DEF e
<1> QED
  BY <1>1, OnceGo

LEMMA OutsideOnce ==
  ASSUME KInv, JInv', NEW p \in Callers,
         \/ Get(p) \/ TakeSlot(p) \/ SlotGivenUp(p) \/ NoIdle(p) \/ Forget(p) \/ Check(p)
         \/ DialFails(p) \/ DialGivenUp(p) \/ Unslot(p) \/ Answered(p)
  PROVE  KInv'
<1> DEFINE c == caller[p]
<1>1. Handshakes(c) /\ (c.at \in {"get", "slot", "take", "alive", "forget"} => c.doing = None)
  BY Apart
<1>2. None \notin {"call", "HELLO", "AUTH", "wire", "closed", "context"}
  BY DEF None
<1>3. CASE Get(p) \/ SlotGivenUp(p)
  <2>1. /\ c.doing = None /\ UNCHANGED <<sock, took>>
        /\ \/ Fail(p, "answered", "context") \/ Fail(p, "answered", "closed") \/ Go(p, "slot")
    BY <1>1, <1>3 DEF Get, SlotGivenUp, pool, server, At
  <2>2. CASE Fail(p, "answered", "context") \/ Fail(p, "answered", "closed")
    BY <1>2, <2>1, <2>2, OnceGo
  <2>3. CASE Go(p, "slot")
    BY <1>2, <2>1, <2>3, OnceOn
  <2> QED
    BY <2>1, <2>2, <2>3
<1>4. CASE TakeSlot(p) \/ NoIdle(p) \/ Forget(p)
  <2>1. /\ c.doing = None /\ UNCHANGED <<sock, took>>
        /\ \/ Go(p, "take") \/ Go(p, "check") \/ Drop(p, "take", None)
    BY <1>1, <1>4 DEF TakeSlot, NoIdle, Forget, pool, server, At
  <2>2. CASE Go(p, "take")
    BY <1>2, <2>1, <2>2, OnceOn
  <2>3. CASE Go(p, "check")
    BY <1>2, <2>1, <2>3, OnceOn
  <2>4. CASE Drop(p, "take", None)
    BY <1>2, <2>1, <2>4, OnceGo
  <2> QED
    BY <2>1, <2>2, <2>3, <2>4
<1>5. CASE Check(p) \/ DialFails(p)
  <2>1. /\ c.doing # "call" /\ UNCHANGED <<sock, took>>
        /\ \/ Fail(p, "unslot", "closed") \/ Fail(p, "redial", "wire") \/ Go(p, "dial")
    BY <1>1, <1>5 DEF Check, DialFails, pool, server, At, Handshakes
  <2>2. CASE Fail(p, "unslot", "closed")
    BY <1>2, <2>1, <2>2, OnceGo
  <2>3. CASE Fail(p, "redial", "wire")
    BY <1>2, <2>1, <2>3, OnceGo
  <2>4. CASE Go(p, "dial")
    BY <1>2, <2>1, <2>4, OnceOn
  <2> QED
    BY <2>1, <2>2, <2>3, <2>4
<1>6. CASE DialGivenUp(p)
  <2>1. /\ c.doing \in {"HELLO", "AUTH"} => c.err # None
        /\ UNCHANGED <<sock, took>> /\ (Go(p, "unslot") \/ Fail(p, "unslot", "context"))
    BY <1>1, <1>6 DEF DialGivenUp, pool, server, At, Handshakes
  <2>2. CASE Go(p, "unslot")
    BY <1>2, <2>1, <2>2, OnceOn
  <2>3. CASE Fail(p, "unslot", "context")
    BY <1>2, <2>1, <2>3, OnceGo
  <2> QED
    BY <2>1, <2>2, <2>3
<1>7. CASE Unslot(p)
  <2>1. /\ c.doing \in {"HELLO", "AUTH"} => c.err # None
        /\ UNCHANGED <<sock, took>> /\ Go(p, "answered")
    BY <1>1, <1>7 DEF Unslot, server, At, Handshakes
  <2> QED
    BY <2>1, OnceOn
<1>8. CASE Answered(p)
  <2>1. /\ c.doing \in {"HELLO", "AUTH"} => c.err # None
        /\ UNCHANGED <<sock, took>> /\ (IF Again(p) THEN Go(p, "backoff") ELSE Go(p, "returned"))
    BY <1>1, <1>8 DEF Answered, pool, server, At, Handshakes
  <2>2. c.method \in OnceMethods => ~Again(p)
    <3> SUFFICES ASSUME c.method \in OnceMethods PROVE ~(c.try < Attempts(p))
      BY DEF Again
    <3>1. c.try = 1
      BY DEF KInv, Settled, Once
    <3>2. Attempts(p) = 1
      BY DEF Attempts, Policy, OnceMethods
    <3> QED
      BY <3>1, <3>2
  <2>3. CASE Again(p)
    BY <2>1, <2>2, <2>3, OnceOn
  <2>4. CASE ~Again(p)
    BY <2>1, <2>4, OnceOn
  <2> QED
    BY <2>3, <2>4
<1> QED
  BY <1>3, <1>4, <1>5, <1>6, <1>7, <1>8

LEMMA RedialOnce == ASSUME KInv, JInv', NEW p \in Callers, Redial(p) PROVE KInv'
<1> DEFINE c == caller[p]
           r == [c EXCEPT !.at = "dial", !.dials = @ + 1, !.err = None]
<1>1. c \in CallType /\ c.doing # "call"
  BY Apart DEF Redial, Handshakes
<1>2. /\ r.at = "dial" /\ r.doing = c.doing /\ r.reply = c.reply
      /\ r.nth = c.nth /\ r.try = c.try /\ r.method = c.method
  BY <1>1 DEF CallType
<1>3. caller' = [caller EXCEPT ![p] = r] /\ sock' = sock /\ took' = took
  BY Types DEF Redial, KInv, JInv, server
<1> HIDE DEF r
<1>4. Handshakes(r) /\ (Unsent(r) => Unsent(c))
  BY <1>1, <1>2 DEF Handshakes, Unsent
<1> QED
  BY <1>1, <1>2, <1>3, <1>4, OnceShift

LEMMA BackoffOnce == ASSUME KInv, JInv', NEW p \in Callers, Backoff(p) PROVE KInv'
<1> DEFINE c == caller[p]
           r == [c EXCEPT !.at = "get", !.try = @ + 1, !.err = None,
                          !.dials = 0, !.doing = None, !.reply = NoReply]
<1>1. c \in CallType /\ c.at = "backoff" /\ c.method \notin OnceMethods /\ Handshakes(c)
      /\ sock' = sock /\ took' = took
  BY Apart DEF Backoff, KInv, Settled, Once, server
<1>2. CASE caller' = [caller EXCEPT ![p].at = "get", ![p].try = @ + 1, ![p].err = None,
                                    ![p].dials = 0, ![p].doing = None, ![p].reply = NoReply]
  <2>1. r.at = "get" /\ r.doing = None /\ r.nth = c.nth /\ r.method = c.method
    BY <1>1 DEF CallType
  <2>2. caller' = [caller EXCEPT ![p] = r]
    BY <1>2, Types DEF KInv, JInv
  <2> HIDE DEF r
  <2>3. Settled(p, r, sock', took)
    BY <1>1, <2>1 DEF Settled, Handshakes, None
  <2>4. None \notin Conns /\ \A k \in Conns : k # None => sock'[k] = sock[k]
    BY <1>1
  <2> QED
    BY <1>1, <2>1, <2>2, <2>3, <2>4, OnceLocal
<1>3. CASE Fail(p, "returned", "context")
  <2>1. "context" # None
    BY DEF None
  <2> QED
    BY <1>1, <1>3, <2>1, OnceGo
<1> QED
  BY <1>2, <1>3 DEF Backoff

LEMMA AliveOnce == ASSUME KInv, JInv', NEW p \in Callers, NEW since, Alive(p, since) PROVE KInv'
<1> DEFINE c == caller[p]
           k == c.conn
           good == Healthy(sock[k], since)
           r == [c EXCEPT !.at = IF good THEN "send" ELSE "forget",
                          !.doing = IF good THEN "call" ELSE None]
<1>1. c.at = "alive" /\ JInv /\ took' = took
  BY DEF Alive, KInv, server
<1>2. c \in CallType /\ k \in Conns /\ sock[k] \in SockType /\ Has(c) /\ c.doing = None
      /\ c.reply = NoReply
  BY <1>1, Mine, Apart DEF Framed
<1>3. /\ r.at = (IF good THEN "send" ELSE "forget") /\ r.doing = (IF good THEN "call" ELSE None)
      /\ r.reply = NoReply /\ r.nth = c.nth /\ r.try = c.try /\ r.method = c.method
  BY <1>2 DEF CallType
<1>4. caller' = [caller EXCEPT ![p] = r]
  BY Types DEF KInv, JInv, Alive
<1>5. Handshakes(r) /\ Unsent(c) /\ r.at \notin {"read", "backoff"}
  BY <1>2, <1>3 DEF Handshakes, Unsent, None
<1> HIDE DEF r
<1>6. CASE good
  <2>1. sock' = sock
    BY <1>6 DEF Alive
  <2> QED
    BY <1>1, <1>2, <1>3, <1>4, <1>5, <2>1, OnceShift
<1>7. CASE ~good
  <2>1. sock' = [sock EXCEPT ![k] = Hung(sock[k])]
    BY <1>7 DEF Alive
  <2>2. Hung(sock[k]).req = sock[k].req
    BY <1>2 DEF Hung, SockType
  <2> QED
    BY <1>1, <1>2, <1>3, <1>4, <1>5, <2>1, <2>2, OnceOwn
<1> QED
  BY <1>6, <1>7

LEMMA TakeIdleOnce == ASSUME KInv, JInv', NEW p \in Callers, TakeIdle(p) PROVE KInv'
<1> DEFINE c == caller[p]
           r == [c EXCEPT !.at = "alive", !.conn = Last(idle)]
<1>1. c \in CallType /\ c.doing = None /\ sock' = sock /\ took' = took
  BY Apart DEF TakeIdle, server
<1>2. /\ r.at = "alive" /\ r.doing = None /\ r.reply = c.reply
      /\ r.nth = c.nth /\ r.try = c.try /\ r.method = c.method
  BY <1>1 DEF CallType
<1>3. caller' = [caller EXCEPT ![p] = r]
  BY Types DEF KInv, JInv, TakeIdle
<1> HIDE DEF r
<1>4. Handshakes(r) /\ Unsent(c) /\ r.doing # "call"
  BY <1>1, <1>2 DEF Handshakes, Unsent, None
<1> QED
  BY <1>1, <1>2, <1>3, <1>4, OnceShift

LEMMA DialOnce ==
  ASSUME KInv, JInv', NEW p \in Callers, NEW k \in Conns, NEW s \in {Accepted, TurnedAway},
         Dial(p, k, s)
  PROVE  KInv'
<1> DEFINE c == caller[p]
           r == [c EXCEPT !.at = "send", !.conn = k, !.doing = "HELLO"]
<1>1. c \in CallType /\ c.doing # "call" /\ sock[k].side = "closed" /\ took' = took
  BY Apart DEF Dial, Free, Handshakes, server
<1>2. /\ r.at = "send" /\ r.doing = "HELLO" /\ r.nth = c.nth /\ r.try = c.try
      /\ r.method = c.method
  BY <1>1 DEF CallType
<1>3. caller' = [caller EXCEPT ![p] = r] /\ sock' = [sock EXCEPT ![k] = s]
  BY Types DEF KInv, JInv, Dial
<1>4. sock'[k] = s /\ \A d \in Conns : d # k => sock'[d] = sock[d]
  BY <1>3, OneSock DEF KInv, JInv
<1>5. s.req = <<>>
  BY DEF Accepted, TurnedAway, Unused
<1>6. Sent(sock'[k]) \subseteq Sent(sock[k])
  BY <1>4, <1>5 DEF Sent
<1> HIDE DEF r
<1>7. Handshakes(r) /\ Unsent(c)
  BY <1>1, <1>2 DEF Handshakes, Unsent
<1> QED
  BY <1>1, <1>2, <1>3, <1>4, <1>6, <1>7, OnceMoves

LEMMA NotSentOnce == ASSUME KInv, JInv', NEW p \in Callers, NotSent(p) PROVE KInv'
<1> DEFINE c == caller[p]
           k == c.conn
<1>1. c.at = "send" /\ JInv /\ took' = took
  BY DEF NotSent, KInv, server
<1>2. c \in CallType /\ k \in Conns /\ Has(c) /\ sock[k] \in SockType
  BY <1>1, Mine
<1>3. CASE c.doing = "call"
  <2>1. Fail(p, "put", "context") /\ sock' = sock
    BY <1>3 DEF NotSent
  <2> QED
    BY <1>1, <2>1, OnceGo
<1>4. CASE c.doing # "call"
  <2> DEFINE r == [c EXCEPT !.at = "redial", !.err = "context", !.conn = None]
  <2>1. /\ r.at = "redial" /\ r.doing = c.doing /\ r.reply = c.reply /\ r.err = "context"
        /\ r.nth = c.nth /\ r.try = c.try /\ r.method = c.method
    BY <1>2 DEF CallType
  <2>2. caller' = [caller EXCEPT ![p] = r] /\ sock' = [sock EXCEPT ![k] = Hung(sock[k])]
    BY <1>4, Types DEF KInv, JInv, NotSent, Drop
  <2>3. Hung(sock[k]).req = sock[k].req
    BY <1>2 DEF Hung, SockType
  <2> HIDE DEF r
  <2>4. Handshakes(r) /\ Unsent(c)
    BY <1>4, <2>1 DEF Handshakes, Unsent, None
  <2> QED
    BY <1>1, <1>2, <1>4, <2>1, <2>2, <2>3, <2>4, OnceOwn
<1> QED
  BY <1>3, <1>4

LEMMA FailsOnce ==
  ASSUME KInv, JInv', NEW p \in Callers, SendFails(p) \/ ReadFails(p) PROVE KInv'
<1>1. Fail(p, "release", "wire") /\ sock' = sock /\ took' = took
  BY DEF SendFails, ReadFails, server
<1> QED
  BY <1>1, OnceGo

LEMMA AdoptOnce == ASSUME KInv, JInv', NEW p \in Callers, Adopt(p) PROVE KInv'
<1> DEFINE c == caller[p]
           r == [c EXCEPT !.at = "send"]
<1>1. c \in CallType /\ c.at = "adopt" /\ sock' = sock /\ took' = took
  BY Apart DEF Adopt, server
<1>2. /\ r.at = "send" /\ r.doing = c.doing /\ r.reply = c.reply
      /\ r.nth = c.nth /\ r.try = c.try /\ r.method = c.method
  BY <1>1 DEF CallType
<1>3. caller' = [caller EXCEPT ![p] = r]
  BY Types DEF KInv, JInv, Adopt, Go
<1> HIDE DEF r
<1>4. Handshakes(r) /\ Unsent(c)
  BY <1>1, <1>2 DEF Handshakes, Unsent
<1> QED
  BY <1>1, <1>2, <1>3, <1>4, OnceShift

LEMMA PutOnce == ASSUME KInv, JInv', NEW p \in Callers, Put(p) PROVE KInv'
<1> DEFINE c == caller[p]
           k == c.conn
           r == [c EXCEPT !.at = "unslot", !.conn = None]
<1>1. c.at = "put" /\ JInv /\ took' = took
  BY DEF Put, KInv, server
<1>2. c \in CallType /\ k \in Conns /\ Has(c) /\ sock[k] \in SockType /\ c.doing = "call"
  BY <1>1, Mine DEF CallOK, HoldsAt
<1>3. /\ r.at = "unslot" /\ r.doing = c.doing /\ r.reply = c.reply
      /\ r.nth = c.nth /\ r.try = c.try /\ r.method = c.method
  BY <1>2 DEF CallType
<1>4. caller' = [caller EXCEPT ![p] = r]
  BY Types DEF KInv, JInv, Put, Return
<1> HIDE DEF r
<1>5. Handshakes(r) /\ ~Unsent(r)
  BY <1>2, <1>3 DEF Handshakes, Unsent
<1>6. CASE closed \/ sock[k].broken
  <2>1. sock' = [sock EXCEPT ![k] = Hung(sock[k])]
    BY <1>6 DEF Put
  <2>2. Hung(sock[k]).req = sock[k].req
    BY <1>2 DEF Hung, SockType
  <2> QED
    BY <1>1, <1>2, <1>3, <1>4, <1>5, <2>1, <2>2, OnceOwn
<1>7. CASE ~(closed \/ sock[k].broken)
  <2>1. sock' = sock
    BY <1>7 DEF Put
  <2> QED
    BY <1>1, <1>2, <1>3, <1>4, <1>5, <2>1, OnceShift
<1> QED
  BY <1>6, <1>7

LEMMA ReleaseOnce == ASSUME KInv, JInv', NEW p \in Callers, Release(p) PROVE KInv'
<1> DEFINE c == caller[p]
           k == c.conn
           e == Outcome(p, watch[p].at = "fired")
<1>1. c.at = "release" /\ JInv /\ took' = took
  BY DEF Release, Judge, KInv, server
<1>2. /\ c \in CallType /\ k \in Conns /\ Has(c) /\ sock[k] \in SockType
      /\ c.doing \in {"call", "HELLO", "AUTH"}
  BY <1>1, Mine DEF CallOK, HoldsAt
<1>3. \/ /\ c.doing = "call" /\ Fail(p, "put", e)
         /\ sock' = [sock EXCEPT ![k].broken = (e # None)]
      \/ /\ c.doing # "call" /\ Drop(p, "redial", e) /\ e # None
         /\ sock' = [sock EXCEPT ![k] = Hung(@)]
      \/ /\ sock' = sock /\ c.doing # "call"
         /\ caller' = [caller EXCEPT ![p].at = "send", ![p].doing = "AUTH", ![p].reply = NoReply]
      \/ /\ sock' = sock /\ c.doing # "call"
         /\ caller' = [caller EXCEPT ![p].at = "adopt", ![p].doing = "call", ![p].reply = NoReply]
  BY DEF Release, Judge, Breaks
<1> HIDE DEF e
<1>4. CASE /\ c.doing = "call" /\ Fail(p, "put", e)
           /\ sock' = [sock EXCEPT ![k].broken = (e # None)]
  <2> DEFINE r == [c EXCEPT !.at = "put", !.err = e]
             s == [sock[k] EXCEPT !.broken = (e # None)]
  <2>1. /\ r.at = "put" /\ r.doing = "call" /\ r.reply = c.reply
        /\ r.nth = c.nth /\ r.try = c.try /\ r.method = c.method
    BY <1>2, <1>4 DEF CallType
  <2>2. caller' = [caller EXCEPT ![p] = r] /\ sock' = [sock EXCEPT ![k] = s]
    BY <1>4, Types DEF KInv, JInv, Fail
  <2>3. s.req = sock[k].req
    BY <1>2 DEF SockType
  <2> HIDE DEF r, s
  <2>4. Handshakes(r) /\ ~Unsent(r)
    BY <2>1 DEF Handshakes, Unsent
  <2> QED
    BY <1>1, <1>2, <1>4, <2>1, <2>2, <2>3, <2>4, OnceOwn
<1>5. CASE /\ c.doing # "call" /\ Drop(p, "redial", e) /\ e # None
           /\ sock' = [sock EXCEPT ![k] = Hung(@)]
  <2> DEFINE r == [c EXCEPT !.at = "redial", !.err = e, !.conn = None]
  <2>1. /\ r.at = "redial" /\ r.doing = c.doing /\ r.reply = c.reply /\ r.err = e
        /\ r.nth = c.nth /\ r.try = c.try /\ r.method = c.method
    BY <1>2 DEF CallType
  <2>2. caller' = [caller EXCEPT ![p] = r] /\ sock' = [sock EXCEPT ![k] = Hung(sock[k])]
    BY <1>5, Types DEF KInv, JInv, Drop
  <2>3. Hung(sock[k]).req = sock[k].req
    BY <1>2 DEF Hung, SockType
  <2> HIDE DEF r
  <2>4. Handshakes(r) /\ Unsent(c) /\ r.doing # "call"
    BY <1>5, <2>1 DEF Handshakes, Unsent
  <2> QED
    BY <1>1, <1>2, <2>1, <2>2, <2>3, <2>4, OnceOwn
<1>6. ASSUME NEW place \in {"send", "adopt"}, NEW what \in {"AUTH", "call"},
             c.doing # "call", sock' = sock,
             caller' = [caller EXCEPT ![p].at = place, ![p].doing = what, ![p].reply = NoReply]
      PROVE  KInv'
  <2> DEFINE r == [c EXCEPT !.at = place, !.doing = what, !.reply = NoReply]
  <2>1. /\ r.at = place /\ r.doing = what /\ r.reply = NoReply
        /\ r.nth = c.nth /\ r.try = c.try /\ r.method = c.method
    BY <1>2 DEF CallType
  <2>2. caller' = [caller EXCEPT ![p] = r]
    BY <1>6, Types DEF KInv, JInv
  <2> HIDE DEF r
  <2>3. Handshakes(r) /\ Unsent(c) /\ r.at \notin {"read", "backoff"}
    BY <1>6, <2>1 DEF Handshakes, Unsent
  <2> QED
    BY <1>1, <1>6, <2>1, <2>2, <2>3, OnceShift
<1>7. CASE /\ sock' = sock /\ c.doing # "call"
           /\ caller' = [caller EXCEPT ![p].at = "send", ![p].doing = "AUTH", ![p].reply = NoReply]
  BY <1>6, <1>7
<1>8. CASE /\ sock' = sock /\ c.doing # "call"
           /\ caller' = [caller EXCEPT ![p].at = "adopt", ![p].doing = "call", ![p].reply = NoReply]
  BY <1>6, <1>8
<1> QED
  BY <1>3, <1>4, <1>5, <1>7, <1>8

LEMMA SendOnce == ASSUME KInv, JInv', NEW p \in Callers, Send(p) PROVE KInv'
<1> DEFINE c == caller[p]
           k == c.conn
           r == [c EXCEPT !.at = "read"]
           s == IF sock[k].srv = "up" THEN [sock[k] EXCEPT !.req = Append(@, Tag(p))] ELSE sock[k]
<1>1. c.at = "send" /\ JInv /\ took' = took
  BY DEF Send, KInv, server
<1>2. /\ c \in CallType /\ k \in Conns /\ Has(c) /\ c.conn = k /\ sock[k] \in SockType
      /\ Framed(p, c, watch[p], sock[k]) /\ c.doing \in {"call", "HELLO", "AUTH"}
  BY <1>1, Mine DEF CallOK, HoldsAt
<1>3. /\ r.at = "read" /\ r.conn = k /\ r.doing = c.doing /\ r.reply = c.reply
      /\ r.nth = c.nth /\ r.try = c.try /\ r.method = c.method
  BY <1>2 DEF CallType
<1>4. caller' = [caller EXCEPT ![p] = r] /\ sock' = [sock EXCEPT ![k] = s]
  BY Types, <1>2 DEF KInv, JInv, Send, Go
<1>5. Sent(s) \subseteq Sent(sock[k]) \union {Tag(p)}
  <2>1. CASE sock[k].srv = "up"
    <3>1. s.req = Append(sock[k].req, Tag(p)) /\ sock[k].req \in Seq(Tags)
      BY <1>2, <2>1 DEF SockType
    <3>2. ASSUME NEW i \in DOMAIN s.req PROVE s.req[i] \in Sent(sock[k]) \union {Tag(p)}
      <4>1. CASE i \in DOMAIN sock[k].req
        <5>1. s.req[i] = sock[k].req[i]
          BY <3>1, <4>1
        <5> QED
          BY <4>1, <5>1 DEF Sent
      <4>2. CASE i \notin DOMAIN sock[k].req
        <5> DEFINE q == sock[k].req
        <5>1. q \in Seq(Tags) /\ i \in DOMAIN Append(q, Tag(p)) /\ i \notin DOMAIN q
          BY <3>1, <3>2, <4>2
        <5> HIDE DEF q
        <5>2. Append(q, Tag(p))[i] = Tag(p)
          BY <5>1
        <5>3. s.req = Append(q, Tag(p))
          BY <3>1, Zenon DEF q
        <5> QED
          BY <5>2, <5>3, Zenon
      <4> QED
        BY <4>1, <4>2
    <3> HIDE DEF s
    <3> QED
      BY <3>2 DEF Sent
  <2>2. CASE sock[k].srv # "up"
    <3>1. s = sock[k]
      BY <2>2
    <3> QED
      BY <3>1
  <2> QED
    BY <2>1, <2>2
<1> HIDE DEF r, s
<1>6. sock'[k] = s /\ \A d \in Conns : d # k => sock'[d] = sock[d]
  BY <1>2, <1>4, OneSock DEF JInv, KInv
<1>7. \A j \in Conns : \A t \in Sent(sock'[j]) : t \in Sent(sock[j]) \/ (j = k /\ t = Tag(p))
  BY <1>5, <1>6
<1>8. Settled(p, r, sock', took)
  <2>1. Handshakes(r)
    BY <1>3 DEF Handshakes
  <2>2. SUFFICES ASSUME c.method \in OnceMethods PROVE Once(p, r, sock', took)
    BY <1>3, <2>1 DEF Settled
  <2>3. Once(p, c, sock, took)
    BY <2>2 DEF KInv, Settled
  <2>4. p \notin took /\ NoneSent(p, c, sock) /\ c.try = 1
    BY <1>1, <2>3 DEF Once, Unsent
  <2>5. CASE c.doing = "call"
    <3>1. c.reply = NoReply
      BY <1>1, <1>2, <2>5 DEF Framed
    <3>2. \A j \in Conns : j # r.conn => \A t \in Sent(sock'[j]) : ~Asks(t, p, r)
      BY <1>3, <1>7, <2>4 DEF NoneSent, Asks
    <3> QED
      BY <1>3, <2>4, <2>5, <3>1, <3>2 DEF Once, Unsent
  <2>6. CASE c.doing \in {"HELLO", "AUTH"}
    <3>1. ~Asks(Tag(p), p, c)
      BY <2>2, <2>6 DEF Asks, Tag, OnceMethods
    <3>2. NoneSent(p, r, sock')
      BY <1>3, <1>7, <2>4, <3>1 DEF NoneSent, Asks
    <3> QED
      BY <1>3, <2>4, <2>6, <3>2 DEF Once
  <2> QED
    BY <1>2, <2>5, <2>6
<1>9. c.conn = k /\ Sent(sock'[k]) \subseteq Sent(sock[k]) \union {Tag(p)}
  BY <1>2, <1>5, <1>6
<1> QED
  BY <1>1, <1>2, <1>3, <1>4, <1>6, <1>8, <1>9, OnceLocal

LEMMA ReadOnce == ASSUME KInv, JInv', NEW p \in Callers, Read(p) PROVE KInv'
<1> DEFINE c == caller[p]
           k == c.conn
           r == [c EXCEPT !.at = "release", !.reply = Head(sock[k].rep)]
           s == [sock[k] EXCEPT !.rep = Tail(@)]
<1>1. c.at = "read" /\ JInv /\ took' = took /\ sock[k].rep # <<>>
  BY DEF Read, KInv, server
<1>2. /\ c \in CallType /\ k \in Conns /\ Has(c) /\ c.conn = k /\ sock[k] \in SockType
      /\ OnWire(p, c, watch[p], sock[k]) /\ c.doing \in {"call", "HELLO", "AUTH"}
  BY <1>1, Mine DEF CallOK, HoldsAt
<1>3. /\ r.at = "release" /\ r.conn = k /\ r.doing = c.doing /\ r.reply = Head(sock[k].rep)
      /\ r.nth = c.nth /\ r.try = c.try /\ r.method = c.method
  BY <1>2 DEF CallType
<1>4. caller' = [caller EXCEPT ![p] = r] /\ sock' = [sock EXCEPT ![k] = s]
  BY Types, <1>2 DEF KInv, JInv, Read
<1>5. PICK a : sock[k].rep = <<a>> /\ sock[k].req = <<>>
  BY <1>1, <1>2 DEF OnWire, UnderWay
<1>6. Head(sock[k].rep) = a /\ sock[k].rep[1] = a /\ 1 \in DOMAIN sock[k].rep
  BY <1>5
<1>7. s.req = <<>>
  BY <1>2, <1>5 DEF SockType
<1> HIDE DEF r, s
<1>8. sock'[k] = s /\ \A d \in Conns : d # k => sock'[d] = sock[d]
  BY <1>2, <1>4, OneSock DEF JInv, KInv
<1>9. Sent(sock'[k]) = {} /\ \A j \in Conns : Sent(sock'[j]) \subseteq Sent(sock[j])
  BY <1>7, <1>8, SentNone
<1>10. Settled(p, r, sock', took)
  <2>1. Handshakes(r)
    BY <1>3 DEF Handshakes
  <2>2. SUFFICES ASSUME c.method \in OnceMethods PROVE Once(p, r, sock', took)
    BY <1>3, <2>1 DEF Settled
  <2>3. Once(p, c, sock, took)
    BY <2>2 DEF KInv, Settled
  <2>4. CASE c.doing = "call"
    <3>1. /\ \A j \in Conns : j # k => \A t \in Sent(sock[j]) : ~Asks(t, p, c)
          /\ p \in took => a.n = 1
      BY <1>1, <1>2, <1>6, <2>3, <2>4 DEF Once
    <3>2. NoneSent(p, r, sock')
      BY <1>3, <1>9, <3>1 DEF NoneSent, Asks
    <3> QED
      BY <1>3, <1>6, <2>3, <2>4, <3>1, <3>2 DEF Once, Unsent
  <2>5. CASE c.doing \in {"HELLO", "AUTH"}
    <3>1. p \notin took /\ NoneSent(p, c, sock)
      BY <2>3, <2>5 DEF Once, Unsent
    <3>2. NoneSent(p, r, sock')
      BY <1>3, <1>9, <3>1 DEF NoneSent, Asks
    <3> QED
      BY <1>3, <2>3, <2>5, <3>1, <3>2 DEF Once, Unsent
  <2> QED
    BY <1>2, <2>4, <2>5
<1> QED
  BY <1>1, <1>2, <1>3, <1>4, <1>8, <1>9, <1>10, OnceLocal

(* Steps of a watcher, a context, the pool and a server that hangs up: at  *)
(* most they take requests and replies away.                               *)
LEMMA OnceStill ==
  ASSUME KInv, JInv', caller' = caller, took' = took,
         \A k \in Conns :
           /\ Sent(sock'[k]) \subseteq Sent(sock[k])
           /\ sock'[k].req # <<>> => sock[k].req # <<>>
           /\ sock'[k].rep = sock[k].rep \/ sock'[k].rep = <<>>
  PROVE  KInv'
<1>1. TagsOK'
  BY DEF KInv, TagsOK, Sent
<1>2. ASSUME NEW p \in Callers PROVE Settled(p, caller[p], sock', took)
  <2> DEFINE c == caller[p]
  <2>1. Settled(p, c, sock, took) /\ JInv
    BY DEF KInv
  <2>2. SUFFICES ASSUME c.method \in OnceMethods PROVE Once(p, c, sock', took)
    BY <2>1 DEF Settled
  <2>3. Once(p, c, sock, took)
    BY <2>1, <2>2 DEF Settled
  <2>4. NoneSent(p, c, sock) => NoneSent(p, c, sock')
    BY DEF NoneSent
  <2>5. CASE c.doing = "call" /\ c.at = "read"
    <3>1. c.conn \in Conns
      BY <2>1, <2>5, Mine
    <3>2. \A i \in DOMAIN sock'[c.conn].rep :
            i \in DOMAIN sock[c.conn].rep /\ sock'[c.conn].rep[i] = sock[c.conn].rep[i]
      BY <3>1
    <3>3. \A j \in Conns : j # c.conn => \A t \in Sent(sock'[j]) : ~Asks(t, p, c)
      BY <2>3, <2>5 DEF Once
    <3> QED
      BY <2>3, <2>4, <2>5, <3>1, <3>2, <3>3 DEF Once
  <2>6. CASE ~(c.doing = "call" /\ c.at = "read")
    BY <2>3, <2>4, <2>6 DEF Once
  <2> QED
    BY <2>5, <2>6
<1> QED
  BY <1>1, <1>2 DEF KInv, Settled, Once, Handshakes, NoneSent, Sent, Asks, Unsent

LEMMA QuietOnce ==
  ASSUME KInv, JInv', (\E p \in Callers : Watch(p) \/ Cancel(p)) \/ (\E k \in Conns : HangUp(k)) \/ Close
  PROVE  KInv'
<1>1. sock \in [Conns -> SockType] /\ caller' = caller /\ took' = took
  BY Types DEF KInv, JInv, Watch, Cancel, HangUp, Close, pool, server
<1>2. ASSUME NEW k \in Conns
      PROVE  /\ sock'[k].req = sock[k].req \/ sock'[k].req = <<>>
             /\ sock'[k].rep = sock[k].rep \/ sock'[k].rep = <<>>
  <2>1. sock[k] \in SockType
    BY <1>1
  <2>2. CASE \E p \in Callers : Watch(p)
    BY <1>1, <2>1, <2>2 DEF Watch, SockType
  <2>3. CASE \E p \in Callers : Cancel(p)
    BY <2>3 DEF Cancel
  <2>4. CASE \E j \in Conns : HangUp(j)
    BY <1>1, <2>1, <2>4 DEF HangUp, SockType
  <2>5. CASE Close
    BY <1>1, <2>1, <2>5 DEF Close, Hung, SockType
  <2> QED
    BY <2>2, <2>3, <2>4, <2>5
<1>3. \A k \in Conns : Sent(sock'[k]) \subseteq Sent(sock[k])
  BY <1>2 DEF Sent
<1> QED
  BY <1>1, <1>2, <1>3, OnceStill

LEMMA StartOnce ==
  ASSUME KInv, JInv', NEW p \in Callers, NEW m \in DOMAIN Policy, Start(p, m) PROVE KInv'
<1> DEFINE c == caller[p]
           r == [NoCall EXCEPT !.at = "get", !.method = m, !.nth = c.nth + 1]
<1>1. c.nth \in Nat /\ sock' = sock /\ took' = took \ {p}
  BY CallerType DEF KInv, JInv, CallType, Start
<1>2. r.at = "get" /\ r.doing = None /\ r.reply = NoReply /\ r.nth = c.nth + 1 /\ r.try = 1
      /\ r.method = m
  BY DEF NoCall
<1>3. caller'[p] = r /\ \A q \in Callers : q # p => caller'[q] = caller[q]
  BY Types DEF KInv, JInv, Start
<1> HIDE DEF r
<1>4. ASSUME NEW k \in Conns, NEW t \in Sent(sock[k])
      PROVE  /\ t.by \in Callers /\ t.nth <= caller'[t.by].nth
             /\ t.nth = caller'[t.by].nth => t.what \in {"HELLO", "AUTH", caller'[t.by].method}
             /\ ~Asks(t, p, r)
  <2>1. /\ t.by \in Callers /\ t.nth <= caller[t.by].nth
        /\ t.nth = caller[t.by].nth => t.what \in {"HELLO", "AUTH", caller[t.by].method}
    BY <1>4 DEF KInv, TagsOK
  <2>2. t.nth \in Nat
    <3>1. sock[k] \in SockType
      BY Types DEF KInv, JInv
    <3>2. t \in Tags
      BY <1>4, <3>1 DEF Sent, SockType
    <3> QED
      BY <3>2 DEF Tags
  <2>3. CASE t.by = p
    BY <1>1, <1>2, <1>3, <2>1, <2>2, <2>3 DEF Asks
  <2>4. CASE t.by # p
    BY <1>3, <2>1, <2>4 DEF Asks
  <2> QED
    BY <2>3, <2>4
<1>5. TagsOK'
  BY <1>1, <1>4 DEF TagsOK, Sent
<1>6. ASSUME NEW q \in Callers PROVE Settled(q, caller'[q], sock', took')
  <2>1. CASE q = p
    <3>1. NoneSent(p, r, sock)
      BY <1>4 DEF NoneSent
    <3> QED
      BY <1>1, <1>2, <1>3, <2>1, <3>1 DEF Settled, Handshakes, Once, None
  <2>2. CASE q # p
    <3>1. Settled(q, caller[q], sock, took)
      BY DEF KInv
    <3>2. caller'[q] = caller[q] /\ (q \in took' <=> q \in took)
      BY <1>1, <1>3, <2>2
    <3> QED
      BY <1>1, <3>1, <3>2 DEF Settled, Once
  <2> QED
    BY <2>1, <2>2
<1> QED
  BY <1>5, <1>6 DEF KInv, Settled, Once, Handshakes, NoneSent, Sent, Asks, Unsent

LEMMA ServeOnce == ASSUME KInv, JInv', NEW k \in Conns, Serve(k) PROVE KInv'
<1> DEFINE tag == Head(sock[k].req)
<1>1. sock[k] \in SockType /\ sock[k].req # <<>> /\ caller' = caller /\ JInv
      /\ sock \in [Conns -> SockType]
  BY Types DEF KInv, JInv, Serve
<1>2. PICK hit, a :
        /\ took' = IF hit /\ tag.nth = caller[tag.by].nth /\ Counts(tag.what)
                   THEN took \union {tag.by} ELSE took
        /\ sock' = [sock EXCEPT ![k].req = Tail(@),
                                ![k].rep = IF sock[k].side = "closed" THEN @ ELSE Append(@, a)]
        /\ hit => a.n = 1
  <2>1. PICK kind \in Kinds(tag.what) :
          LET hit == kind = "ok" /\ Applies(tag.what)
              asked == tag.nth = caller[tag.by].nth
          IN  /\ took' = IF hit /\ asked /\ Counts(tag.what) THEN took \union {tag.by} ELSE took
              /\ sock' = [sock EXCEPT
                   ![k].req = Tail(@),
                   ![k].rep = IF sock[k].side = "closed" THEN @
                              ELSE Append(@, [tag |-> tag, kind |-> kind,
                                              n |-> IF hit THEN 1 ELSE 0])]
    BY DEF Serve
  <2> DEFINE hit == kind = "ok" /\ Applies(tag.what)
             a == [tag |-> tag, kind |-> kind, n |-> IF hit THEN 1 ELSE 0]
  <2>2. hit => a.n = 1
    OBVIOUS
  <2>3. /\ took' = IF hit /\ tag.nth = caller[tag.by].nth /\ Counts(tag.what)
                   THEN took \union {tag.by} ELSE took
        /\ sock' = [sock EXCEPT ![k].req = Tail(@),
                                ![k].rep = IF sock[k].side = "closed" THEN @ ELSE Append(@, a)]
    BY <2>1
  <2> HIDE DEF hit, a
  <2> QED
    BY <2>2, <2>3
<1>3. /\ sock'[k].req = Tail(sock[k].req)
      /\ sock[k].side = "open" => sock'[k].rep = Append(sock[k].rep, a)
      /\ \A d \in Conns : d # k => sock'[d] = sock[d]
  BY <1>1, <1>2 DEF SockType
<1>4. tag \in Sent(sock[k]) /\ Sent(sock'[k]) \subseteq Sent(sock[k])
  BY <1>1, <1>3 DEF Sent, SockType
<1>5. /\ tag.by \in Callers
      /\ tag.nth = caller[tag.by].nth => tag.what \in {"HELLO", "AUTH", caller[tag.by].method}
  BY <1>4 DEF KInv, TagsOK
<1>6. ~Counts("HELLO") /\ ~Counts("AUTH")
  BY DEF Counts, Removes
<1> HIDE DEF tag
<1>7. \A j \in Conns : Sent(sock'[j]) \subseteq Sent(sock[j])
  BY <1>3, <1>4
<1>8. ASSUME NEW p \in Callers, p \notin took, p \in took'
      PROVE  Asks(tag, p, caller[p]) /\ a.n = 1
  BY <1>2, <1>5, <1>6, <1>8 DEF Asks
<1>9. took \subseteq took'
  BY <1>2
<1>10. TagsOK'
  BY <1>1, <1>7 DEF KInv, TagsOK, Sent
<1>11. ASSUME NEW p \in Callers PROVE Settled(p, caller[p], sock', took')
  <2> DEFINE c == caller[p]
  <2>1. Settled(p, c, sock, took)
    BY DEF KInv
  <2>2. SUFFICES ASSUME c.method \in OnceMethods PROVE Once(p, c, sock', took')
    BY <2>1 DEF Settled
  <2>3. Once(p, c, sock, took)
    BY <2>1, <2>2 DEF Settled
  <2>4. NoneSent(p, c, sock) => NoneSent(p, c, sock') /\ (p \in took' => p \in took)
    BY <1>4, <1>7, <1>8 DEF NoneSent
  <2>5. CASE c.doing = "call" /\ c.at = "read"
    <3>1. c.conn \in Conns /\ sock[c.conn].side = "open" /\ OnWire(p, c, watch[p], sock[c.conn])
      BY <1>1, <2>5, Mine
    <3>2. \A j \in Conns : j # c.conn => \A t \in Sent(sock'[j]) : ~Asks(t, p, c)
      BY <1>7, <2>3, <2>5 DEF Once
    <3>3. CASE k = c.conn
      <4>1. sock[k].req = <<TagOf(p, c)>> /\ sock[k].rep = <<>>
        BY <1>1, <2>5, <3>1, <3>3 DEF OnWire, UnderWay
      <4>2. sock'[k].req = <<>> /\ sock'[k].rep = <<a>>
        BY <1>3, <3>1, <3>3, <4>1
      <4>3. p \notin took
        BY <1>1, <2>3, <2>5, <3>3 DEF Once
      <4>4. \A i \in DOMAIN sock'[k].rep : p \in took' => sock'[k].rep[i].n = 1
        BY <1>8, <4>2, <4>3
      <4> QED
        BY <2>3, <2>4, <2>5, <3>2, <3>3, <4>2, <4>4 DEF Once, Unsent
    <3>4. CASE k # c.conn
      <4>1. ~Asks(tag, p, c)
        BY <1>4, <2>3, <2>5, <3>4 DEF Once
      <4>2. sock'[c.conn] = sock[c.conn] /\ (p \in took' => p \in took)
        BY <1>3, <1>8, <3>1, <3>4, <4>1
      <4> QED
        BY <2>3, <2>4, <2>5, <3>2, <4>2 DEF Once
    <3> QED
      BY <3>3, <3>4
  <2>6. CASE ~(c.doing = "call" /\ c.at = "read")
    BY <2>3, <2>4, <2>6 DEF Once
  <2> QED
    BY <2>5, <2>6
<1> QED
  BY <1>1, <1>10, <1>11 DEF KInv, Settled, Once, Handshakes, NoneSent, Sent, Asks, Unsent

LEMMA OnceInit == Init => KInv
<1> SUFFICES ASSUME Init PROVE KInv
  OBVIOUS
<1>1. JInv
  BY FramesInit
<1>2. \A k \in Conns : Sent(sock[k]) = {}
  BY SentNone DEF Init, Unused
<1>3. TagsOK
  BY <1>2 DEF TagsOK
<1>4. \A p \in Callers : Settled(p, caller[p], sock, took)
  BY DEF Init, NoCall, Settled, Handshakes, OnceMethods, None
<1> QED
  BY <1>1, <1>3, <1>4 DEF KInv

LEMMA OnceKept == ASSUME KInv, [Next]_vars PROVE KInv'
<1>1. JInv'
  BY FramesKept DEF KInv
<1>2. ASSUME NEW p \in Callers, Step(p) PROVE KInv'
  <2>1. CASE Get(p) \/ TakeSlot(p) \/ SlotGivenUp(p) \/ NoIdle(p) \/ Forget(p) \/ Check(p)
             \/ DialFails(p) \/ DialGivenUp(p) \/ Unslot(p) \/ Answered(p)
    BY <1>1, <2>1, OutsideOnce
  <2>2. CASE TakeIdle(p) \/ (\E since \in {"fresh", "aged", "expired"} : Alive(p, since))
             \/ Redial(p) \/ (\E c \in Conns, s \in {Accepted, TurnedAway} : Dial(p, c, s))
             \/ NotSent(p) \/ Send(p) \/ SendFails(p)
    BY <1>1, <2>2, TakeIdleOnce, AliveOnce, RedialOnce, DialOnce, NotSentOnce, SendOnce, FailsOnce
  <2>3. CASE Read(p) \/ ReadFails(p) \/ Release(p) \/ Adopt(p) \/ Put(p) \/ Backoff(p)
    BY <1>1, <2>3, ReadOnce, FailsOnce, ReleaseOnce, AdoptOnce, PutOnce, BackoffOnce
  <2> QED
    BY <1>2, <2>1, <2>2, <2>3 DEF Step
<1>3. ASSUME NEW p \in Callers, Watch(p) \/ Cancel(p) \/ (\E m \in DOMAIN Policy : Start(p, m))
      PROVE  KInv'
  BY <1>1, <1>3, QuietOnce, StartOnce
<1>4. ASSUME NEW c \in Conns, Serve(c) \/ HangUp(c) PROVE KInv'
  BY <1>1, <1>4, ServeOnce, QuietOnce
<1>5. CASE Close
  BY <1>1, <1>5, QuietOnce
<1>6. CASE UNCHANGED vars
  BY <1>1, <1>6 DEF vars, server, KInv, TagsOK, Settled, Once, Handshakes, NoneSent, Sent, Asks, Unsent
<1> QED
  BY <1>2, <1>3, <1>4, <1>5, <1>6 DEF Next

(* client.go, SetNX and Del: a call that answers 0 did nothing.  These two *)
(* are not retried, so that the command is on the wire at most once, and   *)
(* whatever became of the connections that were dialled for it, the reply  *)
(* that is read is the one the server gave when it ran the command.        *)
THEOREM AnswersAreTruthful == Spec => []AnswersTruthful
<1>1. KInv => AnswersTruthful
  <2> SUFFICES ASSUME KInv, NEW p \in Callers, Zero(p), caller[p].method \in {"SetNX", "Del"}
               PROVE  p \notin took
    BY DEF AnswersTruthful
  <2>1. /\ caller[p].at = "returned" /\ caller[p].err = None /\ caller[p].reply.kind = "ok"
        /\ caller[p].reply.n = 0
    BY DEF Zero
  <2>2. caller[p].reply # NoReply
    BY <2>1 DEF NoReply, None
  <2>3. caller[p].doing \notin {"HELLO", "AUTH"}
    BY <2>1 DEF KInv, Settled, Handshakes
  <2>4. caller[p].doing = "call"
    <3>1. caller[p].doing \in Doings
      BY CallerType DEF KInv, JInv, CallType
    <3>2. caller[p].doing # None
      BY <2>2 DEF KInv, JInv, Framing, Framed
    <3> QED
      BY <2>3, <3>1, <3>2 DEF Doings
  <2>5. Once(p, caller[p], sock, took)
    BY DEF KInv, Settled, OnceMethods
  <2> QED
    BY <2>1, <2>2, <2>4, <2>5 DEF Once
<1> QED
  BY <1>1, OnceInit, OnceKept, PTL DEF Spec

=============================================================================
