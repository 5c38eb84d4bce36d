--------------------------- MODULE TransportProofs ---------------------------
(* Transport for any number of connections and any limits: the types, the   *)
(* bound on the sockets that are served, the wait group that Shutdown waits *)
(* for, and the one command that a connection may still run once it began.  *)
EXTENDS Transport, FiniteSetTheorems, TLAPS

USE ConnsAssumption, LimitAssumption, IdleAssumption

-----------------------------------------------------------------------------
(* The inductive invariant                                                  *)

(* Where the accept loop holds a connection, and which.                     *)
LoopOK ==
  \/ loop.at \in {"accept", "over", "failed"} /\ loop.conn = {}
  \/ /\ loop.at \in {"check", "lock", "serve", "refuse"}
     /\ \E c \in Conns : /\ loop.conn = {c} /\ at[c] = "accepted"
                         /\ loop.at = "serve" => c \in conns

(* A connection is tracked until its goroutine is about to leave, and by    *)
(* then its socket is closed.                                               *)
Held == Serving \ {"untrack", "leave"}
Tracked ==
  /\ Cardinality(conns) <= MaxConnections
  /\ \A c \in Conns : /\ at[c] \in Serving \ {"leave"} => c \in conns
                      /\ at[c] \in {"untrack", "leave"} => ~open[c]

(* After the cancellation a connection that decodes a command is on its way *)
(* out: neither a batch nor a flush takes it back to the decoder.           *)
Leaving == {"run", "touch", "touching", "batch", "flush", "last", "close", "untrack",
            "leave", "done"}
Late ==
  \A c \in Conns : /\ late[c] \in {0, 1}
                   /\ late[c] = 1 => cancelled /\ at[c] \in Leaving

Goroutines == {c \in Conns : at[c] \in Serving \union Refusing}

IInv == TypeOK /\ LoopOK /\ Tracked /\ Late /\ WgExact

USE DEF Places, Serving, Refusing, Held

LEMMA Finite ==
  ASSUME IInv
  PROVE  /\ IsFiniteSet(Goroutines) /\ Cardinality(Goroutines) \in Nat
         /\ IsFiniteSet(conns) /\ Cardinality(conns) \in Nat
<1>1. Goroutines \subseteq Conns /\ conns \subseteq Conns
  BY DEF Goroutines, IInv, TypeOK
<1> QED
  BY <1>1, FS_Subset, FS_CardinalityType

LEMMA Facts ==
  ASSUME IInv
  PROVE  /\ at \in [Conns -> Places] /\ open \in [Conns -> BOOLEAN] /\ late \in [Conns -> Nat]
         /\ deadline \in [Conns -> {"none", "armed", "past"}] /\ draining \in [Conns -> BOOLEAN]
         /\ spent \in [Conns -> 0..MaxRequest]
         /\ wg = Cardinality(Goroutines) /\ wg \in Nat
BY DEF IInv, TypeOK, WgExact, Goroutines

(* Who runs a goroutine changes by at most one connection at a step.        *)
LEMMA Stays ==
  ASSUME IInv, at' = at, wg' = wg PROVE WgExact'
BY DEF IInv, WgExact

LEMMA Moves ==
  ASSUME IInv, NEW c \in Conns, NEW to, at' = [at EXCEPT ![c] = to], wg' = wg,
         at[c] \in Serving \union Refusing <=> to \in Serving \union Refusing
  PROVE  WgExact'
<1>1. Goroutines' = Goroutines
  BY Facts DEF Goroutines
<1> QED
  BY <1>1, Facts DEF WgExact, Goroutines

LEMMA Starts ==
  ASSUME IInv, NEW c \in Conns, NEW to \in Serving \union Refusing,
         at' = [at EXCEPT ![c] = to], wg' = wg + 1, at[c] = "accepted"
  PROVE  WgExact' /\ wg' \in Nat
<1>1. Goroutines' = Goroutines \union {c} /\ c \notin Goroutines
  BY Facts DEF Goroutines
<1>2. Cardinality(Goroutines') = Cardinality(Goroutines) + 1
  BY <1>1, Finite, FS_AddElement
<1> QED
  BY <1>2, Facts DEF WgExact, Goroutines

LEMMA Ends ==
  ASSUME IInv, NEW c \in Conns, at[c] \in Serving \union Refusing,
         at' = [at EXCEPT ![c] = "done"], wg' = wg - 1
  PROVE  WgExact' /\ wg' \in Nat
<1>1. Goroutines' = Goroutines \ {c} /\ c \in Goroutines
  BY Facts DEF Goroutines
<1>2. Cardinality(Goroutines') = Cardinality(Goroutines) - 1
  BY <1>1, Finite, FS_RemoveElement
<1>3. IsFiniteSet(Goroutines') /\ Cardinality(Goroutines') \in Nat
  BY <1>1, Finite, FS_RemoveElement, FS_CardinalityType
<1> QED
  BY <1>2, <1>3, Facts DEF WgExact, Goroutines

LEMMA InitHolds == Init => IInv
<1> SUFFICES ASSUME Init PROVE IInv
  OBVIOUS
<1>1. TypeOK /\ LoopOK /\ Late
  <2>1. secure \in BOOLEAN /\ cancelled \in BOOLEAN /\ listening \in BOOLEAN
    BY DEF Init
  <2>2. loop \in [at : LoopPlaces, conn : SUBSET Conns] /\ conns \subseteq Conns /\ wg \in Nat
    BY DEF Init, LoopPlaces
  <2>3. at \in [Conns -> Places] /\ open \in [Conns -> BOOLEAN] /\ draining \in [Conns -> BOOLEAN]
    BY DEF Init
  <2>4. deadline \in [Conns -> {"none", "armed", "past"}]
    BY DEF Init
  <2>5. spent \in [Conns -> 0..MaxRequest] /\ late \in [Conns -> Nat]
    BY DEF Init
  <2>6. down \in [at : DownPlaces, todo : SUBSET Conns, half : SUBSET Conns]
    BY DEF Init, DownPlaces
  <2>7. LoopOK /\ Late
    BY DEF Init, LoopOK, Late
  <2> QED
    BY <2>1, <2>2, <2>3, <2>4, <2>5, <2>6, <2>7 DEF TypeOK
<1>2. Cardinality({}) = 0
  BY FS_EmptySet
<1>3. Tracked
  BY <1>2 DEF Init, Tracked
<1>4. WgExact
  <2>1. {c \in Conns : at[c] \in Serving \union Refusing} = {}
    BY DEF Init
  <2> QED
    BY <2>1, <1>2 DEF Init, WgExact
<1> QED
  BY <1>1, <1>3, <1>4 DEF IInv

-----------------------------------------------------------------------------
(* The steps of a goroutine                                                 *)

(* A goroutine that goes on, with the socket as it is.                      *)
LEMMA GoesOn ==
  ASSUME IInv, NEW c \in Conns, NEW from \in Held \union {"refuse", "greet"}, NEW to \in Held \union {"greet", "hangup"},
         Move(c, from, to), UNCHANGED <<server, open, late, down>>,
         deadline' \in [Conns -> {"none", "armed", "past"}], draining' = draining,
         spent' \in [Conns -> 0..MaxRequest],
         from \in {"refuse", "greet"} <=> to \in {"greet", "hangup"},
         cancelled => (from \in Leaving => to \in Leaving)
  PROVE  IInv'
<1>1. /\ at' = [at EXCEPT ![c] = to] /\ at[c] = from
      /\ secure' = secure /\ cancelled' = cancelled /\ listening' = listening /\ loop' = loop
      /\ conns' = conns /\ wg' = wg /\ open' = open /\ late' = late /\ down' = down
  BY DEF Move, server
<1>2. TypeOK'
  BY <1>1 DEF IInv, TypeOK
<1>3. LoopOK'
  BY <1>1, Facts DEF IInv, LoopOK
<1>4. Tracked'
  BY <1>1, Facts DEF IInv, Tracked
<1>5. Late'
  BY <1>1, Facts DEF IInv, Late
<1>6. WgExact'
  BY <1>1, Moves
<1> QED
  BY <1>2, <1>3, <1>4, <1>5, <1>6 DEF IInv

LEMMA SetType ==
  ASSUME IInv, NEW c \in Conns, NEW d \in {"none", "armed", "past"}
  PROVE  Set(c, d) \in [Conns -> {"none", "armed", "past"}]
BY Facts DEF Set

LEMMA KeepKeeps ==
  ASSUME IInv, NEW c \in Conns, Keep,
         \/ Refuse(c) \/ Greeted(c) \/ Shaken(c) \/ ShakeFails(c) \/ Arm(c) \/ TooLarge(c) \/ ReadFails(c)
         \/ ReadEnds(c) \/ Ran(c) \/ Panics(c) \/ BatchEnds(c) \/ BatchGoesOn(c) \/ OutputLimit(c)
         \/ Flushed(c) \/ FlushEnds(c) \/ LastFlush(c)
  PROVE  IInv'
<1>1. /\ UNCHANGED <<server, open, late, down>> /\ deadline' = deadline /\ draining' = draining
      /\ spent' = spent
  BY DEF Keep, sockets
<1>2. PICK from \in Held \union {"refuse", "greet"}, to \in Held \union {"greet", "hangup"} :
        /\ Move(c, from, to) /\ (from \in {"refuse", "greet"} <=> to \in {"greet", "hangup"})
        /\ cancelled => (from \in Leaving => to \in Leaving)
  BY DEF Refuse, Greeted, Shaken, ShakeFails, Arm, ArmLoad, TooLarge, ReadFails, ReadEnds, Ran, Panics,
         BatchEnds, BatchGoesOn, OutputLimit, Flushed, FlushEnds, LastFlush, Leaving
<1> QED
  BY <1>1, <1>2, Facts, GoesOn

LEMMA StartKeeps ==
  ASSUME IInv, NEW c \in Conns, Start(c) \/ ShakeClear(c) \/ Armed(c) \/ Touch(c) \/ Touched(c)
  PROVE  IInv'
<1>1. UNCHANGED <<server, open, late, down>> /\ draining' = draining
  BY DEF Start, ShakeClear, Armed, Touch, Touched
<1>2. deadline' \in [Conns -> {"none", "armed", "past"}] /\ spent' \in [Conns -> 0..MaxRequest]
  <2>1. deadline' = deadline \/ \E d \in {"none", "armed", "past"} : deadline' = Set(c, d)
    BY DEF Start, ShakeClear, Armed, ArmSet, Touch, Touched
  <2>2. spent' = spent \/ spent' = [spent EXCEPT ![c] = 0]
    BY DEF Start, ShakeClear, Armed, Touch, Touched
  <2>3. 0 \in 0..MaxRequest
    OBVIOUS
  <2>4. deadline' \in [Conns -> {"none", "armed", "past"}]
    BY <2>1, SetType, Facts
  <2>5. spent' \in [Conns -> 0..MaxRequest]
    BY <2>2, <2>3, Facts
  <2> QED
    BY <2>4, <2>5
<1>3. PICK from \in Held \union {"refuse", "greet"}, to \in Held \union {"greet", "hangup"} :
        /\ Move(c, from, to) /\ (from \in {"refuse", "greet"} <=> to \in {"greet", "hangup"})
        /\ cancelled => (from \in Leaving => to \in Leaving)
  BY DEF Start, ShakeClear, Armed, ArmSet, Touch, Touched, ArmLoad, Leaving
<1> QED
  BY <1>1, <1>2, <1>3, GoesOn

LEMMA ReceiveKeeps == ASSUME IInv, NEW c \in Conns, Receive(c) PROVE IInv'
<1>1. /\ at' = [at EXCEPT ![c] = "run"] /\ at[c] = "read"
      /\ late' = [late EXCEPT ![c] = IF cancelled THEN @ + 1 ELSE @]
      /\ secure' = secure /\ cancelled' = cancelled /\ listening' = listening /\ loop' = loop
      /\ conns' = conns /\ wg' = wg /\ open' = open /\ down' = down
      /\ deadline' = deadline /\ draining' = draining /\ spent' = spent
  BY DEF Receive, Move, server
<1>2. late[c] = 0
  BY <1>1 DEF IInv, Late, Leaving
<1>3. late' \in [Conns -> Nat] /\ late'[c] \in {0, 1} /\ (late'[c] = 1 => cancelled)
  BY <1>1, <1>2, Facts
<1>4. TypeOK'
  BY <1>1, <1>3 DEF IInv, TypeOK
<1>5. LoopOK'
  BY <1>1, Facts DEF IInv, LoopOK
<1>6. Tracked'
  BY <1>1, Facts DEF IInv, Tracked
<1>7. Late'
  BY <1>1, <1>3, Facts DEF IInv, Late, Leaving
<1>8. WgExact'
  BY <1>1, Moves
<1> QED
  BY <1>4, <1>5, <1>6, <1>7, <1>8 DEF IInv

LEMMA CloseSocketKeeps == ASSUME IInv, NEW c \in Conns, CloseSocket(c) PROVE IInv'
<1>1. /\ at' = [at EXCEPT ![c] = "untrack"] /\ at[c] = "close"
      /\ open' = [open EXCEPT ![c] = FALSE] /\ late' = late
      /\ secure' = secure /\ cancelled' = cancelled /\ listening' = listening /\ loop' = loop
      /\ conns' = conns /\ wg' = wg /\ down' = down
      /\ deadline' = deadline /\ draining' = draining /\ spent' = spent
  BY DEF CloseSocket, Move, server
<1>2. TypeOK'
  BY <1>1 DEF IInv, TypeOK
<1>3. LoopOK'
  BY <1>1, Facts DEF IInv, LoopOK
<1>4. Tracked'
  BY <1>1, Facts DEF IInv, Tracked
<1>5. Late'
  BY <1>1, Facts DEF IInv, Late, Leaving
<1>6. WgExact'
  BY <1>1, Moves
<1> QED
  BY <1>2, <1>3, <1>4, <1>5, <1>6 DEF IInv

LEMMA UntrackKeeps == ASSUME IInv, NEW c \in Conns, Untrack(c) PROVE IInv'
<1>1. /\ at' = [at EXCEPT ![c] = "leave"] /\ at[c] = "untrack" /\ conns' = conns \ {c}
      /\ open' = open /\ late' = late
      /\ secure' = secure /\ cancelled' = cancelled /\ listening' = listening /\ loop' = loop
      /\ wg' = wg /\ down' = down
      /\ deadline' = deadline /\ draining' = draining /\ spent' = spent
  BY DEF Untrack, Move, sockets
<1>2. TypeOK'
  BY <1>1 DEF IInv, TypeOK
<1>3. LoopOK'
  BY <1>1, Facts DEF IInv, LoopOK
<1>4. Tracked'
  <2>1. Cardinality(conns') <= Cardinality(conns) /\ Cardinality(conns') \in Nat
    BY <1>1, Finite, FS_Subset, FS_CardinalityType
  <2>2. Cardinality(conns') <= MaxConnections
    BY <2>1, Finite DEF IInv, Tracked
  <2> QED
    BY <1>1, <2>2, Facts DEF IInv, Tracked
<1>5. Late'
  BY <1>1, Facts DEF IInv, Late, Leaving
<1>6. WgExact'
  BY <1>1, Moves
<1> QED
  BY <1>2, <1>3, <1>4, <1>5, <1>6 DEF IInv

LEMMA LeaveKeeps == ASSUME IInv, NEW c \in Conns, Leave(c) \/ Hangup(c) PROVE IInv'
<1>1. /\ at' = [at EXCEPT ![c] = "done"] /\ at[c] \in {"leave", "hangup"} /\ wg' = wg - 1
      /\ open' = open \/ open' = [open EXCEPT ![c] = FALSE]
      /\ late' = late /\ conns' = conns
      /\ secure' = secure /\ cancelled' = cancelled /\ listening' = listening /\ loop' = loop
      /\ down' = down /\ deadline' = deadline /\ draining' = draining /\ spent' = spent
  BY DEF Leave, Hangup, Move, sockets
<1>2. WgExact' /\ wg' \in Nat
  BY <1>1, Ends
<1>3. TypeOK'
  BY <1>1, <1>2 DEF IInv, TypeOK
<1>4. LoopOK'
  BY <1>1, Facts DEF IInv, LoopOK
<1>5. Tracked'
  BY <1>1, Facts DEF IInv, Tracked
<1>6. Late'
  BY <1>1, Facts DEF IInv, Late, Leaving
<1> QED
  BY <1>2, <1>3, <1>4, <1>5, <1>6 DEF IInv

(* Steps that leave every goroutine and the accept loop where they are.     *)
LEMMA Aside ==
  ASSUME IInv, TypeOK', at' = at, wg' = wg, late' = late, conns' = conns, loop' = loop,
         cancelled => cancelled',
         \A c \in Conns : open'[c] => open[c]
  PROVE  IInv'
<1>1. LoopOK' /\ Late' /\ WgExact'
  BY Stays DEF IInv, LoopOK, Late
<1>2. Tracked'
  BY DEF IInv, Tracked
<1> QED
  BY <1>1, <1>2 DEF IInv

LEMMA DribbleKeeps == ASSUME IInv, NEW c \in Conns, Dribble(c) \/ Passes(c) PROVE IInv'
<1>1. UNCHANGED <<server, at, open, draining, late, down>>
  BY DEF Dribble, Passes
<1>2. spent' \in [Conns -> 0..MaxRequest]
  <2>1. spent[c] \in 0..MaxRequest
    BY Facts
  <2>2. spent' = spent \/ (spent[c] < MaxRequest /\ spent' = [spent EXCEPT ![c] = spent[c] + 1])
    BY DEF Dribble, Passes
  <2>3. spent[c] < MaxRequest => spent[c] + 1 \in 0..MaxRequest
    BY <2>1
  <2> QED
    BY <2>2, <2>3, Facts
<1>3. deadline' \in [Conns -> {"none", "armed", "past"}]
  BY Facts DEF Dribble, Passes
<1>4. TypeOK'
  BY <1>1, <1>2, <1>3 DEF IInv, TypeOK, server
<1> QED
  BY <1>1, <1>4, Aside DEF server

-----------------------------------------------------------------------------
(* The accept loop                                                          *)

LEMMA DialKeeps == ASSUME IInv, NEW c \in Conns, Dial(c) PROVE IInv'
<1>1. /\ at' = [at EXCEPT ![c] = "queued"] /\ at[c] = "away"
      /\ open' = [open EXCEPT ![c] = TRUE] /\ late' = late /\ conns' = conns
      /\ secure' = secure /\ cancelled' = cancelled /\ listening' = listening /\ loop' = loop
      /\ wg' = wg /\ down' = down
      /\ deadline' = deadline /\ draining' = draining /\ spent' = spent
  BY DEF Dial, Move, server
<1>2. TypeOK'
  BY <1>1 DEF IInv, TypeOK
<1>3. LoopOK' /\ Tracked'
  BY <1>1, Facts DEF IInv, LoopOK, Tracked
<1>4. Late'
  BY <1>1, Facts DEF IInv, Late, Leaving
<1>5. WgExact'
  BY <1>1, Moves
<1> QED
  BY <1>2, <1>3, <1>4, <1>5 DEF IInv

LEMMA AcceptKeeps == ASSUME IInv, NEW c \in Conns, Accept(c) PROVE IInv'
<1>1. /\ at' = [at EXCEPT ![c] = "accepted"] /\ at[c] = "queued"
      /\ loop' = [at |-> "check", conn |-> {c}]
      /\ open' = open /\ late' = late /\ conns' = conns
      /\ secure' = secure /\ cancelled' = cancelled /\ listening' = listening
      /\ wg' = wg /\ down' = down
      /\ deadline' = deadline /\ draining' = draining /\ spent' = spent
  BY DEF Accept, Move, sockets
<1>2. TypeOK'
  BY <1>1 DEF IInv, TypeOK, LoopPlaces
<1>3. LoopOK' /\ Tracked'
  BY <1>1, Facts DEF IInv, LoopOK, Tracked
<1>4. Late'
  BY <1>1, Facts DEF IInv, Late, Leaving
<1>5. WgExact'
  BY <1>1, Moves
<1> QED
  BY <1>2, <1>3, <1>4, <1>5 DEF IInv

LEMMA ShuttingDownKeeps == ASSUME IInv, NEW c \in Conns, ShuttingDown(c) PROVE IInv'
<1>1. /\ at' = [at EXCEPT ![c] = "done"] /\ at[c] = "accepted"
      /\ loop' = [at |-> "accept", conn |-> {}]
      /\ open' = [open EXCEPT ![c] = FALSE] /\ late' = late /\ conns' = conns
      /\ secure' = secure /\ cancelled' = cancelled /\ listening' = listening
      /\ wg' = wg /\ down' = down
      /\ deadline' = deadline /\ draining' = draining /\ spent' = spent
  BY DEF ShuttingDown, Move
<1>2. TypeOK'
  BY <1>1 DEF IInv, TypeOK, LoopPlaces
<1>3. LoopOK' /\ Tracked'
  BY <1>1, Facts DEF IInv, LoopOK, Tracked
<1>4. Late'
  BY <1>1, Facts DEF IInv, Late, Leaving
<1>5. WgExact'
  BY <1>1, Moves
<1> QED
  BY <1>2, <1>3, <1>4, <1>5 DEF IInv

(* The loop moves with the connection it holds, or is over.                 *)
LEMMA LoopMoves ==
  ASSUME IInv, NEW place \in LoopPlaces, loop' = [loop EXCEPT !.at = place],
         UNCHANGED <<secure, cancelled, listening, wg, at, sockets, down>>,
         conns' \subseteq Conns, conns \subseteq conns', Cardinality(conns') <= MaxConnections,
         \/ loop.conn = {} /\ place \in {"over", "failed"}
         \/ \E c \in Conns : /\ loop.conn = {c} /\ at[c] = "accepted"
                             /\ place \in {"lock", "serve", "refuse"}
                             /\ place = "serve" => c \in conns'
  PROVE  IInv'
<1>1. /\ at' = at /\ wg' = wg /\ down' = down /\ open' = open /\ deadline' = deadline
      /\ draining' = draining /\ spent' = spent /\ late' = late
      /\ secure' = secure /\ cancelled' = cancelled /\ listening' = listening
  BY DEF sockets
<1>2. loop'.at = place /\ loop'.conn = loop.conn /\ loop' \in [at : LoopPlaces, conn : SUBSET Conns]
  BY DEF IInv, TypeOK
<1>3. TypeOK'
  BY <1>1, <1>2 DEF IInv, TypeOK
<1>4. LoopOK'
  BY <1>1, <1>2 DEF LoopOK
<1>5. Tracked'
  BY <1>1 DEF IInv, Tracked
<1>6. Late' /\ WgExact'
  BY <1>1, Stays DEF IInv, Late
<1> QED
  BY <1>3, <1>4, <1>5, <1>6 DEF IInv

LEMMA HeldByLoop ==
  ASSUME IInv, NEW c \in Conns, loop.conn = {c}
  PROVE  at[c] = "accepted" /\ (loop.at = "serve" => c \in conns)
BY DEF IInv, LoopOK

LEMMA ConnsStay ==
  ASSUME IInv, conns' = conns
  PROVE  conns' \subseteq Conns /\ conns \subseteq conns' /\ Cardinality(conns') <= MaxConnections
BY DEF IInv, TypeOK, Tracked

LEMMA AcceptEndsKeeps == ASSUME IInv, AcceptEnds \/ AcceptFails PROVE IInv'
<1>1. PICK place \in {"over", "failed"} : loop' = [loop EXCEPT !.at = place]
  BY DEF AcceptEnds, AcceptFails
<1>2. /\ loop.at = "accept" /\ conns' = conns
      /\ UNCHANGED <<secure, cancelled, listening, wg, at, sockets, down>>
  BY DEF AcceptEnds, AcceptFails
<1>3. loop.conn = {} /\ place \in LoopPlaces
  BY <1>2 DEF IInv, LoopOK, LoopPlaces
<1> QED
  BY <1>1, <1>2, <1>3, ConnsStay, LoopMoves

LEMMA AdmitCheckKeeps == ASSUME IInv, NEW c \in Conns, AdmitCheck(c) \/ OverLimit(c) PROVE IInv'
<1>1. PICK place \in {"lock", "refuse"} : loop' = [loop EXCEPT !.at = place]
  BY DEF AdmitCheck, OverLimit
<1>2. /\ loop.conn = {c} /\ conns' = conns
      /\ UNCHANGED <<secure, cancelled, listening, wg, at, sockets, down>>
  BY DEF AdmitCheck, OverLimit
<1>3. at[c] = "accepted" /\ place \in LoopPlaces
  BY <1>2, HeldByLoop DEF LoopPlaces
<1> QED
  BY <1>1, <1>2, <1>3, ConnsStay, LoopMoves

LEMMA AdmitKeeps == ASSUME IInv, NEW c \in Conns, Admit(c) PROVE IInv'
<1>1. /\ loop' = [loop EXCEPT !.at = "serve"] /\ loop.conn = {c} /\ conns' = conns \union {c}
      /\ UNCHANGED <<secure, cancelled, listening, wg, at, sockets, down>>
      /\ Cardinality(conns) < MaxConnections
  BY DEF Admit
<1>2. at[c] = "accepted" /\ "serve" \in LoopPlaces
  BY <1>1, HeldByLoop DEF LoopPlaces
<1>3. Cardinality(conns') <= MaxConnections
  <2>1. Cardinality(conns') = IF c \in conns THEN Cardinality(conns) ELSE Cardinality(conns) + 1
    BY <1>1, Finite, FS_AddElement
  <2> QED
    BY <1>1, <2>1, Finite
<1>4. conns' \subseteq Conns /\ conns \subseteq conns' /\ c \in conns'
  BY <1>1 DEF IInv, TypeOK
<1> QED
  BY <1>1, <1>2, <1>3, <1>4, LoopMoves

LEMMA SpawnKeeps == ASSUME IInv, NEW c \in Conns, Spawn(c) PROVE IInv'
<1>1. /\ loop.conn = {c} /\ loop' = [at |-> "accept", conn |-> {}] /\ wg' = wg + 1
      /\ conns' = conns /\ open' = open /\ late' = late
      /\ secure' = secure /\ cancelled' = cancelled /\ listening' = listening
      /\ down' = down /\ deadline' = deadline /\ draining' = draining /\ spent' = spent
  BY DEF Spawn, sockets
<1>2. PICK to \in {"start", "refuse"} :
        /\ at[c] = "accepted" /\ at' = [at EXCEPT ![c] = to]
        /\ to = "start" => loop.at = "serve"
  BY DEF Spawn, Move
<1>3. to = "start" => c \in conns
  BY <1>1, <1>2, HeldByLoop
<1>4. WgExact' /\ wg' \in Nat
  BY <1>1, <1>2, Starts
<1>5. TypeOK'
  BY <1>1, <1>2, <1>4 DEF IInv, TypeOK, LoopPlaces
<1>6. LoopOK' /\ Tracked'
  BY <1>1, <1>2, <1>3, Facts DEF IInv, LoopOK, Tracked
<1>7. Late'
  BY <1>1, <1>2, Facts DEF IInv, Late, Leaving
<1> QED
  BY <1>4, <1>5, <1>6, <1>7 DEF IInv

-----------------------------------------------------------------------------
(* Shutdown                                                                 *)

LEMMA DownType ==
  ASSUME IInv
  PROVE  down \in [at : DownPlaces, todo : SUBSET Conns, half : SUBSET Conns] /\ conns \subseteq Conns
BY DEF IInv, TypeOK

LEMMA ShutdownKeeps == ASSUME IInv, Cancel \/ Shutdown PROVE IInv'
<1>1. /\ at' = at /\ wg' = wg /\ late' = late /\ conns' = conns /\ loop' = loop /\ spent' = spent
      /\ secure' = secure
      /\ cancelled' \in {cancelled, TRUE} /\ listening' \in {listening, FALSE}
      /\ \/ open' = open
         \/ open' = [c \in Conns |-> open[c] /\ c \notin conns]
  BY DEF Cancel, Shutdown, CloseListener, LockConns, UnlockConns, Drained, CloseAll, DrainFlag,
         DrainDeadline, server, sockets
<1>2. down' \in [at : DownPlaces, todo : SUBSET Conns, half : SUBSET Conns]
  <2>1. CASE Cancel \/ CloseListener \/ UnlockConns \/ Drained \/ CloseAll
    <3>1. PICK place \in DownPlaces : down' = [down EXCEPT !.at = place]
      BY <2>1 DEF Cancel, CloseListener, UnlockConns, Drained, CloseAll, DownPlaces
    <3> QED
      BY <3>1, DownType
  <2>2. CASE LockConns
    <3>1. down' = [down EXCEPT !.at = "drain", !.todo = conns] /\ "drain" \in DownPlaces
      BY <2>2 DEF LockConns, DownPlaces
    <3> QED
      BY <3>1, DownType
  <2>3. ASSUME NEW c \in Conns, DrainFlag(c)
        PROVE  down' \in [at : DownPlaces, todo : SUBSET Conns, half : SUBSET Conns]
    <3>1. down' = [down EXCEPT !.half = {c}]
      BY <2>3 DEF DrainFlag
    <3> QED
      BY <3>1, DownType
  <2>4. ASSUME NEW c \in Conns, DrainDeadline(c)
        PROVE  down' \in [at : DownPlaces, todo : SUBSET Conns, half : SUBSET Conns]
    <3>1. down' = [down EXCEPT !.half = {}, !.todo = down.todo \ {c}] /\ down.todo \ {c} \in SUBSET Conns
      BY <2>4, DownType DEF DrainDeadline
    <3> QED
      BY <3>1, DownType
  <2> QED
    BY <2>1, <2>2, <2>3, <2>4 DEF Shutdown
<1>3. deadline' \in [Conns -> {"none", "armed", "past"}]
  <2>1. deadline' = deadline \/ \E c \in Conns : deadline' = Set(c, "past")
    BY DEF Cancel, Shutdown, CloseListener, LockConns, UnlockConns, Drained, CloseAll,
           DrainFlag, DrainDeadline, sockets
  <2> QED
    BY <2>1, Facts, SetType
<1>4. draining' \in [Conns -> BOOLEAN]
  BY Facts DEF Cancel, Shutdown, CloseListener, LockConns, UnlockConns, Drained, CloseAll,
     DrainFlag, DrainDeadline, sockets
<1>5. open' \in [Conns -> BOOLEAN] /\ \A c \in Conns : open'[c] => open[c]
  BY <1>1, Facts
<1>6. cancelled' \in BOOLEAN /\ listening' \in BOOLEAN /\ (cancelled => cancelled')
  <2>1. cancelled \in BOOLEAN /\ listening \in BOOLEAN
    BY DEF IInv, TypeOK
  <2>2. cancelled' = cancelled \/ cancelled' = TRUE
    BY <1>1
  <2>3. listening' = listening \/ listening' = FALSE
    BY <1>1
  <2> QED
    BY <2>1, <2>2, <2>3, Zenon
<1>7. TypeOK'
  BY <1>1, <1>2, <1>3, <1>4, <1>5, <1>6 DEF IInv, TypeOK
<1> QED
  BY <1>1, <1>5, <1>6, <1>7, Aside

-----------------------------------------------------------------------------
LEMMA NextKeeps == ASSUME IInv, [Next]_vars PROVE IInv'
<1>1. CASE UNCHANGED vars
  <2>1. /\ UNCHANGED <<at, open, deadline, draining, spent, late, down>>
        /\ UNCHANGED <<secure, cancelled, listening, loop, conns, wg>>
    BY <1>1 DEF vars, server, sockets
  <2>2. TypeOK'
    BY <2>1 DEF IInv, TypeOK
  <2> QED
    BY <2>1, <2>2, Aside
<1>2. ASSUME NEW c \in Conns, Loop(c) PROVE IInv'
  BY <1>2, AcceptKeeps, AdmitCheckKeeps, ShuttingDownKeeps, AdmitKeeps, SpawnKeeps DEF Loop
<1>3. ASSUME NEW c \in Conns, Own(c) PROVE IInv'
  <2>1. CASE Start(c) \/ ShakeClear(c) \/ Armed(c) \/ Touch(c) \/ Touched(c)
    BY <2>1, StartKeeps
  <2>2. CASE Hangup(c) \/ CloseSocket(c) \/ Untrack(c) \/ Leave(c)
    BY <2>2, LeaveKeeps, CloseSocketKeeps, UntrackKeeps
  <2>3. CASE Refuse(c) \/ ShakeFails(c) \/ Arm(c) \/ TooLarge(c) \/ ReadEnds(c) \/ Ran(c)
             \/ BatchEnds(c) \/ FlushEnds(c) \/ LastFlush(c)
    <3>1. Keep
      BY <2>3 DEF Keep, Refuse, ShakeFails, Arm, TooLarge, ReadEnds, Ran, BatchEnds, FlushEnds,
                  LastFlush
    <3> QED
      BY <2>3, <3>1, KeepKeeps
  <2> QED
    BY <1>3, <2>1, <2>2, <2>3 DEF Own
<1>4. ASSUME NEW c \in Conns, Peer(c) PROVE IInv'
  <2>1. CASE Greeted(c) \/ Shaken(c) \/ ReadFails(c) \/ Panics(c) \/ BatchGoesOn(c) \/ OutputLimit(c) \/ Flushed(c)
    <3>1. Keep
      BY <2>1 DEF Keep, Greeted, Shaken, ReadFails, Panics, BatchGoesOn, OutputLimit, Flushed
    <3> QED
      BY <2>1, <3>1, KeepKeeps
  <2> QED
    BY <1>4, <2>1, DribbleKeeps, ReceiveKeeps DEF Peer
<1> QED
  BY <1>1, <1>2, <1>3, <1>4, AcceptEndsKeeps, ShutdownKeeps, DialKeeps, DribbleKeeps DEF Next

LEMMA IInvHolds == Spec => []IInv
<1>1. Init => IInv
  BY InitHolds
<1>2. IInv /\ [Next]_vars => IInv'
  BY NextKeeps
<1> QED
  BY <1>1, <1>2, PTL DEF Spec

(* Every variable of the transport keeps its type; the wait group never     *)
(* goes negative (netTransport, netConn).                                   *)
THEOREM TypeCorrect == Spec => []TypeOK
BY IInvHolds, PTL DEF IInv

(* However connections come, fail, panic or are drained, the sockets that   *)
(* are served never exceed max_connections (admit, serveConn, closeAll).    *)
THEOREM SocketsAlwaysBounded == Spec => []SocketsBounded
<1>1. ASSUME IInv PROVE SocketsBounded
  <2> DEFINE S == {c \in Conns : at[c] \in Serving /\ open[c]}
  <2>1. S \subseteq conns
    BY <1>1 DEF IInv, Tracked
  <2>2. Cardinality(S) <= Cardinality(conns) /\ Cardinality(S) \in Nat
    BY <1>1, <2>1, Finite, FS_Subset, FS_CardinalityType
  <2>3. Cardinality(conns) <= MaxConnections /\ Cardinality(conns) \in Nat
    BY <1>1, Finite DEF IInv, Tracked
  <2> HIDE DEF S
  <2>4. Cardinality(S) <= MaxConnections
    BY <2>2, <2>3
  <2> QED
    BY <2>4 DEF S, SocketsBounded
<1> QED
  BY <1>1, IInvHolds, PTL

(* The wait group is the number of goroutines, those that refuse among      *)
(* them, so that a drain that is reported left none behind (Shutdown).      *)
THEOREM WaitGroupExact == Spec => []WgExact
BY IInvHolds, PTL DEF IInv

(* Wherever the drain finds a connection and however much its client has    *)
(* pipelined, it runs at most one command it had not decoded when the       *)
(* shutdown began (Handle, batchEnds, Shutdown).                            *)
THEOREM OneLateCommandAlways == Spec => []OneLateCommand
<1>1. IInv => OneLateCommand
  BY DEF IInv, Late, OneLateCommand
<1> QED
  BY <1>1, IInvHolds, PTL

=============================================================================
