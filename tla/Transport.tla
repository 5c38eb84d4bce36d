----------------------------- MODULE Transport -----------------------------
(* The network transport (internal/server/net_transport.go): the accept    *)
(* loop, admission under max_connections, one goroutine per connection     *)
(* with its TLS handshake and its two deadlines, and the drain of          *)
(* Shutdown.  What a command does is left out: a handler decodes a         *)
(* request, runs it, touches the connection and flushes, or goes on to the *)
(* next request of the batch.                                              *)
(*                                                                         *)
(* A deadline is "none", "armed" or "past".  An armed deadline may pass at *)
(* any time, which is all the code relies on.                              *)
EXTENDS Naturals, FiniteSets

CONSTANTS
  Conns,            \* the connections clients may open
  MaxConnections,   \* limits.MaxConnections
  MaxRequest,       \* the reads a request may draw, limits.MaxRequestBytes
  IdleOn            \* limits.IdleTimeout > 0

ASSUME ConnsAssumption == IsFiniteSet(Conns)
ASSUME LimitAssumption == MaxConnections \in Nat \ {0} /\ MaxRequest \in Nat \ {0}
ASSUME IdleAssumption == IdleOn \in BOOLEAN

VARIABLES
  secure,     \* the listener is wrapped by TLS
  cancelled,  \* t.ctx is canceled
  listening,  \* t.ln is open
  loop,       \* where Serve is: [at |-> label, conn |-> {} or {c}]
  conns,      \* t.conns
  wg,         \* the counter of t.wg
  at,         \* where each connection and its goroutine are
  open,       \* the socket is open
  deadline,   \* the read deadline of the socket
  draining,   \* c.draining
  spent,      \* budget.spent
  late,       \* history: commands decoded after the cancellation
  down        \* where Shutdown is: [at |-> label, todo |-> left to drain, half |-> {c}]

server == <<secure, cancelled, listening, loop, conns, wg>>
sockets == <<open, deadline, draining, spent, late>>
vars == <<server, at, sockets, down>>

-----------------------------------------------------------------------------
(* Where a connection can be: not dialed, in the kernel's backlog, with    *)
(* the accept loop, with the goroutine that serves or the one that refuses *)
(* it, or over.                                                            *)
Serving == {"start", "shake", "shaken", "arm", "arming", "read", "run", "touch",
            "touching", "batch", "flush", "last", "close", "untrack", "leave"}
Refusing == {"refuse", "greet", "hangup"}
Places == {"away", "queued", "accepted", "done"} \union Serving \union Refusing

LoopPlaces == {"accept", "check", "lock", "serve", "refuse", "over", "failed"}
DownPlaces == {"idle", "cancelled", "closed", "drain", "wait", "drained", "expired"}

Move(c, from, to) == at[c] = from /\ at' = [at EXCEPT ![c] = to]
MuFree == down.at # "drain"
Set(c, d) == IF open[c] THEN [deadline EXCEPT ![c] = d] ELSE deadline

-----------------------------------------------------------------------------
(* The accept loop.                                                        *)

Dial(c) ==
  /\ listening
  /\ Move(c, "away", "queued")
  /\ open' = [open EXCEPT ![c] = TRUE]
  /\ UNCHANGED <<server, deadline, draining, spent, late, down>>

Accept(c) ==
  /\ loop.at = "accept" /\ listening
  /\ Move(c, "queued", "accepted")
  /\ loop' = [at |-> "check", conn |-> {c}]
  /\ UNCHANGED <<secure, cancelled, listening, conns, wg, sockets, down>>

(* Accept returns an error: the end if the transport is shutting down, a   *)
(* failure of Serve otherwise.                                             *)
AcceptEnds ==
  /\ loop.at = "accept" /\ (cancelled \/ ~listening)
  /\ loop' = [loop EXCEPT !.at = "over"]
  /\ UNCHANGED <<secure, cancelled, listening, conns, wg, at, sockets, down>>

AcceptFails ==
  /\ loop.at = "accept" /\ ~cancelled /\ listening
  /\ loop' = [loop EXCEPT !.at = "failed"]
  /\ UNCHANGED <<secure, cancelled, listening, conns, wg, at, sockets, down>>

(* admit tests the context before it takes the lock.                       *)
AdmitCheck(c) ==
  /\ loop = [at |-> "check", conn |-> {c}]
  /\ ~cancelled
  /\ loop' = [loop EXCEPT !.at = "lock"]
  /\ UNCHANGED <<secure, cancelled, listening, conns, wg, at, sockets, down>>

ShuttingDown(c) ==
  /\ loop = [at |-> "check", conn |-> {c}]
  /\ cancelled
  /\ loop' = [at |-> "accept", conn |-> {}]
  /\ Move(c, "accepted", "done")
  /\ open' = [open EXCEPT ![c] = FALSE]
  /\ UNCHANGED <<secure, cancelled, listening, conns, wg, deadline, draining,
                 spent, late, down>>

Admit(c) ==
  /\ loop = [at |-> "lock", conn |-> {c}] /\ MuFree
  /\ Cardinality(conns) < MaxConnections
  /\ conns' = conns \union {c}
  /\ loop' = [loop EXCEPT !.at = "serve"]
  /\ UNCHANGED <<secure, cancelled, listening, wg, at, sockets, down>>

OverLimit(c) ==
  /\ loop = [at |-> "lock", conn |-> {c}] /\ MuFree
  /\ Cardinality(conns) >= MaxConnections
  /\ loop' = [loop EXCEPT !.at = "refuse"]
  /\ UNCHANGED <<secure, cancelled, listening, conns, wg, at, sockets, down>>

(* serve and refuse: wg.Add, then a goroutine.                             *)
Spawn(c) ==
  /\ loop.conn = {c}
  /\ \/ loop.at = "serve" /\ Move(c, "accepted", "start")
     \/ loop.at = "refuse" /\ Move(c, "accepted", "refuse")
  /\ loop' = [at |-> "accept", conn |-> {}]
  /\ wg' = wg + 1
  /\ UNCHANGED <<secure, cancelled, listening, conns, sockets, down>>

Loop(c) == Accept(c) \/ AdmitCheck(c) \/ ShuttingDown(c) \/ Admit(c) \/ OverLimit(c) \/ Spawn(c)

-----------------------------------------------------------------------------
(* The goroutine that refuses a connection: one write under a deadline,    *)
(* delivered or not, then a close.  The first write on a TLS connection    *)
(* runs the handshake before anything else, and that reads: the deadline   *)
(* is one of writing, there is no context, and the connection is not in    *)
(* t.conns, so that only the peer, by answering, failing or going away,    *)
(* ends it.                                                                *)

Refuse(c) ==
  /\ Move(c, "refuse", IF secure THEN "greet" ELSE "hangup")
  /\ UNCHANGED <<server, sockets, down>>

Greeted(c) ==
  /\ Move(c, "greet", "hangup")
  /\ UNCHANGED <<server, sockets, down>>

Hangup(c) ==
  /\ Move(c, "hangup", "done")
  /\ open' = [open EXCEPT ![c] = FALSE]
  /\ wg' = wg - 1
  /\ UNCHANGED <<secure, cancelled, listening, loop, conns, deadline, draining,
                 spent, late, down>>

-----------------------------------------------------------------------------
(* The goroutine that serves one.                                          *)

Keep == UNCHANGED <<server, sockets, down>>

(* handshake: nothing at all on a plaintext connection; otherwise both     *)
(* deadlines are set, the peer is talked to, and both are cleared.         *)
Start(c) ==
  /\ \/ ~secure /\ Move(c, "start", "arm") /\ UNCHANGED deadline
     \/ secure /\ open[c] /\ Move(c, "start", "shake") /\ deadline' = Set(c, "armed")
     \/ secure /\ ~open[c] /\ Move(c, "start", "close") /\ UNCHANGED deadline
  /\ UNCHANGED <<server, open, draining, spent, late, down>>

(* HandshakeContext fails when the context is canceled before it is done.  *)
Shaken(c) == open[c] /\ ~cancelled /\ Move(c, "shake", "shaken") /\ Keep

ShakeFails(c) ==
  /\ deadline[c] = "past" \/ cancelled \/ ~open[c]
  /\ Move(c, "shake", "close")
  /\ Keep

ShakeClear(c) ==
  /\ \/ open[c] /\ Move(c, "shaken", "arm") /\ deadline' = Set(c, "none")
     \/ ~open[c] /\ Move(c, "shaken", "close") /\ UNCHANGED deadline
  /\ UNCHANGED <<server, open, draining, spent, late, down>>

(* armRead: draining is loaded, and only then is the deadline set.         *)
ArmLoad(c, from, arming, to) ==
  /\ Move(c, from, IF IdleOn /\ ~draining[c] THEN arming ELSE to)
ArmSet(c, from, to) ==
  /\ Move(c, from, to)
  /\ deadline' = Set(c, "armed")

(* Mutated: the idle clock starts with the first command.                  *)
Arm_FirstTouch(c) == Move(c, "arm", "read") /\ Keep

Arm(c) == ArmLoad(c, "arm", "arming", "read") /\ Keep
Armed(c) ==
  /\ ArmSet(c, "arming", "read")
  /\ UNCHANGED <<server, open, draining, spent, late, down>>

(* The decoder reads.  Part of a request arrives, or the rest of it; the   *)
(* budget runs out; the read fails, or its deadline passes.  A failure     *)
(* flushes what is owed before the goroutine ends.                         *)

Dribble(c) ==
  /\ at[c] = "read" /\ open[c] /\ deadline[c] # "past" /\ spent[c] < MaxRequest
  /\ spent' = [spent EXCEPT ![c] = @ + 1]
  /\ UNCHANGED <<server, at, open, deadline, draining, late, down>>

(* A request that is already in the read buffer needs no read: it is       *)
(* decoded whatever became of the socket and its deadline.                 *)
Receive(c) ==
  /\ Move(c, "read", "run")
  /\ late' = [late EXCEPT ![c] = IF cancelled THEN @ + 1 ELSE @]
  /\ UNCHANGED <<server, open, deadline, draining, spent, down>>

TooLarge(c) == spent[c] = MaxRequest /\ Move(c, "read", "last") /\ Keep
ReadFails(c) == Move(c, "read", "last") /\ Keep
ReadEnds(c) ==
  /\ deadline[c] = "past" \/ ~open[c]
  /\ Move(c, "read", "last")
  /\ Keep

(* The command has run, or has panicked.                                   *)
Ran(c) == Move(c, "run", "touch") /\ Keep
Panics(c) == Move(c, "run", "close") /\ Keep

(* Touch: the budget is returned, the idle clock restarted.                *)
Touch(c) ==
  /\ ArmLoad(c, "touch", "touching", "batch")
  /\ spent' = [spent EXCEPT ![c] = 0]
  /\ UNCHANGED <<server, open, deadline, draining, late, down>>
Touched(c) ==
  /\ ArmSet(c, "touching", "batch")
  /\ UNCHANGED <<server, open, draining, spent, late, down>>

(* batchEnds: always when shutting down.  The limit on the replies closes  *)
(* the connection.                                                         *)
BatchEnds(c) == Move(c, "batch", "flush") /\ Keep
BatchGoesOn(c) == ~cancelled /\ Move(c, "batch", "read") /\ Keep
OutputLimit(c) == Move(c, "batch", "close") /\ Keep

(* Mutated: the loop does not look at the context.                         *)
Flushed_GoesOn(c) == open[c] /\ Move(c, "flush", "read") /\ Keep

Flushed(c) ==
  /\ open[c]
  /\ Move(c, "flush", IF cancelled THEN "close" ELSE "read")
  /\ Keep
(* QUIT, a peer that is gone, a write deadline that passed.                *)
FlushEnds(c) == Move(c, "flush", "close") /\ Keep
(* Mutated: the slot is given back before the socket is closed.            *)
LastFlush_Untracks(c) ==
  /\ Move(c, "last", "close")
  /\ conns' = conns \ {c}
  /\ UNCHANGED <<secure, cancelled, listening, loop, wg, sockets, down>>

LastFlush(c) == Move(c, "last", "close") /\ Keep

(* The deferred calls, in their order: close, untrack, wg.Done.            *)
CloseSocket(c) ==
  /\ Move(c, "close", "untrack")
  /\ open' = [open EXCEPT ![c] = FALSE]
  /\ UNCHANGED <<server, deadline, draining, spent, late, down>>

Untrack(c) ==
  /\ MuFree
  /\ Move(c, "untrack", "leave")
  /\ conns' = conns \ {c}
  /\ UNCHANGED <<secure, cancelled, listening, loop, wg, sockets, down>>

Leave(c) ==
  /\ Move(c, "leave", "done")
  /\ wg' = wg - 1
  /\ UNCHANGED <<secure, cancelled, listening, loop, conns, sockets, down>>

(* The steps a goroutine takes whatever its peer does, and the others.     *)
Own(c) ==
  \/ Refuse(c) \/ Hangup(c) \/ Start(c) \/ ShakeFails(c) \/ ShakeClear(c)
  \/ Arm(c) \/ Armed(c) \/ TooLarge(c) \/ ReadEnds(c) \/ Ran(c) \/ Touch(c)
  \/ Touched(c) \/ BatchEnds(c) \/ FlushEnds(c) \/ LastFlush(c)
  \/ CloseSocket(c) \/ Untrack(c) \/ Leave(c)
Peer(c) ==
  \/ Greeted(c) \/ Shaken(c) \/ Dribble(c) \/ Receive(c) \/ ReadFails(c) \/ Panics(c)
  \/ BatchGoesOn(c) \/ OutputLimit(c) \/ Flushed(c)

(* Time: an armed read deadline passes.                                    *)
Passes(c) ==
  /\ deadline[c] = "armed" /\ at[c] \in {"shake", "read"}
  /\ deadline' = [deadline EXCEPT ![c] = "past"]
  /\ UNCHANGED <<server, at, open, draining, spent, late, down>>

-----------------------------------------------------------------------------
(* Shutdown.                                                               *)

Cancel ==
  /\ down.at = "idle"
  /\ cancelled' = TRUE
  /\ down' = [down EXCEPT !.at = "cancelled"]
  /\ UNCHANGED <<secure, listening, loop, conns, wg, at, sockets>>

CloseListener ==
  /\ down.at = "cancelled"
  /\ listening' = FALSE
  /\ down' = [down EXCEPT !.at = "closed"]
  /\ UNCHANGED <<secure, cancelled, loop, conns, wg, at, sockets>>

LockConns ==
  /\ down.at = "closed"
  /\ down' = [down EXCEPT !.at = "drain", !.todo = conns]
  /\ UNCHANGED <<server, at, sockets>>

(* drain: the flag, then the deadline.                                     *)
DrainFlag(c) ==
  /\ down.at = "drain" /\ down.half = {} /\ c \in down.todo
  /\ draining' = [draining EXCEPT ![c] = TRUE]
  /\ down' = [down EXCEPT !.half = {c}]
  /\ UNCHANGED <<server, at, open, deadline, spent, late>>
DrainDeadline(c) ==
  /\ down.at = "drain" /\ down.half = {c}
  /\ deadline' = Set(c, "past")
  /\ down' = [down EXCEPT !.half = {}, !.todo = @ \ {c}]
  /\ UNCHANGED <<server, at, open, draining, spent, late>>

UnlockConns ==
  /\ down.at = "drain" /\ down.todo = {} /\ down.half = {}
  /\ down' = [down EXCEPT !.at = "wait"]
  /\ UNCHANGED <<server, at, sockets>>

(* Everyone has left, or the context of Shutdown is done.                  *)
Drained ==
  /\ down.at = "wait" /\ wg = 0
  /\ down' = [down EXCEPT !.at = "drained"]
  /\ UNCHANGED <<server, at, sockets>>
(* Mutated: the connections that are left are not closed.                  *)
CloseAll_Forgotten ==
  /\ down.at = "wait"
  /\ down' = [down EXCEPT !.at = "expired"]
  /\ UNCHANGED <<server, at, sockets>>

CloseAll ==
  /\ down.at = "wait"
  /\ open' = [c \in Conns |-> open[c] /\ c \notin conns]
  /\ down' = [down EXCEPT !.at = "expired"]
  /\ UNCHANGED <<server, at, deadline, draining, spent, late>>

Shutdown ==
  \/ CloseListener \/ LockConns \/ UnlockConns \/ Drained \/ CloseAll
  \/ \E c \in Conns : DrainFlag(c) \/ DrainDeadline(c)

-----------------------------------------------------------------------------
Init ==
  /\ secure \in BOOLEAN
  /\ cancelled = FALSE /\ listening = TRUE
  /\ loop = [at |-> "accept", conn |-> {}]
  /\ conns = {} /\ wg = 0
  /\ at = [c \in Conns |-> "away"]
  /\ open = [c \in Conns |-> FALSE]
  /\ deadline = [c \in Conns |-> "none"]
  /\ draining = [c \in Conns |-> FALSE]
  /\ spent = [c \in Conns |-> 0] /\ late = [c \in Conns |-> 0]
  /\ down = [at |-> "idle", todo |-> {}, half |-> {}]

Next ==
  \/ AcceptEnds \/ AcceptFails \/ Cancel \/ Shutdown
  \/ \E c \in Conns : Dial(c) \/ Loop(c) \/ Own(c) \/ Peer(c) \/ Passes(c)

Spec == Init /\ [][Next]_vars

(* Goroutines run, deadlines pass; nothing is assumed of a peer.           *)
Fairness ==
  /\ WF_vars(AcceptEnds) /\ WF_vars(Shutdown)
  /\ \A c \in Conns : WF_vars(Loop(c)) /\ WF_vars(Own(c)) /\ WF_vars(Passes(c))
FairSpec == Spec /\ Fairness

-----------------------------------------------------------------------------
(* Properties *)

TypeOK ==
  /\ secure \in BOOLEAN /\ cancelled \in BOOLEAN /\ listening \in BOOLEAN
  /\ loop \in [at : LoopPlaces, conn : SUBSET Conns]
  /\ conns \subseteq Conns /\ wg \in Nat
  /\ at \in [Conns -> Places]
  /\ open \in [Conns -> BOOLEAN]
  /\ deadline \in [Conns -> {"none", "armed", "past"}]
  /\ draining \in [Conns -> BOOLEAN]
  /\ spent \in [Conns -> 0..MaxRequest] /\ late \in [Conns -> Nat]
  /\ down \in [at : DownPlaces, todo : SUBSET Conns, half : SUBSET Conns]

(* The sockets being served never exceed max_connections: a connection     *)
(* gives its slot back only once its socket is closed, also when a         *)
(* handler panics, a handshake fails or the transport is draining.         *)
SocketsBounded ==
  Cardinality({c \in Conns : at[c] \in Serving /\ open[c]}) <= MaxConnections

(* The wait group counts the goroutines, those that refuse a connection    *)
(* among them: Shutdown reports a drain only when none is left.            *)
WgExact == wg = Cardinality({c \in Conns : at[c] \in Serving \union Refusing})

(* A connection runs at most one command it had not decoded when the       *)
(* shutdown began, however fast its client sends and wherever the drain    *)
(* finds it (server.go: "the in-flight command is complete and answered,   *)
(* so shutdown can proceed").                                              *)
OneLateCommand == \A c \in Conns : late[c] <= 1

(* After the cancellation Shutdown returns and every goroutine ends: a     *)
(* connection that the drain missed, or whose deadline a handshake or      *)
(* armRead put back over the drain's, ends by its own idle deadline or by  *)
(* closeAll.  The exception is a goroutine that refuses a TLS client and   *)
(* waits for its handshake (see RefusalEnds): Shutdown returns all the     *)
(* same, by its context.                                                   *)
EveryoneLeaves ==
  cancelled ~> /\ \A c \in Conns : at[c] \in {"away", "queued", "done", "greet"}
               /\ down.at \in {"drained", "expired"}
               /\ loop.at \in {"over", "failed"}

(* A client that never completes a request loses its connection, however   *)
(* it dribbles and however the connection came to read: only a served      *)
(* command restarts the idle clock.                                        *)
SilentReaped ==
  \A c \in Conns : at[c] = "read" ~> at[c] \in {"run", "done"}

(* net_transport.go, refuseTimeout: "the deadline is there so a client     *)
(* that refuses to read one cannot hold a goroutine": whoever is told of   *)
(* the limit is hung up on, whatever it does.                              *)
RefusalEnds == \A c \in Conns : at[c] = "refuse" ~> at[c] = "done"

(* transport.go: Shutdown "stops accepting, drains in-flight work, and     *)
(* closes connections".                                                    *)
ShutdownCloses ==
  down.at \in {"drained", "expired"} =>
    \A c \in Conns : open[c] => at[c] \in {"queued", "accepted"} \union Refusing

=============================================================================
