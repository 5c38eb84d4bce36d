-------------------------------- MODULE Pool --------------------------------
(* The client SDK (pkg/client): a fixed set of connections handed out one  *)
(* caller at a time (pool.go), one round trip on one of them (conn.go),    *)
(* and the retries around it (client.go).  The other end is a server with  *)
(* one key that applies a request it has read even if nobody waits for the *)
(* reply, and may hang up at any time.                                     *)
(*                                                                         *)
(* Time is left out: a deadline on a socket may pass whenever somebody     *)
(* waits, a context may be done at any moment, and a caller may find an    *)
(* idle connection fresh, aged or past its welcome.                        *)
EXTENDS Integers, SequencesExt

CONSTANTS
  Callers,     \* the goroutines that make calls
  Conns,       \* a bound of the model: sockets that exist at a time
  PoolSize,    \* opts.poolSize
  Retries,     \* the argument of WithRetries
  HasToken,    \* opts.token # ""
  Calls,       \* the methods each caller uses, as pairs
  Hurried,     \* the callers whose context may be done before they are
  MaxCalls,    \* a bound of the model: calls that a caller makes
  MaxDials     \* a bound of the model: how often dial tries again

ASSUME SetsAssumption == IsFiniteSet(Callers) /\ IsFiniteSet(Conns)
ASSUME SizeAssumption == PoolSize \in Nat \ {0} /\ Retries \in Nat
ASSUME BoundAssumption == MaxCalls \in Nat /\ MaxDials \in Nat /\ HasToken \in BOOLEAN

(* A method's name, and whether it passes "idempotent" to call.            *)
Policy == [Get |-> TRUE, Set |-> TRUE, SetNX |-> FALSE, Del |-> FALSE, Exists |-> TRUE,
           Expire |-> TRUE, ExpireNow |-> TRUE, TTL |-> TRUE, Keys |-> TRUE,
           Scan |-> FALSE, Ping |-> TRUE, Echo |-> TRUE, Info |-> TRUE,
           DBSize |-> TRUE, Stats |-> TRUE, Do |-> FALSE]
ASSUME CallsAssumption == Calls \subseteq Callers \X DOMAIN Policy /\ Hurried \subseteq Callers

VARIABLES
  slots,    \* the tokens in p.slots
  idle,     \* p.idle, the connection used last at the end
  closed,   \* p.closed
  live,     \* p.live
  caller,   \* where each caller is, and the locals of its call
  done,     \* the callers whose context is done
  watch,    \* the goroutine that watches a caller's context
  sock,     \* the connections
  key,      \* the server holds its key
  took      \* history: the callers whose call stored or removed the key

pool == <<slots, idle, closed, live>>
server == <<key, took>>
vars == <<pool, caller, done, watch, sock, server>>

None == "none"
ASSUME NoneAssumption == None \notin Conns
(* "wire" is a network error or a deadline that passed.                    *)
Errors == {None, "wire", "protocol", "auth", "closed", "context"}
Places == {"idle", "get", "slot", "take", "alive", "forget", "check", "dial", "redial",
           "send", "read", "release", "adopt", "put", "unslot", "answered",
           "backoff", "returned"}

NoTag == [by |-> None, nth |-> 0, try |-> 0, what |-> None]
NoReply == [tag |-> NoTag, kind |-> None, n |-> 0]
NoCall == [at |-> "idle", method |-> None, nth |-> 0, try |-> 1, dials |-> 0,
           doing |-> None, conn |-> None, reply |-> NoReply, err |-> None]
NoWatch == [at |-> "off", conn |-> None]
Unused == [side |-> "closed", srv |-> "gone", req |-> <<>>, rep |-> <<>>,
           broken |-> FALSE, expired |-> FALSE]

(* What a request asks, and for whom: a reply carries it back.             *)
Tag(p) == [by |-> p, nth |-> caller[p].nth, try |-> caller[p].try,
           what |-> IF caller[p].doing = "call" THEN caller[p].method ELSE caller[p].doing]

At(p, place) == caller[p].at = place
Over(p) == caller[p].at \in {"idle", "returned"}
Conn(p) == caller[p].conn
Go(p, place) == caller' = [caller EXCEPT ![p].at = place]
Fail(p, place, e) == caller' = [caller EXCEPT ![p].at = place, ![p].err = e]
Drop(p, place, e) ==
  caller' = [caller EXCEPT ![p].at = place, ![p].err = e, ![p].conn = None]

Hung(s) == [s EXCEPT !.side = "closed", !.rep = <<>>]

-----------------------------------------------------------------------------
(* call, and get up to the slot                                            *)

Start(p, method) ==
  /\ <<p, method>> \in Calls
  /\ Over(p) /\ caller[p].nth < MaxCalls
  /\ caller' = [caller EXCEPT ![p] = [NoCall EXCEPT !.at = "get", !.method = method,
                                                    !.nth = caller[p].nth + 1]]
  /\ done' = done \ {p}
  /\ took' = took \ {p}
  /\ UNCHANGED <<pool, watch, sock, key>>

Get(p) ==
  /\ At(p, "get")
  /\ IF p \in done THEN Fail(p, "answered", "context")
     ELSE IF closed THEN Fail(p, "answered", "closed")
     ELSE Go(p, "slot")
  /\ UNCHANGED <<pool, done, watch, sock, server>>

TakeSlot(p) ==
  /\ At(p, "slot") /\ slots > 0
  /\ slots' = slots - 1
  /\ Go(p, "take")
  /\ UNCHANGED <<idle, closed, live, done, watch, sock, server>>

SlotGivenUp(p) ==
  /\ At(p, "slot") /\ p \in done
  /\ Fail(p, "answered", "context")
  /\ UNCHANGED <<pool, done, watch, sock, server>>

-----------------------------------------------------------------------------
(* acquire                                                                 *)

TakeIdle(p) ==
  /\ At(p, "take") /\ idle # <<>>
  /\ idle' = Front(idle)
  /\ caller' = [caller EXCEPT ![p].at = "alive", ![p].conn = Last(idle)]
  /\ UNCHANGED <<slots, closed, live, done, watch, sock, server>>

NoIdle(p) ==
  /\ At(p, "take") /\ idle = <<>>
  /\ Go(p, "check")
  /\ UNCHANGED <<pool, done, watch, sock, server>>

(* A connection used a moment ago is not probed; the probe finds the end   *)
(* of the stream, or a byte that nobody asked for.                         *)
Healthy(s, since) ==
  /\ ~s.broken
  /\ \/ since = "fresh"
     \/ since = "aged" /\ s.srv = "up" /\ s.rep = <<>> /\ ~s.expired

Alive(p, since) ==
  /\ At(p, "alive")
  /\ LET good == Healthy(sock[Conn(p)], since)
     IN  /\ caller' = [caller EXCEPT ![p].at = IF good THEN "send" ELSE "forget",
                                     ![p].doing = IF good THEN "call" ELSE None]
         /\ sock' = IF good THEN sock ELSE [sock EXCEPT ![Conn(p)] = Hung(@)]
  /\ UNCHANGED <<pool, done, watch, server>>

Forget(p) ==
  /\ At(p, "forget")
  /\ live' = live - 1
  /\ Drop(p, "take", None)
  /\ UNCHANGED <<slots, idle, closed, done, watch, sock, server>>

Check(p) ==
  /\ At(p, "check")
  /\ IF closed THEN Fail(p, "unslot", "closed") ELSE Go(p, "dial")
  /\ UNCHANGED <<pool, done, watch, sock, server>>

(* A server at its limit accepts, writes an error nobody asked for and     *)
(* hangs up.                                                               *)
Refusal == [tag |-> NoTag, kind |-> "error", n |-> 0]
Accepted == [Unused EXCEPT !.side = "open", !.srv = "up"]
TurnedAway == [Unused EXCEPT !.side = "open", !.rep = <<Refusal>>]
Free(c) == sock[c].side = "closed" /\ (sock[c].srv = "gone" \/ sock[c].req = <<>>)

Dial(p, c, s) ==
  /\ At(p, "dial") /\ Free(c)
  /\ sock' = [sock EXCEPT ![c] = s]
  /\ caller' = [caller EXCEPT ![p].at = "send", ![p].conn = c, ![p].doing = "HELLO"]
  /\ UNCHANGED <<pool, done, watch, server>>

DialFails(p) ==
  /\ At(p, "dial")
  /\ Fail(p, "redial", "wire")
  /\ UNCHANGED <<pool, done, watch, sock, server>>

(* dial tries again within its window, unless trying cannot help.          *)
Retryable(e) == e = "wire"

Redial(p) ==
  /\ At(p, "redial") /\ Retryable(caller[p].err)
  /\ caller[p].dials < MaxDials /\ p \notin done
  /\ caller' = [caller EXCEPT ![p].at = "dial", ![p].dials = @ + 1, ![p].err = None]
  /\ UNCHANGED <<pool, done, watch, sock, server>>

DialGivenUp(p) ==
  /\ At(p, "redial")
  /\ \/ Go(p, "unslot")
     \/ p \in done /\ Retryable(caller[p].err) /\ Fail(p, "unslot", "context")
  /\ UNCHANGED <<pool, done, watch, sock, server>>

-----------------------------------------------------------------------------
(* exchange: one round trip.  HELLO and AUTH of the handshake and the      *)
(* command itself take the same steps.                                     *)

NotSent(p) ==
  /\ At(p, "send") /\ p \in done
  /\ IF caller[p].doing = "call"
     THEN Fail(p, "put", "context") /\ UNCHANGED sock
     ELSE Drop(p, "redial", "context") /\ sock' = [sock EXCEPT ![Conn(p)] = Hung(@)]
  /\ UNCHANGED <<pool, done, watch, server>>

(* What is written to a server that hung up goes nowhere.                  *)
Send(p) ==
  /\ At(p, "send") /\ p \notin done /\ ~sock[Conn(p)].expired
  /\ watch' = [watch EXCEPT ![p] = [at |-> "armed", conn |-> Conn(p)]]
  /\ sock' = IF sock[Conn(p)].srv = "up"
             THEN [sock EXCEPT ![Conn(p)].req = Append(@, Tag(p))] ELSE sock
  /\ Go(p, "read")
  /\ UNCHANGED <<pool, done, server>>

(* A command of which a part was written is never run.                     *)
SendFails(p) ==
  /\ At(p, "send") /\ p \notin done
  /\ watch' = [watch EXCEPT ![p] = [at |-> "armed", conn |-> Conn(p)]]
  /\ Fail(p, "release", "wire")
  /\ UNCHANGED <<pool, done, sock, server>>

Read(p) ==
  /\ At(p, "read") /\ sock[Conn(p)].rep # <<>>
  /\ caller' = [caller EXCEPT ![p].at = "release", ![p].reply = Head(sock[Conn(p)].rep)]
  /\ sock' = [sock EXCEPT ![Conn(p)].rep = Tail(@)]
  /\ UNCHANGED <<pool, done, watch, server>>

ReadFails(p) ==
  /\ At(p, "read")
  /\ Fail(p, "release", "wire")
  /\ UNCHANGED <<pool, done, watch, sock, server>>

(* The watcher: an interrupt deadline lands on the socket.                 *)
Watch(p) ==
  /\ watch[p].at = "armed" /\ p \in done
  /\ watch' = [watch EXCEPT ![p].at = "fired"]
  /\ sock' = [sock EXCEPT ![watch[p].conn].expired = TRUE]
  /\ UNCHANGED <<pool, caller, done, server>>

(* How exchange judges what was read, and what is made of that: any answer *)
(* to HELLO will do, an error to AUTH is a failure, and a connection whose *)
(* handshake failed is closed.                                             *)
Outcome(p, interrupted) ==
  LET c == caller[p]
  IN  IF interrupted THEN "context"
      ELSE IF c.err # None THEN c.err
      ELSE IF c.reply.kind = "push" THEN "protocol"
      ELSE IF c.doing = "AUTH" /\ c.reply.kind = "error" THEN "auth"
      ELSE None

(* Mutated: only a call that was abandoned costs the connection.           *)
Breaks_Interrupts(err) == err = "context"

Breaks(err) == err # None

Judge(p, interrupted) ==
  LET err == Outcome(p, interrupted)
      doing == caller[p].doing
  IN  /\ \/ /\ doing = "call"
            /\ Fail(p, "put", err)
            /\ sock' = [sock EXCEPT ![Conn(p)].broken = Breaks(err)]
         \/ /\ doing # "call" /\ err # None
            /\ Drop(p, "redial", err)
            /\ sock' = [sock EXCEPT ![Conn(p)] = Hung(@)]
         \/ /\ doing = "HELLO" /\ err = None /\ HasToken
            /\ caller' = [caller EXCEPT ![p].at = "send", ![p].doing = "AUTH",
                                        ![p].reply = NoReply]
            /\ UNCHANGED sock
         \/ /\ doing = (IF HasToken THEN "AUTH" ELSE "HELLO") /\ err = None
            /\ caller' = [caller EXCEPT ![p].at = "adopt", ![p].doing = "call",
                                        ![p].reply = NoReply]
            /\ UNCHANGED sock
      /\ UNCHANGED <<pool, done, server>>

(* Mutated: a watcher that has not decided yet is left behind.             *)
Release_NoWait(p) ==
  /\ At(p, "release")
  /\ watch' = IF watch[p].at = "fired" THEN [watch EXCEPT ![p].at = "off"] ELSE watch
  /\ Judge(p, watch[p].at = "fired")

(* release waits for the watcher to be over.                               *)
Release(p) ==
  /\ At(p, "release")
  /\ watch' = [watch EXCEPT ![p] = NoWatch]
  /\ Judge(p, watch[p].at = "fired")

-----------------------------------------------------------------------------
(* The rest of acquire, and attempt                                        *)

Adopt(p) ==
  /\ At(p, "adopt")
  /\ live' = live + 1
  /\ Go(p, "send")
  /\ UNCHANGED <<slots, idle, closed, done, watch, sock, server>>

Return(p) == caller' = [caller EXCEPT ![p].at = "unslot", ![p].conn = None]

(* Mutated: a pool that was closed in the meantime is not noticed.         *)
Put_IntoClosed(p) ==
  /\ At(p, "put")
  /\ IF sock[Conn(p)].broken
     THEN /\ live' = live - 1 /\ UNCHANGED idle
          /\ sock' = [sock EXCEPT ![Conn(p)] = Hung(@)]
     ELSE idle' = Append(idle, Conn(p)) /\ UNCHANGED <<live, sock>>
  /\ Return(p)
  /\ UNCHANGED <<slots, closed, done, watch, server>>

Put(p) ==
  /\ At(p, "put")
  /\ IF closed \/ sock[Conn(p)].broken
     THEN /\ live' = live - 1 /\ UNCHANGED idle
          /\ sock' = [sock EXCEPT ![Conn(p)] = Hung(@)]
     ELSE idle' = Append(idle, Conn(p)) /\ UNCHANGED <<live, sock>>
  /\ Return(p)
  /\ UNCHANGED <<slots, closed, done, watch, server>>

Unslot(p) ==
  /\ At(p, "unslot")
  /\ slots' = IF slots < PoolSize THEN slots + 1 ELSE slots
  /\ Go(p, "answered")
  /\ UNCHANGED <<idle, closed, live, done, watch, sock, server>>

(* call's loop.                                                            *)
Attempts(p) == 1 + (IF Policy[caller[p].method] THEN Retries ELSE 0)

(* Mutated: whatever failed on the wire is sent again.                     *)
Again_Always(p) ==
  Retryable(caller[p].err) /\ p \notin done /\ caller[p].try < 1 + Retries

Again(p) ==
  Retryable(caller[p].err) /\ p \notin done /\ caller[p].try < Attempts(p)

Answered(p) ==
  /\ At(p, "answered")
  /\ IF Again(p) THEN Go(p, "backoff") ELSE Go(p, "returned")
  /\ UNCHANGED <<pool, done, watch, sock, server>>

Backoff(p) ==
  /\ At(p, "backoff")
  /\ \/ caller' = [caller EXCEPT ![p].at = "get", ![p].try = @ + 1, ![p].err = None,
                                 ![p].dials = 0, ![p].doing = None, ![p].reply = NoReply]
     \/ p \in done /\ Fail(p, "returned", "context")
  /\ UNCHANGED <<pool, done, watch, sock, server>>

-----------------------------------------------------------------------------
(* Contexts, Close, and the server                                         *)

Cancel(p) ==
  /\ p \in Hurried /\ ~Over(p) /\ p \notin done
  /\ done' = done \union {p}
  /\ UNCHANGED <<pool, caller, watch, sock, server>>

Close ==
  /\ ~closed
  /\ closed' = TRUE
  /\ idle' = <<>>
  /\ live' = live - Len(idle)
  /\ sock' = [c \in Conns |-> IF Contains(idle, c) THEN Hung(sock[c]) ELSE sock[c]]
  /\ UNCHANGED <<slots, caller, done, watch, server>>

(* DEL and EXPIRE with no time left answer whether there was a key, SETNX  *)
(* whether there was none.                                                 *)
Removes(method) == method \in {"Del", "ExpireNow"}
Stores(method) == method \in {"Set", "SetNX"}
Applies(method) == IF method = "SetNX" THEN ~key ELSE key
Counts(method) == Removes(method) \/ method = "SetNX"

(* The server runs a request and writes the reply.  An error to HELLO is   *)
(* an answer like any other, and a command that is refused does nothing.   *)
Kinds(what) == IF what = "AUTH" THEN {"ok", "error"} ELSE {"ok"}

Serve(c) ==
  /\ sock[c].srv = "up" /\ sock[c].req # <<>>
  /\ LET tag == Head(sock[c].req)
         asked == tag.nth = caller[tag.by].nth
     IN  \E kind \in Kinds(tag.what) :
           LET hit == kind = "ok" /\ Applies(tag.what)
           IN  /\ key' = IF kind = "ok" /\ Removes(tag.what) THEN FALSE
                         ELSE IF kind = "ok" /\ Stores(tag.what) THEN TRUE ELSE key
               /\ took' = IF hit /\ asked /\ Counts(tag.what) THEN took \union {tag.by} ELSE took
               /\ sock' = [sock EXCEPT
                    ![c].req = Tail(@),
                    ![c].rep = IF sock[c].side = "closed" THEN @
                               ELSE Append(@, [tag |-> tag, kind |-> kind,
                                               n |-> IF hit THEN 1 ELSE 0])]
  /\ UNCHANGED <<pool, caller, done, watch>>

HangUp(c) ==
  /\ sock[c].srv = "up"
  /\ sock' = [sock EXCEPT ![c].srv = "gone", ![c].req = <<>>]
  /\ UNCHANGED <<pool, caller, done, watch, server>>

-----------------------------------------------------------------------------
Step(p) ==
  \/ Get(p) \/ TakeSlot(p) \/ SlotGivenUp(p)
  \/ TakeIdle(p) \/ NoIdle(p) \/ (\E since \in {"fresh", "aged", "expired"} : Alive(p, since))
  \/ Forget(p) \/ Check(p) \/ DialFails(p) \/ Redial(p) \/ DialGivenUp(p)
  \/ (\E c \in Conns, s \in {Accepted, TurnedAway} : Dial(p, c, s))
  \/ NotSent(p) \/ Send(p) \/ SendFails(p) \/ Read(p) \/ ReadFails(p) \/ Release(p)
  \/ Adopt(p) \/ Put(p) \/ Unslot(p) \/ Answered(p) \/ Backoff(p)

Init ==
  /\ slots = PoolSize /\ idle = <<>> /\ closed = FALSE /\ live = 0
  /\ caller = [p \in Callers |-> NoCall]
  /\ done = {}
  /\ watch = [p \in Callers |-> NoWatch]
  /\ sock = [c \in Conns |-> Unused]
  /\ key \in BOOLEAN /\ took = {}

Next ==
  \/ (\E p \in Callers : Step(p) \/ Watch(p) \/ Cancel(p) \/ (\E m \in DOMAIN Policy : Start(p, m)))
  \/ (\E c \in Conns : Serve(c) \/ HangUp(c))
  \/ Close

Spec == Init /\ [][Next]_vars

-----------------------------------------------------------------------------
(* Properties *)

(* A connection in the pool is at a frame boundary: no reply to an earlier *)
(* caller is on its way, and no interrupt of one will land on it.          *)
IdleClean ==
  \A i \in DOMAIN idle :
    LET s == sock[idle[i]]
    IN  /\ s.side = "open" /\ ~s.broken /\ ~s.expired
        /\ s.req = <<>> /\ s.rep = <<>>
        /\ \A p \in Callers : watch[p].at # "off" => watch[p].conn # idle[i]

(* No caller is given the reply to another caller's command, or to an      *)
(* earlier one of its own.                                                 *)
OwnReply ==
  \A p \in Callers :
    LET c == caller[p]
    IN  c.doing = "call" /\ c.reply # NoReply => c.reply.tag = Tag(p)

(* The callers that have done with takeIdle and hold a connection or are   *)
(* about to open one, those that hold a slot, and those whose connection   *)
(* is counted in live.                                                     *)
Busy == {p \in Callers : caller[p].at \in
          {"alive", "forget", "check", "dial", "redial", "send", "read", "release",
           "adopt", "put"}}
Holders == Busy \union {p \in Callers : caller[p].at \in {"take", "unslot"}}
Counted == {p \in Callers : caller[p].conn # None /\ caller[p].at # "adopt"
                            /\ caller[p].doing \notin {"HELLO", "AUTH"}}

(* pool.go: the pool "never causes a new connection to be opened beyond    *)
(* the limit"; every slot is free or held, so that nobody waits for one    *)
(* for ever; live is what is open; and once the pool is closed and every   *)
(* call is over it has left nothing open.                                  *)
Ceiling ==
  /\ Cardinality({c \in Conns : sock[c].side = "open"}) <= PoolSize
  /\ slots + Cardinality(Holders) = PoolSize
  /\ live = Len(idle) + Cardinality(Counted)
  /\ closed /\ Busy = {} => \A c \in Conns : sock[c].side = "closed"

(* client.go, of SETNX and DEL: a call that is answered 0 is not the one   *)
(* that stored, or removed, the key.                                       *)
Zero(p) ==
  At(p, "returned") /\ caller[p].err = None /\ caller[p].reply.kind = "ok"
  /\ caller[p].reply.n = 0
AnswersTruthful ==
  \A p \in Callers : Zero(p) /\ caller[p].method \in {"SetNX", "Del"} => p \notin took

(* client.go: WithRetries "retries the commands whose reply is idempotent" *)
(* and EXPIRE is one of them.                                              *)
ExpireTruthful ==
  \A p \in Callers : Zero(p) /\ caller[p].method = "ExpireNow" => p \notin took

=============================================================================
