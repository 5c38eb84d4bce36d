------------------------------ MODULE Handler -------------------------------
(* One connection's command loop (internal/server/server.go, Handle): it   *)
(* decodes the requests in the read buffer, runs them in order, collects   *)
(* the replies and flushes them once per batch.  The client may pipeline,  *)
(* its bytes may arrive cut anywhere between two tokens, and the           *)
(* configuration of the authenticator may be replaced at any time.         *)
(*                                                                         *)
(* What a command answers is left out but for its size; that the           *)
(* connection is closed after QUIT, and what AUTH and the gate in front of *)
(* every other command do, is modelled.                                    *)
EXTENDS Framing

CONSTANTS
  Requests,        \* the requests a client may send, as sequences of tokens
  MaxSent,         \* a bound of the model: how many it sends
  MaxPipeline,     \* limits.MaxPipelineCommands
  FlushAt,         \* pipelineFlushBytes
  MaxOutput,       \* limits.MaxOutputBytes; 0 is "no limit"
  ReplySizes,      \* the sizes a reply may have
  Configs          \* configurations of the authenticator

ASSUME HandlerLimits ==
  /\ MaxSent \in Nat /\ MaxPipeline \in Nat \ {0} /\ FlushAt \in Nat \ {0}
  /\ MaxOutput \in Nat /\ ReplySizes \subseteq Nat \ {0}
ASSUME RequestsType == \A r \in Requests : r \in Seq(Token)
ASSUME ConfigsType == Configs \subseteq [on : BOOLEAN, token : STRING]

VARIABLES
  at,       \* where Handle is
  wire,     \* tokens that have arrived and have not been read
  cut,      \* the rest of a request of which a part has arrived
  sent,     \* how many requests the client has begun to send
  buf,      \* the read buffer
  cmd,      \* the name of the command being run
  out,      \* the output buffer: [commands, bytes]
  stopping, \* the context is canceled
  authed,   \* session.authenticated
  auth,     \* the authenticator's state
  earlier,  \* the state that Verify's first load saw
  ran, got, \* history: replies earned by commands, and delivered
  why       \* history: how the connection ended

client == <<wire, cut, sent>>
session == <<authed, earlier>>
vars == <<at, client, buf, cmd, out, stopping, session, auth, ran, got, why>>

NoOutput == [commands |-> 0, bytes |-> 0]

-----------------------------------------------------------------------------
(* The client, the server's context, the configuration                     *)

Send ==
  /\ cut = <<>> /\ sent < MaxSent
  /\ cut' \in Requests
  /\ sent' = sent + 1
  /\ UNCHANGED <<at, wire, buf, cmd, out, stopping, session, auth, ran, got, why>>

Arrive ==
  /\ cut # <<>>
  /\ wire' = Append(wire, Head(cut))
  /\ cut' = Tail(cut)
  /\ UNCHANGED <<at, sent, buf, cmd, out, stopping, session, auth, ran, got, why>>

Cancel ==
  /\ ~stopping
  /\ stopping' = TRUE
  /\ UNCHANGED <<at, client, buf, cmd, out, session, auth, ran, got, why>>

(* Authenticator.Set, on a hot reload.                                     *)
Reload ==
  /\ auth' \in Configs \ {auth}
  /\ UNCHANGED <<at, client, buf, cmd, out, stopping, session, ran, got, why>>

-----------------------------------------------------------------------------
(* Decode                                                                  *)

Decoded == Decode(buf)

(* More is wanted: the read returns what has arrived by then.              *)
Fill ==
  /\ at = "decode" /\ Decoded.need /\ wire # <<>>
  /\ buf' = buf \o wire
  /\ wire' = <<>>
  /\ UNCHANGED <<at, cut, sent, cmd, out, stopping, session, auth, ran, got, why>>

Command ==
  /\ at = "decode" /\ ~Decoded.need /\ Decoded.name # Error
  /\ buf' = SubSeq(buf, Decoded.end + 1, Len(buf))
  /\ cmd' = Decoded.name
  /\ at' = "dispatch"
  /\ UNCHANGED <<client, out, stopping, session, auth, ran, got, why>>

(* handleDecodeError: a protocol error or a request over the byte budget   *)
(* is answered; a peer that is gone, an idle one and a shutdown are not.   *)
(* What is owed is flushed either way.                                     *)
Answered(reason) == reason \in {"protocol", "too large"}

Fail(reason) ==
  /\ \E size \in ReplySizes :
       out' = IF Answered(reason) THEN [commands |-> out.commands + 1,
                                        bytes |-> out.bytes + size]
              ELSE out
  /\ ran' = IF Answered(reason) THEN ran + 1 ELSE ran
  /\ at' = "last flush"
  /\ why' = reason
  /\ UNCHANGED <<client, buf, cmd, stopping, session, auth, got>>

Malformed ==
  /\ at = "decode" /\ ~Decoded.need /\ Decoded.name = Error
  /\ Fail("protocol")

ReadFails ==
  /\ at = "decode" /\ Decoded.need
  /\ \E reason \in {"eof", "idle", "shutdown", "too large"} :
       /\ reason = "shutdown" => stopping
       /\ Fail(reason)

-----------------------------------------------------------------------------
(* dispatch: the gate, then the handler.  Each load of the authenticator's *)
(* state is a step.                                                        *)
Allowed == {"PING", "QUIT", "AUTH", "AUTH2"}  \* noAuthCommands
TokenOf(name) == IF name = "AUTH" THEN "t1" ELSE "t2"

Goto(label) ==
  /\ at' = label
  /\ UNCHANGED <<client, buf, cmd, out, stopping, auth, ran, got, why>>

Gate ==
  /\ at = "dispatch"
  /\ Goto(IF auth.on /\ ~authed /\ cmd \notin Allowed THEN "noauth"
          ELSE IF cmd \in {"AUTH", "AUTH2"} THEN "verify" ELSE "handle")
  /\ UNCHANGED session

(* Verify: Required, one load; the digest is compared with that of a       *)
(* second one.                                                             *)
Required ==
  /\ at = "verify"
  /\ earlier' = auth
  /\ Goto(IF auth.on THEN "compare" ELSE "handle")
  /\ UNCHANGED authed

Compare ==
  /\ at = "compare"
  /\ authed' = (authed \/ TokenOf(cmd) = auth.token)
  /\ Goto("handle")
  /\ UNCHANGED earlier

-----------------------------------------------------------------------------
(* The reply, Touch, and the batch                                         *)

Closes == cmd = "QUIT"

(* outputBuffer.append: the breach is found once the reply is in.          *)
Reply(size) ==
  LET bytes == out.bytes + size
      over == MaxOutput > 0 /\ bytes > MaxOutput
  IN  /\ at \in {"handle", "noauth"}
      /\ out' = [commands |-> out.commands + 1, bytes |-> bytes]
      /\ ran' = ran + 1
      /\ at' = IF over THEN "over" ELSE "batch"
      /\ why' = IF over THEN "output" ELSE why
      /\ UNCHANGED <<client, buf, cmd, stopping, session, auth, got>>

(* Mutated: the batch goes on until a cap is reached.                      *)
BatchEnds_AtCaps ==
  \/ Closes \/ stopping
  \/ out.commands >= MaxPipeline
  \/ out.bytes >= FlushAt

(* Mutated: the size of what is waiting is not looked at.                  *)
BatchEnds_CountOnly ==
  \/ Closes \/ stopping
  \/ out.commands >= MaxPipeline
  \/ ~RequestBuffered(buf)

BatchEnds ==
  \/ Closes \/ stopping
  \/ out.commands >= MaxPipeline
  \/ out.bytes >= FlushAt
  \/ ~RequestBuffered(buf)

Batch ==
  /\ at = "batch"
  /\ Goto(IF BatchEnds THEN "flush" ELSE "decode")
  /\ UNCHANGED session

(* flush delivers everything, or the connection ends.                      *)
Flush ==
  /\ at = "flush"
  /\ got' = got + out.commands
  /\ out' = NoOutput
  /\ at' = IF Closes \/ stopping THEN "over" ELSE "decode"
  /\ why' = IF Closes THEN "quit" ELSE IF stopping THEN "shutdown" ELSE why
  /\ UNCHANGED <<client, buf, cmd, stopping, session, auth, ran>>

(* Mutated: the batch that the error interrupts is dropped.                *)
LastFlush_Dropped ==
  /\ at = "last flush"
  /\ got' = IF Answered(why) THEN got + 1 ELSE got
  /\ out' = NoOutput
  /\ at' = "over"
  /\ UNCHANGED <<client, buf, cmd, stopping, session, auth, ran, why>>

LastFlush ==
  /\ at = "last flush"
  /\ got' = got + out.commands
  /\ out' = NoOutput
  /\ at' = "over"
  /\ UNCHANGED <<client, buf, cmd, stopping, session, auth, ran, why>>

FlushFails ==
  /\ at \in {"flush", "last flush"} /\ out.commands > 0
  /\ out' = NoOutput
  /\ at' = "over"
  /\ why' = "write"
  /\ UNCHANGED <<client, buf, cmd, stopping, session, auth, ran, got>>

(* A panic, while a request is decoded or run, ends the goroutine: the     *)
(* transport recovers it and closes the connection, and what is in the     *)
(* output buffer goes with it.                                             *)
Panics ==
  /\ at \in {"decode", "handle"}
  /\ out' = NoOutput
  /\ at' = "over"
  /\ why' = "panic"
  /\ UNCHANGED <<client, buf, cmd, stopping, session, auth, ran, got>>

Step ==
  \/ Fill \/ Command \/ Malformed \/ Gate \/ Required \/ Compare
  \/ (\E size \in ReplySizes : Reply(size)) \/ Batch \/ Flush \/ LastFlush

-----------------------------------------------------------------------------
Init ==
  /\ at = "decode"
  /\ wire = <<>> /\ cut = <<>> /\ sent = 0 /\ buf = <<>>
  /\ cmd = "" /\ out = NoOutput
  /\ stopping = FALSE /\ authed = FALSE
  /\ auth \in Configs /\ earlier = auth
  /\ ran = 0 /\ got = 0 /\ why = "open"

Next == Send \/ Arrive \/ Cancel \/ Reload \/ Step \/ ReadFails \/ FlushFails \/ Panics

Spec == Init /\ [][Next]_vars

(* The goroutine runs; what the client has begun to send it need not end.  *)
FairSpec == Spec /\ WF_vars(Step)

-----------------------------------------------------------------------------
(* Properties *)

Places == {"decode", "dispatch", "verify", "compare", "handle", "noauth",
           "batch", "flush", "last flush", "over"}
Reasons == {"open", "quit", "shutdown", "protocol", "too large", "eof", "idle",
            "output", "write", "panic"}

TypeOK ==
  /\ at \in Places /\ why \in Reasons
  /\ wire \in Seq(Token) /\ cut \in Seq(Token) /\ buf \in Seq(Token)
  /\ sent \in 0..MaxSent
  /\ out \in [commands : Nat, bytes : Nat]
  /\ stopping \in BOOLEAN /\ authed \in BOOLEAN
  /\ auth \in Configs /\ earlier \in Configs
  /\ ran \in Nat /\ got \in Nat

(* Every reply that was earned is in the output buffer or delivered, and   *)
(* none of them twice: a connection that ends in any way but by the limit  *)
(* on its output, a failed write or a panic has delivered all it owes      *)
(* (server.go, handleDecodeError: "the replies to the commands before the  *)
(* bad one are already owed").                                             *)
NothingOwed ==
  why \notin {"output", "write", "panic"} =>
    /\ ran = got + out.commands
    /\ at = "over" => ran = got

(* What is held back while the server goes on reading is bounded by both   *)
(* caps of a batch, whatever the client pipelines and never reads.         *)
BatchBounded ==
  at \in {"decode", "dispatch", "verify", "compare"} =>
    out.commands < MaxPipeline /\ out.bytes < FlushAt

(* The frames on which the scanner is not one-sided: a header with a       *)
(* number that only the decoder reads, and a frame that names no command.  *)
Misread(i) ==
  \/ buf[i].form = "signed"
  \/ buf[i].kind = "array" /\ i + 2 <= Len(buf) /\ buf[i + 2].name = ""

(* Replies are not held while the server waits for input: those of a batch *)
(* reach the client even if it sends the rest of its next request only     *)
(* once it has read them, unless one of those two kinds of frames is what  *)
(* the decoder is in or has skipped.                                       *)
RepliesArrive ==
  out.commands > 0 ~>
    \/ out.commands = 0 \/ at = "over"
    \/ at = "decode" /\ Decoded.need /\ \E i \in DOMAIN buf : Misread(i)

(* server.go, Handle: "It flushes before any read that could block, which  *)
(* is what keeps a client that pipelines and then waits from deadlocking   *)
(* against a server holding its replies": whatever the client sends.       *)
RepliesAlwaysArrive == out.commands > 0 ~> out.commands = 0 \/ at = "over"

(* auth.go: "a reload swaps both at once and no connection can observe a   *)
(* half-applied change": the token that authenticates a connection is that *)
(* of a configuration in which it was asked for.                           *)
NoHalfChange == [][authed' # authed => auth.on]_vars

=============================================================================
