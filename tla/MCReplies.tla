------------------------------ MODULE MCReplies -----------------------------
(* What a caller must read of a reply, and the replies and streams it is   *)
(* checked over; MCPool assumes the checks.                                *)
EXTENDS Replies

CONSTANT Depth  \* how deep the replies of the instance nest

Bytes3 == {"a", Space, CR, LF}
Texts == SeqOf(Bytes3, 2) \union {<<"O", "K">>, <<"5">>, <<"a", CR, LF>>, <<"+", "a", LF>>}

Scalars ==
  [kind : {"SimpleString", "BulkString", "Verbatim", "BigNumber"}, text : Texts]
  \union [kind : {"Error", "BulkError"}, error : [kind : {<<>>, <<"E">>}, text : Texts]]
  \union [kind : {"Double"}, float : {"+Inf", "-Inf", "NaN", "5"}]
  \union [kind : {"Integer"}, int : {-1, 0, 5}]
  \union [kind : {"Boolean"}, bool : BOOLEAN]
  \union {[kind |-> "Nil"]}

(* A few of them to build the nested ones from.                            *)
Leaves == {[kind |-> "Nil"], [kind |-> "Integer", int |-> 5],
           [kind |-> "BulkString", text |-> <<CR, LF>>],
           [kind |-> "Error", error |-> [kind |-> <<"E">>, text |-> <<LF>>]]}
Nests(S) ==
  [kind : {"Array", "Set", "Push"}, items : SeqOf(S, 2)]
  \union [kind : {"Map"}, items : {s \in SeqOf(S, 2) : Len(s) % 2 = 0}]
  \union [kind : {"Attribute"}, items : SeqOf(S, 1)]
Deeper(S) == Leaves \union [kind : {"Array", "Attribute"}, items : [1..1 -> S]]
Composite == Nests(LET at[d \in 0..Depth] == IF d = 0 THEN Leaves ELSE Deeper(at[d - 1])
                   IN  at[Depth - 1])

Samples == Scalars \union Composite

(* How deep the innermost reply is, as maxReplyDepth counts: an attribute  *)
(* is no frame of RESP2.                                                   *)
RECURSIVE Nesting(_)
Nesting(r) ==
  CASE r.kind \notin {"Array", "Set", "Push", "Map", "Attribute"} -> 0
    [] r.kind = "Attribute" -> IF r.items = <<>> THEN 0 ELSE Nesting(r.items[1])
    [] OTHER -> IF r.items = <<>> THEN 0 ELSE 1 + Max({Nesting(r.items[i]) : i \in DOMAIN r.items})

(* What the types' comments say a RESP2 client reads.                      *)
Folded(text) == [i \in DOMAIN text |-> IF text[i] \in {CR, LF} THEN Space ELSE text[i]]
IsErrorOf(e, seen) ==
  /\ seen.type = "error"
  /\ seen.text = Folded(IF e.kind = <<>> THEN e.text ELSE e.kind \o <<Space>> \o e.text)
  /\ e.kind # <<>> => seen.kind = e.kind
  /\ Space \notin Range(seen.kind)

RECURSIVE Reads(_, _)
ReadsAll(items, seen) ==
  Len(seen) = Len(items) /\ \A i \in DOMAIN items : Reads(items[i], seen[i])
Reads(r, seen) ==
  CASE r.kind = "SimpleString" -> seen = TextReply("status", Folded(r.text))
    [] r.kind \in {"BulkString", "Verbatim", "BigNumber"} -> seen = TextReply("bulk", r.text)
    [] r.kind \in {"Error", "BulkError"} -> IsErrorOf(r.error, seen)
    [] r.kind = "Double" -> seen.type = "bulk" /\ seen.text \in Floats
    [] r.kind = "Integer" -> Int64(seen) = Read(r.int) /\ Bool(seen) = Read(r.int # 0)
    [] r.kind = "Boolean" -> Bool(seen) = Read(r.bool)
    [] r.kind = "Nil" -> seen = NilReply
    [] r.kind = "Attribute" -> IF r.items = <<>> THEN seen = NilReply ELSE Reads(r.items[1], seen)
    [] OTHER -> seen.type = "array" /\ ReadsAll(r.items, seen.items)

Behind == {<<>>, <<LF>>, Line("+", <<"O", "K">>)}

(* The caller reads the reply that was sent, and the next reply is where   *)
(* the decoder stops.  One that nests too deep is refused.                 *)
RoundTrip ==
  \A r \in Samples, rest \in Behind :
    LET got == DecodeReply(AppendReply(r) \o rest, 0)
    IN  IF Nesting(r) > MaxReplyDepth THEN got = ProtocolError
        ELSE got.is = "reply" /\ got.rest = rest /\ Reads(r, got.reply)

(* A reply that was cut off is never taken for a shorter one, nor for a    *)
(* broken one: the decoder waits.                                          *)
TornIsShort ==
  \A r \in Samples :
    Nesting(r) <= MaxReplyDepth =>
      \A n \in 0..(Len(AppendReply(r)) - 1) :
        DecodeReply(SubSeq(AppendReply(r), 1, n), 0) = Short

(* The pairs of a map are the pairs the caller looks its counters up in.   *)
MapsComeBack ==
  \A k1, k2 \in Texts, v1, v2 \in Leaves :
    LET name(k) == [kind |-> "BulkString", text |-> k]
        sent == [kind |-> "Map", items |-> <<name(k1), v1, name(k2), v2>>]
        pairs == Map(DecodeReply(AppendReply(sent), 0).reply)
    IN  k1 # k2 => /\ DOMAIN pairs[2] = {k1, k2}
                   /\ Reads(v1, pairs[2][k1]) /\ Reads(v2, pairs[2][k2])

(* Whatever arrives, in however many parts: once the decoder has decided,  *)
(* bytes that come later change nothing.                                   *)
Streams == SeqOf({"$", "*", "%", "+", "1", "-1", CR, LF}, 5)
Decided ==
  \A s \in Streams : LET got == DecodeReply(s, 0) IN
    \A b \in {CR, LF, "$"} :
      LET more == DecodeReply(Append(s, b), 0)
      IN  CASE got.is = "reply" -> more = Got(got.reply, Append(got.rest, b))
            [] got.is = "protocol" -> more = ProtocolError
            [] OTHER -> TRUE
=============================================================================
