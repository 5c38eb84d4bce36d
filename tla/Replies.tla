------------------------------- MODULE Replies ------------------------------
(* A reply on its way from a handler to a caller: the server's RESP2       *)
(* encoder (internal/protocol/encode_resp2.go, reply.go), the client's     *)
(* decoder, which was written apart from it (pkg/client/resp.go), and the  *)
(* helpers a caller reads a reply with (pkg/client/reply.go).              *)
(*                                                                         *)
(* The wire is a sequence of tokens: a byte, or a number in decimal, which *)
(* is one token whatever its length.                                       *)
EXTENDS Integers, SequencesExt

CONSTANTS
  MaxReplyDepth,  \* maxReplyDepth
  MaxBulkLength,  \* maxBulkLength
  MaxAggregate    \* maxAggregate

CR == "\r"
LF == "\n"
CRLF == <<CR, LF>>
Space == " "

(* The numbers of an instance, and how strconv writes and reads them: the  *)
(* largest is past both limits.                                            *)
Numbers == -1..(2 * MaxAggregate + MaxBulkLength + 1)
Digits(n) == <<ToString(n)>>
IsNumber(text) == \E n \in Numbers : text = Digits(n)
ParseInt(text) == CHOOSE n \in Numbers : text = Digits(n)

-----------------------------------------------------------------------------
(* The encoder                                                             *)

Line(prefix, text) == <<prefix>> \o text \o CRLF
AppendBulk(payload) == Line("$", Digits(Len(payload))) \o payload \o CRLF
ArrayHeader(n) == Line("*", Digits(n))

(* appendSingleLine                                                        *)
SingleLine(text) == [i \in DOMAIN text |-> IF text[i] \in {CR, LF} THEN Space ELSE text[i]]

ErrorText(e) == IF e.kind = <<>> THEN e.text ELSE e.kind \o <<Space>> \o e.text

FormatDouble(f) == CASE f = "+Inf" -> <<"inf">> [] f = "-Inf" -> <<"-inf">>
                     [] f = "NaN" -> <<"nan">> [] OTHER -> <<f>>

AppendScalar(r) ==
  CASE r.kind = "SimpleString" -> Line("+", SingleLine(r.text))
    [] r.kind \in {"Error", "BulkError"} -> Line("-", SingleLine(ErrorText(r.error)))
    [] r.kind \in {"BulkString", "Verbatim", "BigNumber"} -> AppendBulk(r.text)
    [] r.kind = "Double" -> AppendBulk(FormatDouble(r.float))
    [] r.kind = "Integer" -> Line(":", Digits(r.int))
    [] r.kind = "Boolean" -> Line(":", Digits(IF r.bool THEN 1 ELSE 0))
    [] r.kind = "Nil" -> Line("$", Digits(-1))

(* A Map's items are its pairs, key before value; an Attribute's are none, *)
(* or its value.                                                           *)
RECURSIVE AppendReply(_)
AppendItems(items) == FlattenSeq([i \in DOMAIN items |-> AppendReply(items[i])])
AppendReply(r) ==
  CASE r.kind \in {"Array", "Set", "Push"} -> ArrayHeader(Len(r.items)) \o AppendItems(r.items)
    [] r.kind = "Map" -> ArrayHeader(Len(r.items)) \o AppendItems(r.items)
    [] r.kind = "Attribute" ->
         IF r.items = <<>> THEN AppendReply([kind |-> "Nil"]) ELSE AppendReply(r.items[1])
    [] OTHER -> AppendScalar(r)

-----------------------------------------------------------------------------
(* The decoder                                                             *)

(* What decoding comes to: a reply and the bytes behind it; bytes that are *)
(* no reply, after which the connection is discarded; or a wait for more,  *)
(* which the end of the stream turns into an error of the connection.      *)
Got(reply, rest) == [is |-> "reply", reply |-> reply, rest |-> rest]
ProtocolError == [is |-> "protocol"]
Short == [is |-> "short"]

(* readLine: the line that ends at the first LF of s.                      *)
FirstLF(s) == SelectInSeq(s, LAMBDA b : b = LF)
HasCRLF(s) == FirstLF(s) > 1 /\ s[FirstLF(s) - 1] = CR
LineOf(s) == SubSeq(s, 1, FirstLF(s) - 2)
AfterLine(s) == SubSeq(s, FirstLF(s) + 1, Len(s))

ErrorReply(line) ==
  LET space == SelectInSeq(line, LAMBDA b : b = Space)
  IN  [type |-> "error", text |-> line,
       kind |-> IF space = 0 THEN line ELSE SubSeq(line, 1, space - 1)]

TextReply(type, text) == [type |-> type, text |-> text]
IntReply(type, n) == [type |-> type, int |-> n]
NilReply == [type |-> "nil"]

Floats == {<<"inf">>, <<"-inf">>, <<"nan">>} \union {Digits(n) : n \in Numbers}

DecodeScalar(prefix, line, rest) ==
  CASE prefix = "+" -> Got(TextReply("status", line), rest)
    [] prefix = "-" -> Got(ErrorReply(line), rest)
    [] prefix = ":" /\ IsNumber(line) -> Got(IntReply("integer", ParseInt(line)), rest)
    [] prefix = "_" /\ line = <<>> -> Got(NilReply, rest)
    [] prefix = "#" /\ line = <<"t">> -> Got(IntReply("bool", 1), rest)
    [] prefix = "#" /\ line = <<"f">> -> Got(IntReply("bool", 0), rest)
    [] prefix = "," /\ line \in Floats -> Got(TextReply("double", line), rest)
    [] prefix = "(" -> Got(TextReply("bignum", line), rest)
    [] OTHER -> ProtocolError

(* decodeBulk: n bytes and their CRLF, a verbatim string without the four  *)
(* bytes of its format.                                                    *)
DecodeBulk(line, s, verbatim) ==
  IF ~IsNumber(line) THEN ProtocolError
  ELSE LET n == ParseInt(line)
           payload == SubSeq(s, 1, n)
       IN  CASE n < 0 -> Got(NilReply, s)
             [] n > MaxBulkLength -> ProtocolError
             [] n \in 0..MaxBulkLength /\ Len(s) < n + 2 -> Short
             [] n \in 0..MaxBulkLength /\ Len(s) >= n + 2 ->
                  IF SubSeq(s, n + 1, n + 2) # CRLF THEN ProtocolError
                  ELSE IF ~verbatim THEN Got(TextReply("bulk", payload), SubSeq(s, n + 3, Len(s)))
                  ELSE IF n < 4 \/ payload[4] # ":" THEN ProtocolError
                  ELSE Got(TextReply("bulk", SubSeq(payload, 5, n)), SubSeq(s, n + 3, Len(s)))

AsError(got) ==
  IF got.is = "reply" THEN Got(ErrorReply(IF got.reply = NilReply THEN <<>> ELSE got.reply.text), got.rest)
  ELSE got

RECURSIVE DecodeReply(_, _), DecodeItems(_, _, _)

(* decodeItems: n replies in a row.                                        *)
DecodeItems(n, s, depth) ==
  IF n = 0 THEN Got(<<>>, s)
  ELSE LET before == DecodeItems(n - 1, s, depth)
           item == DecodeReply(before.rest, depth + 1)
       IN  IF before.is # "reply" THEN before
           ELSE IF item.is # "reply" THEN item
           ELSE Got(Append(before.reply, item.reply), item.rest)

(* decodeAggregate, and decodeMap, whose header counts pairs.              *)
DecodeAggregate(line, s, depth, type, per) ==
  IF ~IsNumber(line) \/ ParseInt(line) > MaxAggregate THEN ProtocolError
  ELSE IF ParseInt(line) < 0 THEN Got(NilReply, s)
  ELSE LET items == DecodeItems(per * ParseInt(line), s, depth)
       IN  IF items.is # "reply" THEN items
           ELSE Got([type |-> type, items |-> items.reply], items.rest)

DecodeReply(s, depth) ==
  IF depth > MaxReplyDepth THEN ProtocolError
  ELSE IF s = <<>> \/ FirstLF(Tail(s)) = 0 THEN Short
  ELSE IF ~HasCRLF(Tail(s)) THEN ProtocolError
  ELSE LET prefix == Head(s)
           line == LineOf(Tail(s))
           rest == AfterLine(Tail(s))
       IN  CASE prefix = "$" -> DecodeBulk(line, rest, FALSE)
             [] prefix = "=" -> DecodeBulk(line, rest, TRUE)
             [] prefix = "!" -> AsError(DecodeBulk(line, rest, FALSE))
             [] prefix \in {"*", "~"} -> DecodeAggregate(line, rest, depth, "array", 1)
             [] prefix = ">" -> DecodeAggregate(line, rest, depth, "push", 1)
             [] prefix = "%" -> DecodeAggregate(line, rest, depth, "map", 2)
             [] OTHER -> DecodeScalar(prefix, line, rest)

-----------------------------------------------------------------------------
(* The helpers a caller reads a reply with; Mismatch is the error of one   *)
(* that cannot read this shape.                                            *)

Mismatch == "mismatch"
Read(value) == <<"read", value>>

Bytes(r) ==
  CASE r.type = "nil" -> Read(<<>>)
    [] r.type \in {"bulk", "status", "bignum", "double"} -> Read(r.text)
    [] r.type \in {"integer", "bool"} -> Read(Digits(r.int))
    [] OTHER -> Mismatch

Int64(r) ==
  CASE r.type \in {"integer", "bool"} -> Read(r.int)
    [] r.type \in {"bulk", "status", "bignum"} ->
         IF IsNumber(r.text) THEN Read(ParseInt(r.text)) ELSE Mismatch
    [] OTHER -> Mismatch

Bool(r) ==
  CASE r.type \in {"integer", "bool"} -> Read(r.int # 0)
    [] r.type = "nil" -> Read(FALSE)
    [] r.type = "status" -> Read(r.text = <<"OK">>)
    [] OTHER -> Mismatch

Slice(r) ==
  CASE r.type \in {"array", "map"} -> Read(r.items)
    [] r.type = "nil" -> Read(<<>>)
    [] OTHER -> Mismatch

(* Map: of two equal keys the later one wins.                              *)
Map(r) ==
  LET items == Slice(r)[2]
      key(i) == Bytes(items[i])
      odds == {i \in DOMAIN items : i % 2 = 1}
  IN  IF Slice(r) = Mismatch \/ Len(items) % 2 # 0 \/ \E i \in odds : key(i) = Mismatch
        THEN Mismatch
      ELSE Read([k \in {key(i)[2] : i \in odds} |->
                   LET last == CHOOSE i \in odds :
                         key(i)[2] = k /\ \A j \in odds : key(j)[2] = k => j <= i
                   IN  items[last + 1]])

=============================================================================
