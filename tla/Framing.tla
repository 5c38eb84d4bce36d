------------------------------ MODULE Framing -------------------------------
(* What is in a connection's read buffer, seen by the two pieces of code   *)
(* that look at it: the decoder (internal/protocol/resp.go), which blocks  *)
(* when it wants more than is there, and the scanner                       *)
(* (internal/server/framing.go), which says whether it would.              *)
(*                                                                         *)
(* The buffer is a sequence of tokens.  A token is a line with its         *)
(* terminator, or a payload with the two bytes behind it; a part of one is *)
(* no token yet.                                                           *)
EXTENDS Integers, Sequences

CONSTANTS
  MaxMultiBulk,  \* limits.MaxMultiBulkLength
  MaxBulk        \* limits.MaxBulkLength

ASSUME FramingLimits == MaxMultiBulk \in Nat /\ MaxBulk \in Nat

(* kind: an empty line, a line of white space, an inline command, one      *)
(* without a byte of plain ASCII, a "*<n>" header, a "$<n>" header, a      *)
(* payload.                                                                *)
(* form: how the number of a header is written.  Both parsers read a plain *)
(* one and neither reads junk; strconv.Atoi also reads "+1" and a number   *)
(* padded with zeros past eighteen digits, which scanInt refuses.          *)
(* crlf: the line ends in CRLF and not in LF alone, or the payload is      *)
(* followed by CRLF.                                                       *)
(* name: the command an inline line or a first payload names.              *)
Token == [kind : {"blank", "spaces", "word", "exotic", "array", "bulk", "data"},
          num : Int, form : {"plain", "signed", "junk"}, crlf : BOOLEAN,
          name : STRING]

-----------------------------------------------------------------------------
(* The decoder                                                             *)

More == [need |-> TRUE, end |-> 0, name |-> ""]
Got(end, name) == [need |-> FALSE, end |-> end, name |-> name]
Error == "-"
Refused(at) == Got(at, Error)

AtoiFails(t, limit) == t.form = "junk" \/ t.num < 0 \/ t.num > limit

(* decodeBulk at position i: where it stops, and the payload it returns.   *)
DecodeBulk(buf, i) ==
  IF i > Len(buf) THEN More
  ELSE IF ~buf[i].crlf \/ buf[i].kind # "bulk" \/ AtoiFails(buf[i], MaxBulk)
    THEN Refused(i)
  ELSE IF i + 1 > Len(buf) THEN More
  ELSE IF ~buf[i + 1].crlf THEN Refused(i + 1)
  ELSE Got(i + 1, buf[i + 1].name)

(* decodeMultiBulk's loop: count elements from position i; the first one   *)
(* is the name of the command.                                             *)
DecodeElements(buf, i, count) ==
  LET after[k \in 0..count] ==
        IF k = 0 THEN Got(i - 1, "")
        ELSE LET before == after[k - 1]
                 bulk == DecodeBulk(buf, before.end + 1)
             IN  IF before.need \/ before.name = Error THEN before
                 ELSE IF bulk.need \/ bulk.name = Error \/ k = 1 THEN bulk
                 ELSE Got(bulk.end, before.name)
  IN  after[count]

(* Decode's loop, from position i: empty lines, blank ones, "*0" and a     *)
(* command without a name are skipped.                                     *)
Decode(buf) ==
  LET from[i \in 1..(Len(buf) + 1)] ==
        IF i > Len(buf) THEN More
        ELSE LET t == buf[i]
                 multi == DecodeElements(buf, i + 1, t.num)
             IN  CASE t.kind \in {"blank", "spaces"} -> from[i + 1]
                   [] t.kind = "array" ->
                        IF ~t.crlf \/ AtoiFails(t, MaxMultiBulk) THEN Refused(i)
                        ELSE IF ~multi.need /\ multi.name = "" THEN from[multi.end + 1]
                        ELSE multi
                   [] OTHER -> Got(i, t.name)
  IN  from[1]

-----------------------------------------------------------------------------
(* The scanner                                                             *)

ScanIntFails(t) == t.form # "plain" \/ t.num < 0

(* Where scanElements stops after count elements from position i, 0 when   *)
(* the buffer ends first.                                                  *)
ScanElements(buf, i, count) ==
  LET done(r) == r.stop \/ r.at = 0
      after[k \in 0..count] ==
        IF k = 0 THEN [at |-> i - 1, stop |-> FALSE]
        ELSE LET r == after[k - 1]
                 j == r.at + 1
             IN  IF done(r) THEN r
                 ELSE IF j > Len(buf) THEN [at |-> 0, stop |-> TRUE]
                 ELSE IF buf[j].kind # "bulk" \/ ScanIntFails(buf[j])
                   THEN [at |-> j, stop |-> TRUE]
                 ELSE IF j + 1 > Len(buf) THEN [at |-> 0, stop |-> TRUE]
                 ELSE [at |-> j + 1, stop |-> FALSE]
  IN  after[count].at

(* scanRequest: the length of the first complete request, 0 for none.  It  *)
(* gives up on a line that is not certain to be a command.                 *)
Uncertain(t) == t.kind \in {"spaces", "exotic"}

ScanRequest(buf) ==
  LET from[i \in 1..(Len(buf) + 1)] ==
        IF i > Len(buf) THEN 0
        ELSE LET t == buf[i] IN
             CASE Uncertain(t) -> 0
               [] t.kind = "blank" -> from[i + 1]
               [] t.kind = "array" ->
                    IF ScanIntFails(t) THEN i
                    ELSE IF t.num = 0 THEN from[i + 1]
                    ELSE ScanElements(buf, i + 1, t.num)
               [] OTHER -> i
  IN  from[1]

RequestBuffered(buf) == buf # <<>> /\ ScanRequest(buf) > 0

=============================================================================
