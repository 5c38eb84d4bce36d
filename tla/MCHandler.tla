----------------------------- MODULE MCHandler ------------------------------
(* Instances of Handler for TLC: a handful of requests, among them those a *)
(* decoder skips and those its scanner misreads, and batches of two        *)
(* commands.                                                               *)
EXTENDS Handler

Line(kind, num, form, name) ==
  [kind |-> kind, num |-> num, form |-> form, crlf |-> TRUE, name |-> name]
Word(name) == <<Line("word", 0, "plain", name)>>
Frame(form, name) ==
  <<Line("array", 1, form, ""), Line("bulk", 1, "plain", ""), Line("data", 1, "plain", name)>>

Plain == {Word("PING"), Word("QUIT"), Word("AUTH"), Frame("plain", "GET"),
          <<Line("blank", 0, "plain", "")>>, <<Line("spaces", 0, "plain", "")>>,
          <<Line("array", 0, "plain", "")>>, <<Line("array", 0, "junk", "")>>}
Odd == {Word("PING"), Frame("plain", "GET"), Frame("signed", "GET"), Frame("plain", "")}
Kinds == Plain \union Odd

TwoConfigs == {[on |-> TRUE, token |-> "t1"], [on |-> FALSE, token |-> "t1"]}
=============================================================================
