------------------------------- MODULE MCPool -------------------------------
(* Instances of Pool for TLC: more callers than connections.               *)
EXTENDS Pool

CONSTANTS p1, p2, c1, c2

DelAndGet == {<<p1, "Del">>, <<p2, "Get">>}
Symmetry == Permutations(Conns)
ExpireOnly == {<<p1, "ExpireNow">>}

(* What comes back on a connection: the server's encoder against the       *)
(* client's decoder.                                                       *)
Wire == INSTANCE MCReplies
          WITH MaxReplyDepth <- 2, MaxBulkLength <- 5, MaxAggregate <- 4, Depth <- 3

ASSUME RepliesRoundTrip == Wire!RoundTrip /\ Wire!MapsComeBack
ASSUME RepliesAreFramed == Wire!TornIsShort /\ Wire!Decided

=============================================================================
