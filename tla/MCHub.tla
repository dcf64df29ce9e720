------------------------------- MODULE MCHub -------------------------------
(* Values of Hub's constants for the model checker.                        *)
EXTENDS Hub, TLC

CONSTANTS s1, s2, s3, c1, c2, x, y, ann, bob, m1, m2, d1, d2, sig

\* Two sessions of one user, a third of another.
MCIdentOf == [s \in Sessions |-> IF s = s3 THEN bob ELSE ann]

OneUser == [s \in Sessions |-> ann]

\* Sessions of one user are interchangeable.
SessionSymmetry == Permutations(Sessions)

NoReply == [ok |-> TRUE, stopAll |-> FALSE, stopped |-> <<>>, streams |-> <<>>,
            disconnect |-> FALSE]

\* Replies that start a stream, or do nothing.
StartReplies == {NoReply, [NoReply EXCEPT !.streams = <<x>>]}

\* Replies that start a stream, fail, stop the stream and disconnect, or do nothing.
FewReplies ==
  StartReplies \cup {[NoReply EXCEPT !.ok = FALSE, !.stopped = <<x>>, !.disconnect = TRUE]}
=============================================================================
