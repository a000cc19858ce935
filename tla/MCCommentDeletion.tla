------------------------- MODULE MCCommentDeletion -------------------------
(* A small topic: a comment, its reply and the reply's reply. *)
EXTENDS CommentDeletion, TLC

CONSTANTS c1, c2, c3, alice, boris, mod

MCReplyTo == [c \in Comment |-> IF c = c1 THEN Root ELSE IF c = c2 THEN c1 ELSE c2]
MCAuthor  == [c \in Comment |-> IF c = c2 THEN boris ELSE alice]
Handlers  == Permutations(Handler)

\* Three requests overlap in any way; the last begins beside one other at most.
LastFollows ==
    started' = MaxRequests /\ started # MaxRequests
    => Cardinality({h \in Handler : req[h].phase # "idle"}) <= 1

MCSpec == Init /\ [][Next /\ LastFollows]_vars
=============================================================================
