--------------------------- MODULE MCSearchQueue ---------------------------
(* The instances of SearchQueue that TLC checks: one topic, and comments on it. *)
EXTENDS SearchQueue

MCParent == [c \in Comment |-> CHOOSE t \in Topic : TRUE]
=============================================================================
