---------------------------- MODULE MCRealtimeHub ----------------------------
(* Two sockets, one of a user who ignores the author of the last comment. *)
EXTENDS RealtimeHub

CONSTANTS s1, s2, topic, ann

MCTopicOf  == [c \in Comment |-> topic]
MCNotified == [c \in Comment |-> IF c = 1 THEN {ann} ELSE {}]
MCUserOf   == [s \in Session |-> IF s = s1 THEN ann ELSE Anonymous]
MCIgnored  == {<<ann, LastId>>}
=============================================================================
