---------------------------- MODULE DurableSpool ----------------------------
(***************************************************************************)
(* What the search queue promises its callers: a reindex job that was      *)
(* published stays in the spool until it has been carried out completely   *)
(* at least once after its publication, or until it is set aside as        *)
(* unreadable.  It may be carried out more than once and in any order, and *)
(* it is never carried out before it was published.                        *)
(***************************************************************************)
VARIABLES
    spool,     \* published jobs that still have a file to be worked on
    served,    \* jobs carried out completely at least once
    setAside   \* jobs whose file could not be read

vars == <<spool, served, setAside>>

Init == spool = {} /\ served = {} /\ setAside = {}

Publish(j) ==
    /\ j \notin spool \cup served \cup setAside
    /\ spool' = spool \cup {j}
    /\ UNCHANGED <<served, setAside>>

\* A job that one worker sets aside may still be in another worker's hands.
Serve(j) ==
    /\ j \in spool \cup setAside
    /\ served' = served \cup {j}
    /\ UNCHANGED <<spool, setAside>>

Retire(j) ==
    /\ j \in spool \cap served
    /\ spool' = spool \ {j}
    /\ UNCHANGED <<served, setAside>>

SetAside(j) ==
    /\ j \in spool
    /\ spool' = spool \ {j}
    /\ setAside' = setAside \cup {j}
    /\ UNCHANGED served

\* A new job is one that the spool holds after the step.
Next ==
    \/ \E j \in spool' : Publish(j)
    \/ \E j \in spool \cup setAside : Serve(j) \/ Retire(j) \/ SetAside(j)

Spec == Init /\ [][Next]_vars
=============================================================================
