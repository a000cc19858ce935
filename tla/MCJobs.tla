------------------------------- MODULE MCJobs -------------------------------
(***************************************************************************)
(* Instances of Jobs.  The parts are checked one beside the other: a       *)
(* behaviour is one of the component that `part` names, and the others     *)
(* rest.                                                                   *)
(***************************************************************************)
EXTENDS Jobs, Integers

CONSTANTS score, low, fixed

VARIABLES part

MCFixed == {fixed}
MCCron == {score, low}
MCDelay == [j \in {fixed} |-> 2]
MCInstants == [j \in {score, low} |-> IF j = score THEN {1} ELSE {2, 5}]

ASSUME SchedulerAssumption == S!SchedulerConstants
ASSUME TelegramAssumption == T!TelegramConstants
ASSUME UserpicsAssumption == P!UserpicsConstants

MCInit ==
    /\ part \in {"scheduler", "telegram", "userpics"}
    /\ S!Init /\ T!Init /\ P!Init
    /\ part = "scheduler" \/ (clock = 0 /\ left[fixed] = 0)
MCNext ==
    /\ part' = part
    /\ \/ part = "scheduler" /\ S!Next /\ UNCHANGED tvars /\ UNCHANGED pvars
       \/ part = "telegram" /\ T!Next /\ UNCHANGED svars /\ UNCHANGED pvars
       \/ part = "userpics" /\ P!Next /\ UNCHANGED svars /\ UNCHANGED tvars

\* Each component's own fairness, for its own behaviours.
MCFairness ==
    /\ WF_svars(part = "scheduler" /\ S!Tick)
    /\ \A j \in Fixed \cup Cron : WF_svars(part = "scheduler" /\ S!TaskStep(j))
    /\ \A n \in Node : WF_tvars(part = "telegram" /\ (T!Lock(n) \/ T!Step(n)))
    /\ WF_pvars(part = "userpics" /\ P!JobStep)
MCSpec == MCInit /\ [][MCNext]_<<part, svars, tvars, pvars>> /\ MCFairness

\* The jobs do their work for as long as they are to, and no longer: each one
\* recurs until the shutdown, then ends; bad topics are taken down, and old
\* pictures that nobody has are removed.
JobsGoOn ==
    /\ part = "scheduler" => S!Recurs /\ S!ShutdownEnds
    /\ T!TakenDown /\ P!OldAreRemoved
=============================================================================
