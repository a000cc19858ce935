------------------------------ MODULE MCProcess ------------------------------
(***************************************************************************)
(* An instance of Process.  The parts are checked one beside the other: a  *)
(* behaviour is one of the component that `part` names, and the other      *)
(* rests.                                                                  *)
(***************************************************************************)
EXTENDS Process

VARIABLES part

ASSUME CounterAssumption == A!CounterConstants

MCInit == part \in {"reports", "counters"} /\ Init /\ A!Init
MCNext ==
    /\ part' = part
    /\ \/ part = "reports" /\ Next /\ UNCHANGED avars
       \/ part = "counters" /\ A!Next /\ UNCHANGED vars

\* Each component's own fairness, for its own behaviours.
ReportFairness ==
    /\ WF_vars(part = "reports" /\ Top) /\ WF_vars(part = "reports" /\ Fold)
    /\ WF_vars(part = "reports" /\ Receive) /\ WF_vars(part = "reports" /\ Mailed)
    /\ WF_vars(part = "reports" /\ TickReady) /\ WF_vars(part = "reports" /\ Tick)
CounterFairness ==
    /\ \A n \in Server :
         /\ WF_avars(part = "counters" /\ A!Take(n)) /\ WF_avars(part = "counters" /\ A!Commit(n))
         /\ WF_avars(part = "counters" /\ \E applied \in BOOLEAN : A!Exit(n, applied))
         /\ \A p \in Path : SF_avars(part = "counters" /\ A!Upsert(n, p))
    /\ WF_avars(part = "counters" /\ \E n \in Server : A!Deadlocked(n))
MCSpec == MCInit /\ [][MCNext]_<<part, vars, avars>> /\ ReportFairness /\ CounterFairness

\* Both tasks catch up: what the mailer skipped is told in a later summary, and
\* what was counted in memory gets into the table.
TasksCatchUp == SkippedAreSummarized /\ (part = "counters" => A!CountsArePersisted)
=============================================================================
