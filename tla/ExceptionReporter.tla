------------------------- MODULE ExceptionReporter --------------------------
(***************************************************************************)
(* Crash reports to the administrator: requests put them in a bounded      *)
(* queue and never wait, an actor mails them one by one under a rate limit *)
(* and sums up at the end of each window what it did not mail, with the    *)
(* number of reports the full queue refused.                               *)
(***************************************************************************)
EXTENDS Naturals, Sequences

CONSTANTS
    Reporter,      \* the threads that report
    Type,          \* the types of errors
    Capacity,      \* I_REPORT_QUEUE_CAPACITY
    MaxMessages,   \* I_MAX_MESSAGES
    MaxReports     \* bound: reports made

ASSUME LimitAssumption ==
    /\ MaxMessages \in Nat \ {0} /\ Capacity \in Nat /\ Capacity >= MaxMessages
    /\ MaxReports \in Nat

VARIABLES
    queue,      \* types of the accepted reports, oldest first
    refused,    \* per reporter: "none", "now" or "earlier" - it was refused in
                \* this window or in an earlier one and has not counted it yet
    pending,    \* iDroppedPending
    actor,      \* "top" of its loop, "fold", "select", "tick", "mail"
    rate,       \* stRate
    skipped,    \* types skipped since the last summary
    stale,      \* some drop was counted in a later window than it happened in
    made        \* reports made

vars == <<queue, refused, pending, actor, rate, skipped, stale, made>>

Window    == [count : Nat, dropped : Nat, types : SUBSET Type]
NewWindow == [count |-> 0, dropped |-> 0, types |-> {}]

Init ==
    /\ queue = <<>> /\ refused = [r \in Reporter |-> "none"] /\ pending = 0
    /\ actor = "top" /\ rate = NewWindow /\ skipped = {}
    /\ stale = FALSE /\ made = 0

-----------------------------------------------------------------------------
(* vReport: try_send, and the count of what was refused as a step of its own *)

Report(r, type) ==
    /\ refused[r] = "none" /\ made < MaxReports
    /\ made' = made + 1
    /\ IF Len(queue) < Capacity
       THEN queue' = Append(queue, type) /\ UNCHANGED refused
       ELSE refused' = [refused EXCEPT ![r] = "now"] /\ UNCHANGED queue
    /\ UNCHANGED <<pending, actor, rate, skipped, stale>>

CountRefused(r) ==
    /\ refused[r] # "none"
    /\ pending' = pending + 1
    /\ stale' = (stale \/ refused[r] = "earlier")
    /\ refused' = [refused EXCEPT ![r] = "none"]
    /\ UNCHANGED <<queue, actor, rate, skipped, made>>

-----------------------------------------------------------------------------
(* vRunReporter *)

\* Mutant: the drops are reported and do not count.
WithUncounted == [rate EXCEPT !.dropped = @ + pending]
\* vRecordDropped
WithDropped == [count |-> rate.count + pending, dropped |-> rate.dropped + pending,
                types |-> rate.types]

\* The queue is found empty, and then what was refused is folded in the window.
Top ==
    /\ actor = "top"
    /\ actor' = IF queue = <<>> THEN "fold" ELSE "select"
    /\ UNCHANGED <<queue, refused, pending, rate, skipped, stale, made>>

Fold ==
    /\ actor = "fold"
    /\ actor' = "select"
    /\ rate' = WithDropped /\ pending' = 0
    /\ UNCHANGED <<queue, refused, skipped, stale, made>>

\* Mutant: only a report of a new type counts.
CountNewType(type) ==
    [rate EXCEPT !.count = IF type \in rate.types THEN @ ELSE @ + 1, !.types = @ \cup {type}]
\* bShouldSend
CountReport(type) == [count |-> rate.count + 1, dropped |-> rate.dropped,
                      types |-> rate.types \cup {type}]

\* The select is biased: a report goes first.
Receive ==
    /\ actor = "select" /\ queue # <<>>
    /\ LET type == Head(queue)
           send == CountReport(type).count < MaxMessages \/ type \notin rate.types
       IN  /\ rate' = CountReport(type)
           /\ IF send THEN actor' = "mail" /\ UNCHANGED skipped
              ELSE actor' = "top" /\ skipped' = skipped \cup {type}
    /\ queue' = Tail(queue)
    /\ UNCHANGED <<refused, pending, stale, made>>

\* The mail is sent, or its failure is logged.
Mailed ==
    /\ actor = "mail"
    /\ actor' = "top"
    /\ UNCHANGED <<queue, refused, pending, rate, skipped, stale, made>>

\* No report is there and the five minutes are over; what arrives from here on
\* comes too late for the select.
TickReady ==
    /\ actor = "select" /\ queue = <<>>
    /\ actor' = "tick"
    /\ UNCHANGED <<queue, refused, pending, rate, skipped, stale, made>>

Excessive(window) == window.count >= MaxMessages

\* optResetSummary, after the swap of the pending drops.
Tick ==
    /\ actor = "tick"
    /\ pending' = 0
    /\ IF Excessive(WithDropped) THEN actor' = "mail" /\ skipped' = {}
       ELSE actor' = "top" /\ UNCHANGED skipped
    /\ rate' = NewWindow /\ stale' = FALSE
    /\ refused' = [r \in Reporter |-> IF refused[r] = "now" THEN "earlier" ELSE refused[r]]
    /\ UNCHANGED <<queue, made>>

Next ==
    \/ \E r \in Reporter : CountRefused(r) \/ \E type \in Type : Report(r, type)
    \/ Top \/ Fold \/ Receive \/ Mailed \/ TickReady \/ Tick

\* The actor runs, its mails end, and its timer fires: with the biased select
\* only when no report is there.
Fairness == WF_vars(Top) /\ WF_vars(Fold) /\ WF_vars(Receive) /\ WF_vars(Mailed) /\ WF_vars(TickReady)
            /\ WF_vars(Tick)
Spec == Init /\ [][Next]_vars
FairSpec == Spec /\ Fairness

-----------------------------------------------------------------------------
(* Properties *)

\* The type invariant; a window has seen the types it has counted.
TypeOK ==
    /\ queue \in Seq(Type) /\ Len(queue) <= Capacity
    /\ refused \in [Reporter -> {"none", "now", "earlier"}] /\ pending \in Nat
    /\ actor \in {"top", "fold", "select", "tick", "mail"}
    /\ rate \in Window
    /\ skipped \subseteq Type /\ stale \in BOOLEAN /\ made \in Nat
    /\ rate.dropped <= rate.count /\ (rate.types # {} => rate.count > rate.dropped)

\* "Reports are being aggregated": the window that ends with a drop is summed up,
\* with its drops, when those were counted in the window they happened in and the
\* queue is empty: what the queue held when it was full has been counted too.
DropsAreSummarized ==
    [][Tick /\ WithDropped.dropped > 0 /\ ~stale /\ queue = <<>>
         => WithDropped.count >= MaxMessages /\ actor' = "mail"]_vars

\* A report that the rate limit skipped is in the next summary.
SkippedAreSummarized == \A type \in Type : type \in skipped ~> type \notin skipped
=============================================================================
