------------------------------ MODULE Reactions ------------------------------
(***************************************************************************)
(* Reactions to a topic and to a comment in it, statement by statement.    *)
(* Who may react, and how often, is read before the transaction; the       *)
(* transaction's first statement takes the row of the target.              *)
(***************************************************************************)
EXTENDS Integers, FiniteSets

CONSTANTS
    User, Author,       \* who reacts; the authors of the topic and the comment
    Req, Nobody,
    Frequent,           \* reactions in ten minutes (5 in the code)
    MaxRequests         \* bound

VARIABLES
    reactions,      \* the JSON columns: of each target, who reacts
    log,            \* reactions_log: "none", "fresh" or "old"
    events,         \* the REACTION events of the target's author
    deleted, frozen,
    req,
    purge,          \* the deletion of the comment
    asked,          \* requests so far
    hasty,          \* history: users whose requests overlapped
    late            \* history: reactions written after their target was deleted

vars == <<reactions, log, events, deleted, frozen, req, purge, asked, hasty, late>>

Target == {"topic", "comment"}
Of(t) == Author[t]
ReactionConstants ==
    /\ Frequent \in Nat /\ MaxRequests \in Nat
    /\ Nobody \notin Target \cup User \cup {Of(t) : t \in Target}
    /\ \A t \in Target : Of(t) \notin Target
Idle == [pc |-> "idle", user |-> Nobody, target |-> "topic", set |-> TRUE, rows |-> {}]

Init ==
    /\ reactions = [t \in Target |-> {}]
    /\ log = [t \in Target |-> [u \in User |-> "none"]]
    /\ events = [t \in Target |-> [u \in User |-> "none"]]
    /\ deleted = FALSE /\ frozen = {}
    /\ req = [r \in Req |-> Idle] /\ purge = "idle" /\ asked = 0 /\ hasty = {} /\ late = {}

Goto(r, pc) == req' = [req EXCEPT ![r].pc = pc]
Done(r) == req' = [req EXCEPT ![r] = Idle]
Fresh(u) == {t \in Target : log[t][u] = "fresh"}

(***************************************************************************)
(* Rows are held until the end of the transaction.                         *)
(***************************************************************************)
Holds(r, row) == row \in req[r].rows

\* What the deletion holds, in the order of its statements.
PurgeRows == CASE purge = "idle" -> {}
               [] purge = "author" -> {"comment"}
               [] purge = "topic" -> {"comment", Of("comment")}
               [] OTHER -> {"comment", Of("comment"), "topic"}

Free(r, row) == row \notin PurgeRows /\ \A q \in Req \ {r} : ~Holds(q, row)

\* Take the row and go on.
Take(r, row, pc) ==
    /\ Free(r, row)
    /\ req' = [req EXCEPT ![r].pc = pc, ![r].rows = @ \cup {row}]

(***************************************************************************)
(* do_set_reaction                                                         *)
(***************************************************************************)

\* The target's row as check_reaction_allowed reads it.
Allowed(u, t) == Of(t) # u /\ ~(t = "comment" /\ deleted) /\ u \notin frozen

Ask(r, u, t, set) ==
    /\ req[r].pc = "idle" /\ asked < MaxRequests /\ Allowed(u, t)
    /\ asked' = asked + 1
    /\ req' = [req EXCEPT ![r] = [Idle EXCEPT !.pc = IF set THEN "count" ELSE "target",
                                              !.user = u, !.target = t, !.set = set]]
    /\ UNCHANGED <<reactions, log, events, deleted, frozen, purge, hasty, late>>

\* enReactionPolicyFailure; a reaction that is taken back is not counted.
Rarely(u) == Cardinality(Fresh(u)) < Frequent

Count(r) ==
    /\ req[r].pc = "count"
    /\ IF Rarely(req[r].user) THEN Goto(r, "target") ELSE Done(r)
    /\ UNCHANGED <<reactions, log, events, deleted, frozen, purge, asked, hasty, late>>

\* The rows that the transaction updates, in its order.
Rows(r) == <<req[r].target, "topic", Of(req[r].target)>>

\* UPDATE of the target's JSON, and the row of reactions_log.
WriteTarget(r) ==
    /\ req[r].pc = "target" /\ Take(r, Rows(r)[1], "lastmod")
    /\ UNCHANGED <<reactions, log, events, deleted, frozen, purge, asked, hasty, late>>

\* UPDATE topics SET lastmod.
WriteTopic(r) ==
    /\ req[r].pc = "lastmod" /\ Take(r, Rows(r)[2], "event")
    /\ UNCHANGED <<reactions, log, events, deleted, frozen, purge, asked, hasty, late>>

\* The event of the author, and his number of unread events.
WriteAuthor(r) ==
    /\ req[r].pc = "event" /\ Take(r, Rows(r)[3], "commit")
    /\ UNCHANGED <<reactions, log, events, deleted, frozen, purge, asked, hasty, late>>

\* Mutant: comment_id=$3 is not true of a topic, whose rows have no comment.
LoggedWithoutNull(r) == IF ~req[r].set /\ req[r].target = "topic" THEN "fresh"
                        ELSE IF req[r].set THEN "fresh" ELSE "none"

\* ON CONFLICT DO UPDATE SET set_date=now(), or DELETE.
Logged(r) == IF req[r].set THEN "fresh" ELSE "none"

\* ON CONFLICT DO NOTHING; only an unread event is taken back.
Told(r, before, told) ==
    IF req[r].set THEN IF before = "none" /\ told THEN "unread" ELSE before
    ELSE IF before = "unread" THEN "none" ELSE before

\* `told`: the author's settings and ignore list allow the event.
Commit(r, told) ==
    LET u == req[r].user  t == req[r].target IN
    /\ req[r].pc = "commit"
    /\ reactions' = [reactions EXCEPT ![t] = IF req[r].set THEN @ \cup {u} ELSE @ \ {u}]
    /\ log' = [log EXCEPT ![t][u] = Logged(r)]
    /\ events' = [events EXCEPT ![t][u] = Told(r, @, told)]
    /\ hasty' = IF \E q \in Req \ {r} : req[q].user = u /\ req[q].pc # "count"
                THEN hasty \cup {u} ELSE hasty
    /\ late' = IF ~req[r].set THEN late \ {<<t, u>>}
               ELSE IF t = "comment" /\ deleted THEN late \cup {<<t, u>>} ELSE late
    /\ Done(r)
    /\ UNCHANGED <<deleted, frozen, purge, asked>>

\* A failing statement, or the victim of a deadlock.
Abort(r) ==
    /\ req[r].pc \notin {"idle", "count"} /\ Done(r)
    /\ UNCHANGED <<reactions, log, events, deleted, frozen, purge, asked, hasty, late>>

(***************************************************************************)
(* Others                                                                  *)
(***************************************************************************)

\* The deletion of the comment: its row, its author's score, the topic's
\* counters, then the events; the events there are before its last statement.
PurgeStep(from, row, to) ==
    /\ purge = from /\ \A r \in Req : ~Holds(r, row)
    /\ purge' = to
    /\ UNCHANGED <<reactions, log, events, deleted, frozen, req, asked, hasty, late>>

PurgeCommit ==
    /\ purge = "commit"
    /\ deleted' = TRUE
    /\ events' = [events EXCEPT !["comment"] = [u \in User |-> "none"]]
    /\ purge' = "idle"
    /\ UNCHANGED <<reactions, log, frozen, req, asked, hasty, late>>

PurgeAborts ==
    /\ purge # "idle" /\ purge' = "idle"
    /\ UNCHANGED <<reactions, log, events, deleted, frozen, req, asked, hasty, late>>

\* The author reads his notifications.
ReadEvents(t) ==
    /\ \E u \in User : events[t][u] = "unread"
    /\ events' = [events EXCEPT ![t] = [u \in User |-> IF @[u] = "unread" THEN "read" ELSE @[u]]]
    /\ UNCHANGED <<reactions, log, deleted, frozen, req, purge, asked, hasty, late>>

TenMinutes ==
    /\ log' = [t \in Target |-> [u \in User |-> IF log[t][u] = "none" THEN "none" ELSE "old"]]
    /\ UNCHANGED <<reactions, events, deleted, frozen, req, purge, asked, hasty, late>>

Freeze(u) ==
    /\ frozen' = frozen \cup {u} /\ u \notin frozen
    /\ UNCHANGED <<reactions, log, events, deleted, req, purge, asked, hasty, late>>

Next ==
    \/ \E r \in Req :
        \/ \E u \in User, t \in Target, set \in BOOLEAN : Ask(r, u, t, set)
        \/ Count(r) \/ WriteTarget(r) \/ WriteTopic(r) \/ WriteAuthor(r)
        \/ \E told \in BOOLEAN : Commit(r, told)
        \/ Abort(r)
    \/ \/ ~deleted /\ PurgeStep("idle", "comment", "author")
       \/ PurgeStep("author", Of("comment"), "topic")
       \/ PurgeStep("topic", "topic", "commit")
       \/ PurgeCommit \/ PurgeAborts
    \/ \E t \in Target : ReadEvents(t)
    \/ \E u \in User : Freeze(u)
    \/ TenMinutes

Spec == Init /\ [][Next]_vars

(***************************************************************************)
(* Properties                                                              *)
(***************************************************************************)

\* Every variable keeps its type; nobody reacts to what he wrote himself.
ReactionsTypeOK ==
    /\ \A t \in Target : reactions[t] \subseteq User \ {Of(t)}
    /\ \A t \in Target, u \in User : /\ log[t][u] \in {"none", "fresh", "old"}
                                     /\ events[t][u] \in {"none", "unread", "read"}
    /\ asked \in 0..MaxRequests /\ frozen \subseteq User

\* The column that is shown and the log that is counted name the same users.
LogMatches == \A t \in Target : reactions[t] = {u \in User : log[t][u] # "none"}

\* A user sets no more reactions in ten minutes than are allowed, unless by
\* requests that were under way together.
SeldomEnough == \A u \in User : u \in hasty \/ Cardinality(Fresh(u)) <= Frequent

\* An unread event tells of a reaction that stands, to a comment that stands
\* or was deleted while the reaction was under way.
UnreadStands ==
    \A t \in Target, u \in User :
        events[t][u] = "unread" =>
            /\ u \in reactions[t]
            /\ t = "comment" /\ deleted => <<t, u>> \in late

\* The row that a statement waits for.
Needs(r) == CASE req[r].pc = "target" -> Rows(r)[1]
              [] req[r].pc = "lastmod" -> Rows(r)[2]
              [] req[r].pc = "event" -> Rows(r)[3]
              [] OTHER -> Nobody

\* Reactions never wait for each other in a circle.
NoCircle ==
    \A r \in Req, q \in Req :
        ~(r # q /\ Needs(r) \in req[q].rows /\ Needs(q) \in req[r].rows)

\* The three places that know of a reaction agree, and its writers do not block
\* each other for good.
ReactionsConsistent ==
    ReactionsTypeOK /\ LogMatches /\ SeldomEnough /\ UnreadStands /\ NoCircle
=============================================================================
