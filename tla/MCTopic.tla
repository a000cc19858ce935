------------------------------ MODULE MCTopic ------------------------------
(***************************************************************************)
(* A topic of the news, which may be moved to another group or to the      *)
(* forum, and the pages of comments below it.  Topic has those who change  *)
(* it, TopicPage those who read.  A behaviour is one of the component that *)
(* `part` names, and the other rests.                                      *)
(***************************************************************************)
EXTENDS TopicAndPage, TLC

CONSTANTS news, linux, forum, boris
VARIABLES part

MCSectionOf == [g \in Group |-> IF g = forum THEN "forum" ELSE "news"]
Requests    == Permutations(Req)

\* On the pages: one comment of another author, which is answered.
MCComment   == 1 .. 3
MCReplyTo   == [c \in 1 .. 3 |-> IF c = 3 THEN 2 ELSE 0]
MCWriter    == [c \in 1 .. 3 |-> IF c = 2 THEN boris ELSE Author]
MCTrusted   == Moderator \cup {Author}
MCReader    == MCTrusted \cup {Guest}
MCMaxVisits == [r \in MCReader |-> IF r = Guest THEN 3 ELSE 1]
ASSUME Tp!PageConstants

\* The guest comes back to the first page and its copy as time passes; the
\* others want anything, once.
Visitors ==
    IF reader = Guest
    THEN visit'.kind = "page" \/ (visit'.kind = "deleted" /\ visits' = 1)
    ELSE now' = 0

\* Of the requests that change the rows two are under way at a time; what they
\* were told, or have left, the third meets before, between or after.
TwoAtATime == Cardinality({r \in Req : pc'[r] \notin {"idle", "done"}}) <= 2

MCInit ==
    /\ part \in {"rows", "pages"} /\ Init /\ Tp!Init
    /\ Cardinality(Tp!Is("deleted")) <= 1
    /\ hides => reader \in Moderator        \* to others the topic is then empty
    /\ reader = Guest => Tp!Is("none") = {3}
    /\ part = "rows" => reader = Guest /\ Tp!Is("deleted") = {}
    /\ part = "pages" => ~db.draft
pgvars == <<state, stat1, lastmod, hides, expired, reader, ignores, now, writes, late,
            visit, visits, copy>>

MCNext ==
    /\ part' = part
    /\ \/ part = "rows" /\ Next /\ TwoAtATime /\ UNCHANGED pgvars
       \/ part = "pages" /\ Tp!Next /\ Visitors /\ UNCHANGED vars
MCSpec == MCInit /\ [][MCNext]_<<part, vars, pgvars>>

\* The rows of a topic that is only edited.
EditSpec ==
    MCInit /\ part = "rows" /\ [][Edits /\ UNCHANGED <<part, pgvars>>]_<<part, vars, pgvars>>
=============================================================================
