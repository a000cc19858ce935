------------------------------- MODULE MCTopics -------------------------------
(***************************************************************************)
(* Lists, Posting, Polls, Tags and UnreadEvents.  Requests of one kind     *)
(* race with each other, each component is checked by itself: a behaviour  *)
(* is one of the component that `part` names, and the others rest.         *)
(***************************************************************************)
EXTENDS AroundTopics, TLC

CONSTANTS office, home, ann, bob
VARIABLES part

ASSUME Ps!PostingConstants
ASSUME Po!PollConstants
ASSUME Ta!TagConstants
ASSUME Un!UnreadConstants

\* Addresses matter to one component and readers to another: they are exchanged together.
Exchanged == office :> home @@ home :> office @@ ann :> bob @@ bob :> ann
Symmetric == Permutations(Req) \cup Permutations(Sections) \cup {Exchanged}

\* On the lists: one group in each of three sections, and everyone who may be
\* told from the others by a query.
MCSectionOf == [linux |-> "articles", shots |-> "gallery", talks |-> "forum"]
MCScroll    == [articles |-> "SECTION", gallery |-> "SECTION", forum |-> "GROUP"]
MCExpire    == [articles |-> 1, gallery |-> 1, forum |-> 2]
MCViewer ==
    LET u == [auth |-> TRUE, author |-> FALSE, moderator |-> FALSE, corrector |-> FALSE,
              score |-> 0, restricted |-> FALSE, ignores |-> FALSE]
    IN  {u, [u EXCEPT !.auth = FALSE], [u EXCEPT !.author = TRUE],
         [u EXCEPT !.moderator = TRUE], [u EXCEPT !.moderator = TRUE, !.ignores = TRUE],
         [u EXCEPT !.author = TRUE, !.moderator = TRUE],
         [u EXCEPT !.corrector = TRUE, !.ignores = TRUE], [u EXCEPT !.score = 60],
         [u EXCEPT !.score = 250], [u EXCEPT !.score = 250, !.ignores = TRUE],
         [u EXCEPT !.score = 250, !.restricted = TRUE]}

\* The caches of topics and of comments know nothing of each other.  A behaviour
\* asks that of comments, or that of topics from one address: two topics of one
\* author meet at the limit, whatever their addresses and without the slow mode.
OneCache ==
    LET waiting == {r \in Req : req'[r].pc \in {"stamp", "gate"}}
        used == {g \in Ps!Gate : passed'[g] # Ps!NoPassage}
                \cup {<<req'[r].kind, req'[r].from>> : r \in waiting}
    IN  \/ \A g \in used : g[1] = "AddComment"
        \/ Cardinality(used) <= 1 /\ \A r \in waiting : req'[r].wait = Short

\* A topic that is excepted from the limit stays so: when both are, nothing is left to see.
OneExcepted == Cardinality(excess') <= 1

\* Two requests about tags, and a third while another tag has the name of a rename
\* whose first statement has gone by.
TwoOrHeldUp ==
    retags' <= 2 \/ retags' = retags
        \/ \E r \in Req : retag[r].pc = "cleared" /\ Ta!Canonical(retag[r].name) # {}

\* The last request begins alone, as those do of which StepsHold speaks, after any
\* two have overlapped.  Nobody needs another page of his events after it.
LastIsAlone ==
    /\ started' = MaxRequests /\ started # MaxRequests => \A h \in Req : Un!Idle(h)
    /\ started = MaxRequests => shown' = shown

MCInit ==
    /\ part \in {"lists", "posting", "polls", "tags", "events"}
    /\ Init /\ Ps!Init /\ Po!Init /\ Ta!Init /\ Un!Init
    /\ part = "lists" \/ (t.group = "linux" /\ ~t.draft)
    /\ \E r \in Req : voter[r] = CHOOSE u \in User : TRUE     \* the users are alike
    /\ part = "polls" \/ (~multiselect /\ voter = [r \in Req |-> CHOOSE u \in User : TRUE])
    /\ part = "tags" \/ (synonym[Free] = 0 /\ tagged = {<<First, 1>>})
MCNext ==
    /\ part' = part
    /\ \/ part = "lists" /\ Next
       \/ part = "posting" /\ Ps!Next /\ OneCache /\ OneExcepted
       \/ part = "polls" /\ Po!Next
       \/ part = "tags" /\ Ta!Next /\ TwoOrHeldUp
       \/ part = "events" /\ Un!Next /\ LastIsAlone
    /\ part # "lists" => UNCHANGED listvars
    /\ part # "posting" => UNCHANGED psvars
    /\ part # "polls" => UNCHANGED povars
    /\ part # "tags" => UNCHANGED tavars
    /\ part # "events" => UNCHANGED unvars
MCSpec == MCInit /\ [][MCNext]_<<part, listvars, psvars, povars, tavars, unvars>>
=============================================================================
