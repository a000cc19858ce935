-------------------------------- MODULE Purge --------------------------------
(***************************************************************************)
(* Deleting everything of one user, or of one address, while comments are  *)
(* posted: the culprit's, and the replies of others.  Rows are locked in   *)
(* different orders: a purge takes the topics, then the comments and then  *)
(* again topics; a comment shares the row of its parent and then takes the *)
(* row of its topic, whose counter a trigger raises.  PostgreSQL aborts    *)
(* one of those who wait in a circle.                                      *)
(***************************************************************************)
EXTENDS Integers, FiniteSets, FiniteSetsExt

CONSTANTS
    Topic, Own,     \* the topics, and those of the culprit
    Poster, Mod,    \* tasks that serve requests to post, and to purge
    MaxComments,    \* bound: comments ever written
    MaxPurges       \* bound: purges ever begun

PurgeConstants == Own \subseteq Topic /\ Topic # {} /\ MaxComments \in Nat

VARIABLES
    comments,   \* committed rows
    topics,     \* committed rows
    drawn,      \* s_msgid
    banned,     \* who is: the user, the address
    post,       \* the request of each poster
    purge,      \* the request of each moderator
    purges,     \* purges begun
    spared,     \* history: comments that a purge left for their replies
    closed,     \* history: the ban of the address was asked for, or the user's committed
    purged      \* history: a purge has committed

vars == <<comments, topics, drawn, banned, post, purge, purges,
          spared, closed, purged>>

Id == 1..MaxComments
NoComment == [state |-> "none", topic |-> CHOOSE t \in Topic : TRUE, parent |-> 0,
              own |-> FALSE, late |-> FALSE]
NoPost == [pc |-> "idle", own |-> FALSE, topic |-> CHOOSE t \in Topic : TRUE,
           parent |-> 0, prior |-> FALSE, id |-> 0]
NoPurge == [pc |-> "idle", kind |-> "user", work |-> {}, rows |-> {}, takes |-> {},
            gone |-> {}, shut |-> {}, down |-> [t \in Topic |-> 0]]

Live == {c \in Id : comments[c].state = "live"}
Init ==
    /\ comments = [c \in Id |-> NoComment] /\ drawn = 0
    /\ topics = [t \in Topic |-> [deleted |-> FALSE, stat1 |-> 0]]
    /\ banned = {}
    /\ post = [p \in Poster |-> NoPost] /\ purge = [m \in Mod |-> NoPurge] /\ purges = 0
    /\ spared = {} /\ closed = FALSE /\ purged = FALSE

(***************************************************************************)
(* Row locks: `takes` are topics and `rows` comments that a purge holds.   *)
(***************************************************************************)
Shares(c) == {p \in Poster : post[p].pc \in {"insert", "commit"} /\ post[p].parent = c}
TopicHeld(t) == \/ \E p \in Poster : post[p].pc = "commit" /\ post[p].topic = t
                \/ \E m \in Mod : t \in purge[m].takes
RowHeld(c) == \E m \in Mod : c \in purge[m].rows

(***************************************************************************)
(* add_comment, add_comment_ajax and insert_comment                        *)
(***************************************************************************)
\* optCommentActorError and check_comment_posting_context.
Allowed(own, t) == ~topics[t].deleted /\ (own => banned = {})

\* optCommentReplyError.
Answerable(t, c) == c # 0 => comments[c].state = "live" /\ comments[c].topic = t

\* What is read before the transaction.
Check(p, own, t, c) ==
    /\ post[p].pc = "idle"
    /\ Allowed(own, t) /\ Answerable(t, c)
    /\ post' = [post EXCEPT ![p] = [pc |-> IF c = 0 THEN "insert" ELSE "parent", own |-> own,
                                    topic |-> t, parent |-> c, prior |-> ~closed, id |-> 0]]
    /\ UNCHANGED <<comments, topics, drawn, banned, purge, purges, spared, closed, purged>>

\* Mutant: the parent is read without FOR SHARE.
ShareNothing(p) ==
    LET c == post[p].parent IN
    /\ post[p].pc = "parent"
    /\ post' = [post EXCEPT ![p] = IF comments[c].state = "live" THEN [@ EXCEPT !.pc = "insert"]
                                   ELSE NoPost]
    /\ UNCHANGED <<comments, topics, drawn, banned, purge, purges, spared, closed, purged>>

\* SELECT ... FOR SHARE waits for a purge and then finds what it committed.
ShareParent(p) ==
    LET c == post[p].parent IN
    /\ post[p].pc = "parent" /\ ~RowHeld(c)
    /\ post' = [post EXCEPT ![p] = IF comments[c].state = "live" THEN [@ EXCEPT !.pc = "insert"]
                                   ELSE NoPost]
    /\ UNCHANGED <<comments, topics, drawn, banned, purge, purges, spared, closed, purged>>

\* The foreign key and the trigger need the row of the topic, deleted or not.
Insert(p) ==
    /\ post[p].pc = "insert" /\ ~TopicHeld(post[p].topic) /\ drawn < MaxComments
    /\ drawn' = drawn + 1
    /\ post' = [post EXCEPT ![p].id = drawn + 1, ![p].pc = "commit"]
    /\ UNCHANGED <<comments, topics, banned, purge, purges, spared, closed, purged>>

CommitPost(p) ==
    LET r == post[p] IN
    /\ r.pc = "commit"
    /\ comments' = [comments EXCEPT ![r.id] =
           [state |-> "live", topic |-> r.topic, parent |-> r.parent, own |-> r.own,
            late |-> IF ~closed THEN \E m \in Mod : purge[m].pc \in {"lock", "delete"}
                     ELSE r.prior]]
    /\ topics' = [topics EXCEPT ![r.topic].stat1 = @ + 1]
    /\ post' = [post EXCEPT ![p] = NoPost]
    /\ UNCHANGED <<drawn, banned, purge, purges, spared, closed, purged>>

AbortPost(p) ==
    /\ post[p].pc \in {"parent", "insert", "commit"}
    /\ post' = [post EXCEPT ![p] = NoPost]
    /\ UNCHANGED <<comments, topics, drawn, banned, purge, purges, spared, closed, purged>>

(***************************************************************************)
(* stExecute and stDeleteByIp; vBlock and stMassDelete                     *)
(***************************************************************************)
\* vBlock holds the row of the user to the end, and a second row of ban_info
\* breaks its key: a user who is blocked, or is being blocked, is not purged.
MayBlock ==
    /\ "user" \notin banned
    /\ \A m \in Mod : purge[m].kind = "user" => purge[m].pc = "idle"

\* The ban of an address is a transaction of its own and comes first; that of
\* a user comes with the deletion.
Start(m, kind) ==
    /\ purge[m].pc = "idle" /\ purges < MaxPurges
    /\ kind = "user" => MayBlock
    /\ purges' = purges + 1
    /\ IF kind = "address" THEN banned' = banned \cup {kind} /\ closed' = TRUE
       ELSE UNCHANGED <<banned, closed>>
    /\ purge' = [purge EXCEPT ![m] = [NoPurge EXCEPT !.pc = "topics", !.kind = kind]]
    /\ UNCHANGED <<comments, topics, drawn, post, spared, purged>>

\* SELECT id FROM topics ... FOR UPDATE.
LockTopics(m) ==
    LET mine == {t \in Own : ~topics[t].deleted} IN
    /\ purge[m].pc = "topics" /\ \A t \in mine : ~TopicHeld(t)
    /\ purge' = [purge EXCEPT ![m].takes = mine, ![m].shut = mine, ![m].pc = "comments"]
    /\ UNCHANGED <<comments, topics, drawn, banned, post, purges, spared, closed, purged>>

\* SELECT id FROM comments ... ORDER BY id DESC FOR UPDATE: the candidates ...
FindComments(m) ==
    /\ purge[m].pc = "comments"
    /\ purge' = [purge EXCEPT ![m].work = {c \in Live : comments[c].own}, ![m].pc = "lock"]
    /\ UNCHANGED <<comments, topics, drawn, banned, post, purges, spared, closed, purged>>

\* ... and their rows, one after the other, if they are live still.
LockComment(m) ==
    LET c == Max(purge[m].work) IN
    /\ purge[m].pc = "lock"
    /\ IF purge[m].work = {}
       THEN purge' = [purge EXCEPT ![m].pc = "delete", ![m].work = purge[m].rows]
       ELSE /\ ~RowHeld(c) /\ Shares(c) = {}
            /\ purge' = [purge EXCEPT ![m].work = @ \ {c}, ![m].rows = @ \cup ({c} \cap Live)]
    /\ UNCHANGED <<comments, topics, drawn, banned, post, purges, spared, closed, purged>>

\* Mutant: oldest first.
NextVictimOldest(m) == Min(purge[m].work)

\* The newest first: a comment may be the last reply to an older one.
NextVictim(m) == Max(purge[m].work)

\* A comment with a live reply is skipped; another is deleted and the counter
\* of its topic lowered.
DeleteComment(m) ==
    LET c == NextVictim(m)
        t == comments[c].topic
        answered == \E a \in Live \ purge[m].gone : comments[a].parent = c
    IN
    /\ purge[m].pc = "delete" /\ purge[m].work # {}
    /\ IF answered
       THEN purge' = [purge EXCEPT ![m].work = @ \ {c}]
       ELSE /\ t \in purge[m].takes \/ ~TopicHeld(t)
            /\ purge' = [purge EXCEPT ![m].work = @ \ {c}, ![m].gone = @ \cup {c},
                                      ![m].takes = @ \cup {t}, ![m].down[t] = @ + 1]
    /\ UNCHANGED <<comments, topics, drawn, banned, post, purges, spared, closed, purged>>

Lowered(m, t) == topics[t].stat1 - purge[m].down[t]

\* Events, del_info, notices and the commit.
CommitPurge(m) ==
    LET r == purge[m] IN
    /\ r.pc = "delete" /\ r.work = {}
    /\ comments' = [c \in Id |-> IF c \in r.gone THEN [comments[c] EXCEPT !.state = "deleted"]
                                 ELSE comments[c]]
    /\ topics' = [t \in Topic |-> [deleted |-> topics[t].deleted \/ t \in r.shut,
                                   stat1 |-> Lowered(m, t)]]
    /\ banned' = banned \cup {r.kind} /\ closed' = TRUE /\ purged' = TRUE
    /\ spared' = spared \cup (r.rows \ r.gone)
    /\ purge' = [purge EXCEPT ![m] = NoPurge]
    /\ UNCHANGED <<drawn, post, purges>>

\* A stale row of del_info, an error, or the victim of a deadlock.
AbortPurge(m) ==
    /\ purge[m].pc \in {"topics", "comments", "lock", "delete"}
    /\ purge' = [purge EXCEPT ![m] = NoPurge]
    /\ UNCHANGED <<comments, topics, drawn, banned, post, purges, spared, closed, purged>>

Next ==
    \/ \E p \in Poster :
        \/ \E own \in BOOLEAN, t \in Topic, c \in Id \cup {0} : Check(p, own, t, c)
        \/ ShareParent(p) \/ Insert(p) \/ CommitPost(p) \/ AbortPost(p)
    \/ \E m \in Mod :
        \/ \E kind \in {"user", "address"} : Start(m, kind)
        \/ LockTopics(m) \/ FindComments(m) \/ LockComment(m) \/ DeleteComment(m)
        \/ CommitPurge(m) \/ AbortPurge(m)

Spec == Init /\ [][Next]_vars

(***************************************************************************)
(* Properties                                                              *)
(***************************************************************************)

\* Every variable keeps its type, and nobody holds what another holds.
PurgeTypeOK ==
    /\ \A c \in Id : comments[c].state \in {"none", "live", "deleted"}
    /\ \A t \in Topic : topics[t].stat1 \in 0..MaxComments
    /\ drawn \in 0..MaxComments /\ banned \subseteq {"user", "address"}
    /\ \A t \in Topic : Cardinality({p \in Poster : post[p].pc = "commit" /\ post[p].topic = t}
                                      \cup {m \in Mod : t \in purge[m].takes}) <= 1
    /\ \A c \in Id : Cardinality({m \in Mod : c \in purge[m].rows}) <= 1

\* A comment deleted by a purge has no live reply, also one that was being
\* written while the purge counted the replies.
NoReplyToPurged == \A c \in Live : comments[c].parent # 0 => comments[c].parent \in Live

\* The counter of each topic is the number of its live comments.
StatExact == \A t \in Topic : topics[t].stat1 = Cardinality({c \in Live : comments[c].topic = t})

\* A purge goes as far as it can: what it leaves of its candidates has a live
\* reply, of somebody else or one that is left for the same reason.
SparesTheAnswered ==
    \A c \in spared' \ spared : \E a \in Id : /\ comments'[a].state = "live"
                                            /\ comments'[a].parent = c

\* After the ban nothing of the culprit is left but those, and comments that
\* a purge could not see: of requests that had passed their checks before the
\* ban, or that committed while the purge of a user was under way.
Survivors ==
    purged
    => \A c \in Live : comments[c].own => comments[c].late \/ c \in spared

\* A purge takes what it must, and leaves threads and counters whole.
PurgeConsistent == PurgeTypeOK /\ NoReplyToPurged /\ StatExact /\ Survivors
=============================================================================
