--------------------------- MODULE CommentDeletion ---------------------------
(***************************************************************************)
(* Deleting, restoring and answering the comments of one open topic,       *)
(* statement by statement, as the transactions of concurrent requests      *)
(* interleave under PostgreSQL's READ COMMITTED isolation, together with   *)
(* the hourly recount of the topic's comment counter.                      *)
(*                                                                         *)
(* db is what is committed; wip holds, for a row locked by a transaction,  *)
(* what that transaction has written so far.  A statement that needs a row *)
(* locked by another transaction waits (its action is not enabled) and     *)
(* then sees the committed row.  An aborted transaction - a refused        *)
(* request, a deadlock victim, a lost connection - leaves nothing behind.  *)
(***************************************************************************)
EXTENDS Integers, FiniteSets, Folds

CONSTANTS
    Comment, User, Handler,
    Moderator,        \* the users who moderate
    ReplyTo,          \* the comment each comment answers, or Root
    Author,           \* the author of each comment
    Root, NoInfo, Nobody,
    Penalty,          \* penalties a moderator may ask for, within 0 .. 20
    MaxRequests       \* bound: requests that ever start

ASSUME CommentAssumption ==
    /\ IsFiniteSet(Comment) /\ IsFiniteSet(User)
    /\ Root \notin Comment
    /\ ReplyTo \in [Comment -> Comment \cup {Root}]
    /\ Author \in [Comment -> User]
    /\ Moderator \subseteq User
ASSUME RequestAssumption ==
    /\ Nobody \notin Handler
    /\ Penalty \subseteq 0 .. 20
    /\ MaxRequests \in Nat
ASSUME NoInfoAssumption == NoInfo \notin [penalty : 0 .. 20, by : User]

\* A topic's rows: its comments, their del_info, the users' scores, itself.
CommentRow(c) == <<"comment", c>>
InfoRow(c)    == <<"del_info", c>>
UserRow(u)    == <<"user", u>>
TopicRow      == <<"topic", Root>>
Row == {CommentRow(c) : c \in Comment} \cup {InfoRow(c) : c \in Comment}
         \cup {UserRow(u) : u \in User} \cup {TopicRow}

Presence == {"absent", "live", "deleted"}
Info     == [penalty : 0 .. 20, by : User]
Counters == [stat1 : Int, stat3 : Int]   \* comments in all, of the last day

VARIABLES
    db,        \* the committed rows
    wip,       \* the rows with what open transactions wrote
    lock,      \* which request has locked each row
    share,     \* which requests have locked a comment FOR SHARE
    req,       \* the requests under way
    started    \* requests begun

vars == <<db, wip, lock, share, req, started>>

NoRequest == [phase |-> "idle", target |-> Root, actor |-> Nobody,
              penalty |-> 0, deep |-> FALSE, work |-> {}, done |-> {},
              at |-> Root, bonus |-> 0, count |-> 0]

Is(c, presence)  == db[CommentRow(c)] = presence
LiveReplies(c)   == {r \in Comment : ReplyTo[r] = c /\ Is(r, "live")}

\* The live comments below c that can be reached through live comments.
Subtree(c) ==
    LET reach[n \in 0 .. Cardinality(Comment)] ==
          IF n = 0 THEN {c}
          ELSE reach[n - 1] \cup UNION {LiveReplies(r) : r \in reach[n - 1]}
    IN  {r \in Comment : r # c /\ r \in reach[Cardinality(Comment)]}

\* What the author of comment m loses when root is deleted for a penalty p.
PenaltyOf(m, root, p) ==
    IF m = root THEN p
    ELSE IF p > 2 /\ ReplyTo[m] = root THEN 2
    ELSE IF p > 2 /\ ReplyTo[m] \in Comment /\ ReplyTo[ReplyTo[m]] = root THEN 1
    ELSE 0

Init ==
    /\ \E live \in SUBSET Comment :
         /\ \A c \in live : ReplyTo[c] \in live \cup {Root}
         /\ db = [r \in Row |->
                    CASE r[1] = "comment"  -> IF r[2] \in live THEN "live" ELSE "absent"
                      [] r[1] = "del_info" -> NoInfo
                      [] r[1] = "user"     -> 0
                      [] r[1] = "topic"    -> [stat1 |-> Cardinality(live),
                                               stat3 |-> Cardinality(live)]]
    /\ wip = db
    /\ lock = [r \in Row |-> Nobody]
    /\ share = [c \in Comment |-> {}]
    /\ req = [h \in Handler |-> NoRequest]
    /\ started = 0

-----------------------------------------------------------------------------
(* Requests, rows and locks *)

In(h, phase) == req[h].phase = phase
CanWrite(h, r) ==
    /\ lock[r] \in {h, Nobody}
    /\ \A c \in Comment : r = CommentRow(c) => share[c] \subseteq {h}

Lock(h, r) ==
    /\ CanWrite(h, r)
    /\ lock' = [lock EXCEPT ![r] = h]
    /\ UNCHANGED wip
Write(h, r, v) ==
    /\ CanWrite(h, r)
    /\ lock' = [lock EXCEPT ![r] = h]
    /\ wip' = [wip EXCEPT ![r] = v]

\* Of two versions of the rows: the first where h holds the lock.
Merge(h, mine, other) == [r \in Row |-> IF lock[r] = h THEN mine[r] ELSE other[r]]

EndTransaction(h) ==
    /\ lock' = [r \in Row |-> IF lock[r] = h THEN Nobody ELSE lock[r]]
    /\ share' = [c \in Comment |-> share[c] \ {h}]
    /\ req' = [req EXCEPT ![h] = NoRequest]
    /\ UNCHANGED started

Commit(h) ==
    /\ In(h, "commit")
    /\ db' = Merge(h, wip, db)
    /\ UNCHANGED wip
    /\ EndTransaction(h)

Abort(h) ==
    /\ ~In(h, "idle")
    /\ wip' = Merge(h, db, wip)
    /\ UNCHANGED db
    /\ EndTransaction(h)

Begin(h, request) ==
    /\ In(h, "idle") /\ started < MaxRequests
    /\ started' = started + 1
    /\ req' = [req EXCEPT ![h] = request]
    /\ UNCHANGED <<db, wip, lock, share>>

-----------------------------------------------------------------------------
(* Deleting *)

\* Permission is checked on rows read before the transaction begins: an
\* author may while there is no reply (and for three hours), a moderator may.
MayDelete(u, c) ==
    /\ Is(c, "live")
    /\ u \in Moderator \/ (u = Author[c] /\ LiveReplies(c) = {})

Delete(h, u, c, p, withReplies) ==
    /\ MayDelete(u, c)
    /\ LET byAuthor == u \notin Moderator
       IN  Begin(h, [NoRequest EXCEPT !.phase = IF byAuthor THEN "count" ELSE "subtree",
                       !.target = c, !.actor = u,
                       !.penalty = IF u = Author[c] THEN 0 ELSE p,
                       !.deep = ~byAuthor /\ withReplies])

\* Inside the transaction the author's replies are counted again; if there
\* are any the request is refused (Abort).
CountReplies(h) ==
    /\ In(h, "count")
    /\ LiveReplies(req[h].target) = {}
    /\ req' = [req EXCEPT ![h].phase = "mark", ![h].work = {req[h].target}]
    /\ UNCHANGED <<db, wip, lock, share, started>>

ReadSubtree(h) ==
    /\ In(h, "subtree")
    /\ LET c == req[h].target
       IN  req' = [req EXCEPT ![h].phase = "mark",
                     ![h].work = {c} \cup (IF req[h].deep THEN Subtree(c) ELSE {})]
    /\ UNCHANGED <<db, wip, lock, share, started>>

\* Replies come before the comment they answer.
NextInPostorder(h, c) ==
    c \in req[h].work /\ \A r \in req[h].work : ReplyTo[r] # c

\* UPDATE ... AND NOT deleted, on a live comment ...
MarkDeleted(h, c) ==
    /\ In(h, "mark") /\ NextInPostorder(h, c)
    /\ Is(c, "live")
    /\ Write(h, CommentRow(c), "deleted")
    /\ req' = [req EXCEPT ![h].phase = "charge", ![h].at = c]
    /\ UNCHANGED <<db, share, started>>

\* ... and on one that another request has deleted meanwhile.
PassOverDeleted(h, c) ==
    /\ In(h, "mark") /\ NextInPostorder(h, c)
    /\ ~Is(c, "live")
    /\ req' = [req EXCEPT ![h].work = @ \ {c}]
    /\ UNCHANGED <<db, wip, lock, share, started>>

\* A frozen author is not charged; the penalty kept is the one charged.
ChargeAuthor(h) ==
    /\ In(h, "charge")
    /\ LET c == req[h].at
           p == PenaltyOf(c, req[h].target, req[h].penalty)
           u == UserRow(Author[c])
       IN  \E charged \in {0, p} :
             /\ IF charged = 0 THEN UNCHANGED <<wip, lock>>
                ELSE Write(h, u, wip[u] - charged)
             /\ req' = [req EXCEPT ![h].phase = "info", ![h].bonus = charged]
    /\ UNCHANGED <<db, share, started>>

\* Mutant: del_info keeps the penalty with the sign of the score change.
InfoNegative(h)  == [penalty |-> -req[h].bonus, by |-> req[h].actor]
NewInfo(h)       == [penalty |-> req[h].bonus, by |-> req[h].actor]

\* A plain INSERT: a row that exists already fails the transaction (Abort).
InsertInfo(h) ==
    /\ In(h, "info")
    /\ LET c == req[h].at
       IN  /\ wip[InfoRow(c)] = NoInfo
           /\ Write(h, InfoRow(c), NewInfo(h))
           /\ req' = [req EXCEPT ![h].phase = "mark", ![h].work = @ \ {c},
                                 ![h].done = @ \cup {c}, ![h].at = Root, ![h].bonus = 0]
    /\ UNCHANGED <<db, share, started>>

\* stat1 goes down by what was deleted, stat3 is capped by it.
Lowered(stat, n) == [stat1 |-> stat.stat1 - n,
                     stat3 |-> IF stat.stat3 > stat.stat1 - n
                               THEN stat.stat1 - n ELSE stat.stat3]

LowerCounters(h) ==
    /\ In(h, "mark") /\ req[h].work = {}
    /\ IF req[h].done = {} THEN UNCHANGED <<wip, lock>>
       ELSE Write(h, TopicRow, Lowered(wip[TopicRow], Cardinality(req[h].done)))
    /\ req' = [req EXCEPT ![h].phase = "commit"]
    /\ UNCHANGED <<db, share, started>>

-----------------------------------------------------------------------------
(* Restoring *)

\* A moderator may, unless the author deleted the comment.
Undelete(h, u, c) ==
    /\ u \in Moderator
    /\ Is(c, "deleted")
    /\ db[InfoRow(c)] # NoInfo => db[InfoRow(c)].by # Author[c]
    /\ Begin(h, [NoRequest EXCEPT !.phase = "bonus", !.target = c, !.actor = u])

\* Mutant: del_info is read without FOR UPDATE.
ReadBonusUnlocked(h) ==
    /\ In(h, "bonus")
    /\ LET i == InfoRow(req[h].target)
       IN  req' = [req EXCEPT ![h].phase = "refund",
                     ![h].bonus = IF db[i] = NoInfo THEN 0 ELSE db[i].penalty]
    /\ UNCHANGED <<db, wip, lock, share, started>>

\* SELECT bonus ... FOR UPDATE: an uncommitted row is not seen.
ReadBonus(h) ==
    /\ In(h, "bonus")
    /\ LET i == InfoRow(req[h].target)
       IN  IF db[i] = NoInfo
           THEN /\ UNCHANGED <<wip, lock>>
                /\ req' = [req EXCEPT ![h].phase = "refund"]
           ELSE /\ Lock(h, i)
                /\ req' = [req EXCEPT ![h].phase = "refund", ![h].bonus = db[i].penalty]
    /\ UNCHANGED <<db, share, started>>

Refund(h) ==
    /\ In(h, "refund")
    /\ LET u == UserRow(Author[req[h].target])
       IN  IF req[h].bonus = 0 THEN UNCHANGED <<wip, lock>>
           ELSE Write(h, u, wip[u] + req[h].bonus)
    /\ req' = [req EXCEPT ![h].phase = "unmark", ![h].bonus = 0]
    /\ UNCHANGED <<db, share, started>>

\* Mutant: the comment is unmarked only when del_info was found.
UnmarkIfInfo(h) ==
    /\ In(h, "unmark")
    /\ IF lock[InfoRow(req[h].target)] # h
       THEN UNCHANGED <<wip, lock>>
       ELSE Write(h, CommentRow(req[h].target), "live")
    /\ req' = [req EXCEPT ![h].phase = "delinfo"]
    /\ UNCHANGED <<db, share, started>>

\* An unconditional UPDATE of the comment.
Unmark(h) ==
    /\ In(h, "unmark")
    /\ Write(h, CommentRow(req[h].target), "live")
    /\ req' = [req EXCEPT ![h].phase = "delinfo"]
    /\ UNCHANGED <<db, share, started>>

DeleteInfo(h) ==
    /\ In(h, "delinfo")
    /\ LET i == InfoRow(req[h].target)
       IN  IF db[i] = NoInfo THEN UNCHANGED <<wip, lock>>
           ELSE Write(h, i, NoInfo)
    /\ req' = [req EXCEPT ![h].phase = "touch"]
    /\ UNCHANGED <<db, share, started>>

\* Only the topic's date changes: the counters stay as they are.
TouchTopic(h) ==
    /\ In(h, "touch")
    /\ Lock(h, TopicRow)
    /\ req' = [req EXCEPT ![h].phase = "commit"]
    /\ UNCHANGED <<db, share, started>>

-----------------------------------------------------------------------------
(* Answering *)

Reply(h, c) ==
    /\ Is(c, "absent")
    /\ ReplyTo[c] \in {Root} \cup {p \in Comment : ~Is(p, "absent")}
    /\ \A g \in Handler : req[g].target # c
    /\ Begin(h, [NoRequest EXCEPT !.phase = "share", !.target = c])

\* Mutant: the parent is read with a plain SELECT.
ShareParentUnlocked(h) ==
    /\ In(h, "share")
    /\ ReplyTo[req[h].target] \in {Root} \cup {p \in Comment : Is(p, "live")}
    /\ req' = [req EXCEPT ![h].phase = "insert"]
    /\ UNCHANGED <<db, wip, lock, share, started>>

\* SELECT ... FOR SHARE of the parent; a deleted one is refused (Abort).
ShareParent(h) ==
    /\ In(h, "share")
    /\ LET parent == ReplyTo[req[h].target]
       IN  IF parent = Root THEN UNCHANGED share
           ELSE /\ lock[CommentRow(parent)] \in {h, Nobody}
                /\ Is(parent, "live")
                /\ share' = [share EXCEPT ![parent] = @ \cup {h}]
    /\ req' = [req EXCEPT ![h].phase = "insert"]
    /\ UNCHANGED <<db, wip, lock, started>>

\* INSERT fires the trigger comins, which locks and raises the counters.
InsertComment(h) ==
    /\ In(h, "insert")
    /\ LET c == CommentRow(req[h].target)
           stat == wip[TopicRow]
       IN  /\ CanWrite(h, c) /\ CanWrite(h, TopicRow)
           /\ lock' = [lock EXCEPT ![c] = h, ![TopicRow] = h]
           /\ wip' = [wip EXCEPT ![c] = "live",
                        ![TopicRow] = [stat1 |-> stat.stat1 + 1, stat3 |-> stat.stat3 + 1]]
    /\ req' = [req EXCEPT ![h].phase = "commit"]
    /\ UNCHANGED <<db, share, started>>

-----------------------------------------------------------------------------
(* stat_update(): topics with comments of the last day are recounted.  The *)
(* advisory lock between replicas is left out: the topic's row lock is enough. *)

StatUpdate(h) ==
    /\ db[TopicRow].stat3 # 0
    /\ Begin(h, [NoRequest EXCEPT !.phase = "locktopic"])

\* SELECT ... FOR UPDATE: a topic whose stat3 became 0 is left out (Abort).
LockTopic(h) ==
    /\ In(h, "locktopic")
    /\ db[TopicRow].stat3 # 0
    /\ Lock(h, TopicRow)
    /\ req' = [req EXCEPT ![h].phase = "recount"]
    /\ UNCHANGED <<db, share, started>>

CountComments(h) ==
    /\ In(h, "recount")
    /\ req' = [req EXCEPT ![h].phase = "update",
                          ![h].count = Cardinality({c \in Comment : Is(c, "live")})]
    /\ UNCHANGED <<db, wip, lock, share, started>>

\* How many of the comments are of the last day is left open.
UpdateCounters(h) ==
    /\ In(h, "update")
    /\ \E recent \in 0 .. req[h].count :
         Write(h, TopicRow, [stat1 |-> req[h].count, stat3 |-> recent])
    /\ req' = [req EXCEPT ![h].phase = "commit"]
    /\ UNCHANGED <<db, share, started>>

-----------------------------------------------------------------------------
Next == \E h \in Handler :
    \/ \E c \in Comment, u \in User, p \in Penalty, b \in BOOLEAN : Delete(h, u, c, p, b)
    \/ \E c \in Comment, u \in User : Undelete(h, u, c)
    \/ \E c \in Comment : Reply(h, c) \/ MarkDeleted(h, c) \/ PassOverDeleted(h, c)
    \/ CountReplies(h) \/ ReadSubtree(h) \/ ChargeAuthor(h) \/ InsertInfo(h)
    \/ LowerCounters(h)
    \/ ReadBonus(h) \/ Refund(h) \/ Unmark(h) \/ DeleteInfo(h) \/ TouchTopic(h)
    \/ ShareParent(h) \/ InsertComment(h)
    \/ StatUpdate(h) \/ LockTopic(h) \/ CountComments(h) \/ UpdateCounters(h)
    \/ Commit(h) \/ Abort(h)

Spec == Init /\ [][Next]_vars

-----------------------------------------------------------------------------
(* Properties *)

Phase == {"idle", "count", "subtree", "mark", "charge", "info", "bonus",
          "refund", "unmark", "delinfo", "touch", "share", "insert",
          "locktopic", "recount", "update", "commit"}
Request == [phase : Phase, target : Comment \cup {Root}, actor : User \cup {Nobody},
            penalty : 0 .. 20, deep : BOOLEAN, work : SUBSET Comment,
            done : SUBSET Comment, at : Comment \cup {Root}, bonus : 0 .. 20, count : Nat]

RowsOK(rows) ==
    /\ DOMAIN rows = Row
    /\ \A c \in Comment : /\ rows[CommentRow(c)] \in Presence
                          /\ rows[InfoRow(c)] \in Info \cup {NoInfo}
    /\ \A u \in User : rows[UserRow(u)] \in Int
    /\ rows[TopicRow] \in Counters

\* The type invariant, with what the locks mean: a row nobody has locked
\* holds what is committed.
TypeOK ==
    /\ RowsOK(db) /\ RowsOK(wip)
    /\ lock \in [Row -> Handler \cup {Nobody}]
    /\ share \in [Comment -> SUBSET Handler]
    /\ req \in [Handler -> Request]
    /\ started \in 0 .. MaxRequests
    /\ \A r \in Row : lock[r] = Nobody => wip[r] = db[r]

\* At every moment, and however deletions and restorations of the same
\* comment overlap, a comment is marked deleted exactly when it has its
\* del_info row: neither vanishes nor stays behind without the other.
DeletedIffInfo ==
    \A c \in Comment : Is(c, "deleted") <=> db[InfoRow(c)] # NoInfo

\* What an author's score owes to deletions still in force.
Owed(u) ==
    LET charged == {c \in Comment : Author[c] = u /\ db[InfoRow(c)] # NoInfo}
    IN  MapThenFoldSet(+, 0, LAMBDA c : db[InfoRow(c)].penalty,
                       LAMBDA s : CHOOSE c \in s : TRUE, charged)

\* A penalty is never refunded twice: restoring the same comment from
\* several requests at once never leaves its author with more than the
\* penalties in force allow (the FOR UPDATE of vUndelete).
NeverOverpaid == \A u \in User : db[UserRow(u)] <= -Owed(u)

\* A reply is committed only under a comment that is live at that moment,
\* though its deletion may have been waiting (the FOR SHARE of insert_comment).
NoReplyToDeleted ==
    [][\A c \in Comment : Is(c, "absent") /\ db'[CommentRow(c)] # "absent"
         => ReplyTo[c] = Root \/ db'[CommentRow(ReplyTo[c])] = "live"]_vars

\* The topic's counter never promises more comments than there are to see:
\* deletions, replies and recounts meet on the topic's row lock.
CountNotOver ==
    db[TopicRow].stat1 <= Cardinality({c \in Comment : Is(c, "live")})

\* What is kept beside the comments never promises more than they account for:
\* neither the scores of the authors nor the counter of the topic.
NeverOvercounted == NeverOverpaid /\ CountNotOver
=============================================================================
