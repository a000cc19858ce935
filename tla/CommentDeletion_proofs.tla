----------------------- MODULE CommentDeletion_proofs -----------------------
(***************************************************************************)
(* What holds of the comments of a topic for any tree of comments, any     *)
(* number of requests and any penalties: a comment is marked deleted       *)
(* exactly when its del_info exists, no reply is committed under a deleted *)
(* comment, and neither an author's score nor the topic's counter promises *)
(* more than the comments account for.                                     *)
(***************************************************************************)
EXTENDS CommentDeletion, FiniteSetTheorems, WellFoundedInduction, TLAPS

LEMMA RowsAreDistinct ==
    /\ \A c \in Comment : CommentRow(c) \in Row /\ InfoRow(c) \in Row
    /\ \A u \in User : UserRow(u) \in Row
    /\ TopicRow \in Row
    /\ \A c, d \in Comment : /\ CommentRow(c) = CommentRow(d) <=> c = d
                             /\ InfoRow(c) = InfoRow(d) <=> c = d
                             /\ CommentRow(c) # InfoRow(d)
    /\ \A c \in Comment, u \in User : CommentRow(c) # UserRow(u) /\ InfoRow(c) # UserRow(u)
    /\ \A c \in Comment : CommentRow(c) # TopicRow /\ InfoRow(c) # TopicRow
    /\ \A u, v \in User : UserRow(u) = UserRow(v) <=> u = v
    /\ \A u \in User : UserRow(u) # TopicRow
  BY DEF CommentRow, InfoRow, UserRow, TopicRow, Row

-----------------------------------------------------------------------------
(* Type correctness *)

LocksOK ==
    /\ RowsOK(db) /\ RowsOK(wip)
    /\ lock \in [Row -> Handler \cup {Nobody}]
    /\ share \in [Comment -> SUBSET Handler]
    /\ \A r \in Row : lock[r] = Nobody => wip[r] = db[r]

\* A request that works on a comment names it, and who deletes is a user.
Named(r) ==
    /\ r.phase \in {"count", "subtree", "mark", "charge", "info"}
         => r.target \in Comment /\ r.actor \in User
    /\ r.phase \in {"charge", "info"} => r.at \in Comment
    /\ r.phase \in {"bonus", "refund", "unmark", "delinfo", "share", "insert"}
         => r.target \in Comment
ReqOK == /\ req \in [Handler -> Request] /\ started \in 0 .. MaxRequests
         /\ \A h \in Handler : Named(req[h])

TypeInv == LocksOK /\ ReqOK

LEMMA TypeInv_TypeOK == TypeInv => TypeOK
  BY DEF TypeInv, TypeOK, LocksOK, ReqOK

LEMMA NoRequest_Type ==
    NoRequest \in Request /\ Named(NoRequest)
  BY RequestAssumption DEF NoRequest, Request, Phase, Named

LEMMA Lock_Type ==
    ASSUME LocksOK, NEW h \in Handler, NEW r \in Row, Lock(h, r), UNCHANGED <<db, share>>
    PROVE  LocksOK'
  BY RequestAssumption DEF LocksOK, Lock, RowsOK

LEMMA Write_Type ==
    ASSUME LocksOK, NEW h \in Handler, NEW r \in Row, NEW v, Write(h, r, v),
           RowsOK([wip EXCEPT ![r] = v]), UNCHANGED <<db, share>>
    PROVE  LocksOK'
  BY RequestAssumption DEF LocksOK, Write

LEMMA WriteComment_Type ==
    ASSUME LocksOK, NEW h \in Handler, NEW c \in Comment, NEW v \in Presence,
           Write(h, CommentRow(c), v), UNCHANGED <<db, share>>
    PROVE  LocksOK'
<1>1. RowsOK([wip EXCEPT ![CommentRow(c)] = v])
  BY RowsAreDistinct DEF LocksOK, RowsOK
<1> QED BY <1>1, RowsAreDistinct, Write_Type

LEMMA WriteInfo_Type ==
    ASSUME LocksOK, NEW h \in Handler, NEW c \in Comment, NEW v \in Info \cup {NoInfo},
           Write(h, InfoRow(c), v), UNCHANGED <<db, share>>
    PROVE  LocksOK'
<1>1. RowsOK([wip EXCEPT ![InfoRow(c)] = v])
  BY RowsAreDistinct DEF LocksOK, RowsOK
<1> QED BY <1>1, RowsAreDistinct, Write_Type

LEMMA WriteUser_Type ==
    ASSUME LocksOK, NEW h \in Handler, NEW u \in User, NEW v \in Int,
           Write(h, UserRow(u), v), UNCHANGED <<db, share>>
    PROVE  LocksOK'
<1>1. RowsOK([wip EXCEPT ![UserRow(u)] = v])
  BY RowsAreDistinct DEF LocksOK, RowsOK
<1> QED BY <1>1, RowsAreDistinct, Write_Type

LEMMA WriteTopic_Type ==
    ASSUME LocksOK, NEW h \in Handler, NEW v \in Counters,
           Write(h, TopicRow, v), UNCHANGED <<db, share>>
    PROVE  LocksOK'
<1>1. RowsOK([wip EXCEPT ![TopicRow] = v])
  BY RowsAreDistinct DEF LocksOK, RowsOK
<1> QED BY <1>1, RowsAreDistinct, Write_Type

LEMMA Untouched_Type ==
    ASSUME LocksOK, UNCHANGED <<db, wip, lock, share>>
    PROVE  LocksOK'
  BY DEF LocksOK, RowsOK

LEMMA Move_Type ==
    ASSUME ReqOK, NEW h \in Handler, NEW r \in Request, Named(r), UNCHANGED started,
           req' = [req EXCEPT ![h] = r]
    PROVE  ReqOK'
  BY DEF ReqOK

LEMMA Begin_Type ==
    ASSUME TypeInv, NEW h \in Handler, NEW r \in Request, Named(r), Begin(h, r)
    PROVE  TypeInv'
<1>1. LocksOK'
  BY Untouched_Type DEF Begin, TypeInv
<1>2. ReqOK'
  BY RequestAssumption DEF Begin, ReqOK, TypeInv
<1> QED BY <1>1, <1>2 DEF TypeInv

LEMMA Delete_Type ==
    ASSUME TypeInv, NEW h \in Handler, NEW c \in Comment, NEW u \in User, NEW p \in Penalty,
           NEW b \in BOOLEAN, Delete(h, u, c, p, b)
    PROVE  TypeInv'
<1> DEFINE x == IF u \notin Moderator THEN "count" ELSE "subtree"
           q == IF u = Author[c] THEN 0 ELSE p
           deep == ~(u \notin Moderator) /\ b
           r == [NoRequest EXCEPT !.phase = x, !.target = c, !.actor = u, !.penalty = q,
                                  !.deep = deep]
<1>1. x \in Phase /\ x \in {"count", "subtree"} /\ deep \in BOOLEAN
  BY DEF Phase
<1>2. q \in 0 .. 20
  BY RequestAssumption
<1>3. Begin(h, r)
  BY DEF Delete
<1> HIDE DEF x, q, deep
<1>4. r \in Request
  BY <1>1, <1>2, NoRequest_Type DEF Request
<1>5. Named(r)
  BY <1>1, NoRequest_Type DEF Request, Named
<1> QED BY <1>3, <1>4, <1>5, Begin_Type

LEMMA Undelete_Type ==
    ASSUME TypeInv, NEW h \in Handler, NEW c \in Comment, NEW u \in User, Undelete(h, u, c)
    PROVE  TypeInv'
<1> DEFINE r == [NoRequest EXCEPT !.phase = "bonus", !.target = c, !.actor = u]
<1>1. "bonus" \in Phase
  BY DEF Phase
<1>2. r \in Request /\ Named(r)
  BY <1>1, NoRequest_Type DEF Request, Named
<1> QED BY <1>2, Begin_Type DEF Undelete

LEMMA Reply_Type ==
    ASSUME TypeInv, NEW h \in Handler, NEW c \in Comment, Reply(h, c)
    PROVE  TypeInv'
<1> DEFINE r == [NoRequest EXCEPT !.phase = "share", !.target = c]
<1>1. "share" \in Phase
  BY DEF Phase
<1>2. r \in Request /\ Named(r)
  BY <1>1, NoRequest_Type DEF Request, Named
<1> QED BY <1>2, Begin_Type DEF Reply

LEMMA StatUpdate_Type ==
    ASSUME TypeInv, NEW h \in Handler, StatUpdate(h)
    PROVE  TypeInv'
<1> DEFINE r == [NoRequest EXCEPT !.phase = "locktopic"]
<1>1. "locktopic" \in Phase
  BY DEF Phase
<1>2. r \in Request /\ Named(r)
  BY <1>1, NoRequest_Type DEF Request, Named
<1> QED BY <1>2, Begin_Type DEF StatUpdate

LEMMA End_Type ==
    ASSUME TypeInv, NEW h \in Handler, Commit(h) \/ Abort(h)
    PROVE  TypeInv'
<1>1. EndTransaction(h)
  BY DEF Commit, Abort
<1>2. ReqOK'
  BY <1>1, NoRequest_Type, Move_Type DEF EndTransaction, TypeInv
<1>3. lock' \in [Row -> Handler \cup {Nobody}] /\ share' \in [Comment -> SUBSET Handler]
  BY <1>1 DEF EndTransaction, TypeInv, LocksOK
<1>4. RowsOK(Merge(h, wip, db)) /\ RowsOK(Merge(h, db, wip))
  BY RowsAreDistinct DEF Merge, RowsOK, TypeInv, LocksOK
<1>5. RowsOK(db') /\ RowsOK(wip')
  BY <1>4 DEF Commit, Abort, TypeInv, LocksOK
<1>6. \A r \in Row : lock'[r] = Nobody => wip'[r] = db'[r]
  <2> SUFFICES ASSUME NEW r \in Row, lock'[r] = Nobody PROVE wip'[r] = db'[r]
    OBVIOUS
  <2>1. lock[r] = h \/ lock[r] = Nobody
    BY <1>1 DEF EndTransaction
  <2> QED BY <2>1, RequestAssumption DEF Commit, Abort, Merge, TypeInv, LocksOK
<1> QED BY <1>2, <1>3, <1>5, <1>6 DEF LocksOK, TypeInv

LEMMA Live_Finite ==
    ASSUME NEW s \in SUBSET Comment
    PROVE  IsFiniteSet(s) /\ Cardinality(s) \in Nat
  BY FS_Subset, FS_CardinalityType, CommentAssumption

LEMMA Subtree_Type ==
    ASSUME NEW c \in Comment
    PROVE  Subtree(c) \subseteq Comment
  BY DEF Subtree

\* The request a statement of h starts from.
LEMMA Request_Fields ==
    ASSUME TypeInv, NEW h \in Handler
    PROVE  /\ LocksOK /\ ReqOK /\ req[h] \in Request /\ Named(req[h])
           /\ req[h].target \in Comment \cup {Root} /\ req[h].at \in Comment \cup {Root}
           /\ req[h].work \in SUBSET Comment /\ req[h].done \in SUBSET Comment
           /\ req[h].bonus \in 0 .. 20 /\ req[h].penalty \in 0 .. 20 /\ req[h].count \in Nat
<1>1. LocksOK /\ ReqOK /\ req[h] \in Request /\ Named(req[h])
  BY DEF TypeInv, ReqOK
<1> QED BY <1>1 DEF Request

LEMMA CountReplies_Type ==
    ASSUME TypeInv, NEW h \in Handler, CountReplies(h)
    PROVE  TypeInv'
<1> DEFINE r == [req[h] EXCEPT !.phase = "mark", !.work = {req[h].target}]
<1>1. "mark" \in Phase /\ {req[h].target} \in SUBSET Comment /\ req[h].phase = "count"
  BY Request_Fields DEF Phase, Named, CountReplies, In
<1>2. r \in Request /\ Named(r)
  BY <1>1, Request_Fields DEF Request, Named
<1>3. req' = [req EXCEPT ![h] = r] /\ UNCHANGED <<db, wip, lock, share, started>>
  BY DEF CountReplies
<1> HIDE DEF r
<1> QED BY <1>2, <1>3, Request_Fields, Move_Type, Untouched_Type DEF TypeInv

LEMMA ReadSubtree_Type ==
    ASSUME TypeInv, NEW h \in Handler, ReadSubtree(h)
    PROVE  TypeInv'
<1> DEFINE w == {req[h].target} \cup (IF req[h].deep THEN Subtree(req[h].target) ELSE {})
           r == [req[h] EXCEPT !.phase = "mark", !.work = w]
<1>1. "mark" \in Phase /\ req[h].target \in Comment /\ req[h].phase = "subtree"
  BY Request_Fields DEF Phase, Named, ReadSubtree, In
<1>2. Subtree(req[h].target) \subseteq Comment
  BY <1>1, Subtree_Type
<1>3. w \in SUBSET Comment
  BY <1>1, <1>2
<1>4. req' = [req EXCEPT ![h] = r]
  BY DEF ReadSubtree
<1> HIDE DEF w
<1>5. r \in Request /\ Named(r)
  BY <1>1, <1>3, Request_Fields DEF Request, Named
<1> QED BY <1>4, <1>5, Request_Fields, Move_Type, Untouched_Type DEF ReadSubtree, TypeInv

LEMMA MarkDeleted_Type ==
    ASSUME TypeInv, NEW h \in Handler, NEW c \in Comment, MarkDeleted(h, c)
    PROVE  TypeInv'
<1> DEFINE r == [req[h] EXCEPT !.phase = "charge", !.at = c]
<1>1. "charge" \in Phase /\ req[h].phase = "mark" /\ "deleted" \in Presence
  BY DEF Phase, MarkDeleted, In, Presence
<1>2. r \in Request /\ Named(r)
  BY <1>1, Request_Fields DEF Request, Named
<1>3. LocksOK'
  BY <1>1, Request_Fields, WriteComment_Type DEF MarkDeleted
<1> QED BY <1>2, <1>3, Request_Fields, Move_Type DEF MarkDeleted, TypeInv

LEMMA PassOverDeleted_Type ==
    ASSUME TypeInv, NEW h \in Handler, NEW c \in Comment, PassOverDeleted(h, c)
    PROVE  TypeInv'
<1> DEFINE r == [req[h] EXCEPT !.work = @ \ {c}]
<1>1. req[h].phase = "mark" /\ req[h].work \ {c} \in SUBSET Comment
  BY Request_Fields DEF PassOverDeleted, In
<1>2. r \in Request /\ Named(r)
  BY <1>1, Request_Fields DEF Request, Named
<1> QED BY <1>2, Request_Fields, Move_Type, Untouched_Type DEF PassOverDeleted, TypeInv

LEMMA PenaltyOf_Type ==
    ASSUME NEW c \in Comment, NEW root \in Comment, NEW p \in 0 .. 20
    PROVE  PenaltyOf(c, root, p) \in 0 .. 20
  BY DEF PenaltyOf

LEMMA ChargeAuthor_Type ==
    ASSUME TypeInv, NEW h \in Handler, ChargeAuthor(h)
    PROVE  TypeInv'
<1> DEFINE u == Author[req[h].at]
           p == PenaltyOf(req[h].at, req[h].target, req[h].penalty)
<1>1. /\ "info" \in Phase /\ req[h].phase = "charge"
      /\ req[h].at \in Comment /\ req[h].target \in Comment
  BY Request_Fields DEF Phase, Named, ChargeAuthor, In
<1>2. u \in User /\ p \in 0 .. 20
  BY <1>1, CommentAssumption, Request_Fields, PenaltyOf_Type
<1>3. PICK b \in {0, p} :
         /\ IF b = 0 THEN UNCHANGED <<wip, lock>> ELSE Write(h, UserRow(u), wip[UserRow(u)] - b)
         /\ req' = [req EXCEPT ![h].phase = "info", ![h].bonus = b]
  BY DEF ChargeAuthor
<1> DEFINE r == [req[h] EXCEPT !.phase = "info", !.bonus = b]
<1>4. b \in 0 .. 20
  BY <1>2
<1>5. r \in Request /\ Named(r)
  BY <1>1, <1>4, Request_Fields DEF Request, Named
<1>6. LocksOK'
  <2>1. wip[UserRow(u)] - b \in Int
    BY <1>2, <1>4, Request_Fields DEF LocksOK, RowsOK
  <2> QED BY <1>2, <1>3, <2>1, Request_Fields, Untouched_Type, WriteUser_Type DEF ChargeAuthor
<1>7. req' = [req EXCEPT ![h] = r] /\ UNCHANGED started
  BY <1>3 DEF ChargeAuthor
<1> HIDE DEF r
<1> QED BY <1>5, <1>6, <1>7, Request_Fields, Move_Type DEF TypeInv

LEMMA InsertInfo_Type ==
    ASSUME TypeInv, NEW h \in Handler, InsertInfo(h)
    PROVE  TypeInv'
<1> DEFINE c == req[h].at
           r == [req[h] EXCEPT !.phase = "mark", !.work = @ \ {c}, !.done = @ \cup {c},
                               !.at = Root, !.bonus = 0]
<1>1. /\ "mark" \in Phase /\ req[h].phase = "info"
      /\ c \in Comment /\ req[h].target \in Comment /\ req[h].actor \in User
  BY Request_Fields DEF Phase, Named, InsertInfo, In
<1>2. /\ req[h].work \ {c} \in SUBSET Comment /\ req[h].done \cup {c} \in SUBSET Comment
      /\ 0 \in 0 .. 20
  BY <1>1, Request_Fields
<1>3. req' = [req EXCEPT ![h] = r] /\ Write(h, InfoRow(c), NewInfo(h))
  BY DEF InsertInfo
<1>4. NewInfo(h) \in Info
  BY <1>1, Request_Fields DEF NewInfo, Info
<1> HIDE DEF c
<1>5. r \in Request /\ Named(r)
  BY <1>1, <1>2, Request_Fields DEF Request, Named
<1>6. LocksOK'
  BY <1>1, <1>3, <1>4, Request_Fields, WriteInfo_Type DEF InsertInfo
<1> QED BY <1>3, <1>5, <1>6, Request_Fields, Move_Type DEF InsertInfo, TypeInv

LEMMA LowerCounters_Type ==
    ASSUME TypeInv, NEW h \in Handler, LowerCounters(h)
    PROVE  TypeInv'
<1> DEFINE r == [req[h] EXCEPT !.phase = "commit"]
           stat == Lowered(wip[TopicRow], Cardinality(req[h].done))
<1>1. "commit" \in Phase
  BY DEF Phase
<1>2. r \in Request /\ Named(r)
  BY <1>1, Request_Fields DEF Request, Named
<1>3. stat \in Counters
  <2>1. Cardinality(req[h].done) \in Int
    BY Request_Fields, Live_Finite
  <2>2. wip[TopicRow] \in Counters
    BY Request_Fields DEF LocksOK, RowsOK
  <2> QED BY <2>1, <2>2 DEF Lowered, Counters
<1>4. LocksOK'
  BY <1>3, Request_Fields, Untouched_Type, WriteTopic_Type DEF LowerCounters
<1> QED BY <1>2, <1>4, Request_Fields, Move_Type DEF LowerCounters, TypeInv

LEMMA ReadBonus_Type ==
    ASSUME TypeInv, NEW h \in Handler, ReadBonus(h)
    PROVE  TypeInv'
<1> DEFINE c == req[h].target
           b == IF db[InfoRow(c)] = NoInfo THEN req[h].bonus ELSE db[InfoRow(c)].penalty
           r == [req[h] EXCEPT !.phase = "refund", !.bonus = b]
<1>1. "refund" \in Phase /\ req[h].phase = "bonus" /\ c \in Comment
  BY Request_Fields DEF Phase, Named, ReadBonus, In
<1>2. b \in 0 .. 20
  BY <1>1, Request_Fields DEF LocksOK, RowsOK, Info
<1>3. r \in Request /\ Named(r)
  BY <1>1, <1>2, Request_Fields DEF Request, Named
<1>4. CASE db[InfoRow(c)] = NoInfo
  <2>1. [req[h] EXCEPT !.phase = "refund"] = r
    BY <1>4, Request_Fields DEF Request
  <2>2. req' = [req EXCEPT ![h] = r] /\ UNCHANGED <<db, wip, lock, share, started>>
    BY <1>4, <2>1 DEF ReadBonus
  <2> HIDE DEF r
  <2> QED BY <1>3, <2>2, Request_Fields, Move_Type, Untouched_Type DEF TypeInv
<1>5. CASE db[InfoRow(c)] # NoInfo
  <2>1. /\ req' = [req EXCEPT ![h] = r] /\ UNCHANGED <<db, share, started>>
        /\ Lock(h, InfoRow(c))
    BY <1>5 DEF ReadBonus
  <2>2. LocksOK'
    BY <1>1, <2>1, RowsAreDistinct, Request_Fields, Lock_Type
  <2> HIDE DEF r
  <2> QED BY <1>3, <2>1, <2>2, Request_Fields, Move_Type DEF TypeInv
<1> QED BY <1>4, <1>5

LEMMA Refund_Type ==
    ASSUME TypeInv, NEW h \in Handler, Refund(h)
    PROVE  TypeInv'
<1> DEFINE u == Author[req[h].target]
           r == [req[h] EXCEPT !.phase = "unmark", !.bonus = 0]
<1>1. "unmark" \in Phase /\ req[h].phase = "refund" /\ req[h].target \in Comment /\ 0 \in 0 .. 20
  BY Request_Fields DEF Phase, Named, Refund, In
<1>2. r \in Request /\ Named(r)
  BY <1>1, Request_Fields DEF Request, Named
<1>3. u \in User
  BY <1>1, CommentAssumption
<1>4. wip[UserRow(u)] + req[h].bonus \in Int
  BY <1>3, Request_Fields DEF LocksOK, RowsOK
<1>5. LocksOK'
  BY <1>3, <1>4, Request_Fields, Untouched_Type, WriteUser_Type DEF Refund
<1> QED BY <1>2, <1>5, Request_Fields, Move_Type DEF Refund, TypeInv

LEMMA Unmark_Type ==
    ASSUME TypeInv, NEW h \in Handler, Unmark(h)
    PROVE  TypeInv'
<1> DEFINE r == [req[h] EXCEPT !.phase = "delinfo"]
<1>1. /\ "delinfo" \in Phase /\ req[h].phase = "unmark" /\ req[h].target \in Comment
      /\ "live" \in Presence
  BY Request_Fields DEF Phase, Named, Unmark, In, Presence
<1>2. r \in Request /\ Named(r)
  BY <1>1, Request_Fields DEF Request, Named
<1>3. LocksOK'
  BY <1>1, Request_Fields, WriteComment_Type DEF Unmark
<1> QED BY <1>2, <1>3, Request_Fields, Move_Type DEF Unmark, TypeInv

LEMMA DeleteInfo_Type ==
    ASSUME TypeInv, NEW h \in Handler, DeleteInfo(h)
    PROVE  TypeInv'
<1> DEFINE r == [req[h] EXCEPT !.phase = "touch"]
<1>1. "touch" \in Phase /\ req[h].phase = "delinfo" /\ req[h].target \in Comment
  BY Request_Fields DEF Phase, Named, DeleteInfo, In
<1>2. r \in Request /\ Named(r)
  BY <1>1, Request_Fields DEF Request, Named
<1>3. LocksOK'
  BY <1>1, Request_Fields, Untouched_Type, WriteInfo_Type DEF DeleteInfo
<1> QED BY <1>2, <1>3, Request_Fields, Move_Type DEF DeleteInfo, TypeInv

LEMMA TouchTopic_Type ==
    ASSUME TypeInv, NEW h \in Handler, TouchTopic(h)
    PROVE  TypeInv'
<1> DEFINE r == [req[h] EXCEPT !.phase = "commit"]
<1>1. "commit" \in Phase
  BY DEF Phase
<1>2. r \in Request /\ Named(r)
  BY <1>1, Request_Fields DEF Request, Named
<1>3. LocksOK'
  BY RowsAreDistinct, Request_Fields, Lock_Type DEF TouchTopic
<1> QED BY <1>2, <1>3, Request_Fields, Move_Type DEF TouchTopic, TypeInv

LEMMA ShareParent_Type ==
    ASSUME TypeInv, NEW h \in Handler, ShareParent(h)
    PROVE  TypeInv'
<1> DEFINE r == [req[h] EXCEPT !.phase = "insert"]
<1>1. "insert" \in Phase /\ req[h].phase = "share" /\ req[h].target \in Comment
  BY Request_Fields DEF Phase, Named, ShareParent, In
<1>2. r \in Request /\ Named(r)
  BY <1>1, Request_Fields DEF Request, Named
<1>3. share' \in [Comment -> SUBSET Handler]
  BY Request_Fields DEF LocksOK, ShareParent
<1>4. LocksOK'
  BY <1>3, Request_Fields DEF LocksOK, RowsOK, ShareParent
<1> QED BY <1>2, <1>4, Request_Fields, Move_Type DEF ShareParent, TypeInv

LEMMA InsertComment_Type ==
    ASSUME TypeInv, NEW h \in Handler, InsertComment(h)
    PROVE  TypeInv'
<1> DEFINE c == CommentRow(req[h].target)
           stat == [stat1 |-> wip[TopicRow].stat1 + 1, stat3 |-> wip[TopicRow].stat3 + 1]
           r == [req[h] EXCEPT !.phase = "commit"]
<1>1. /\ "commit" \in Phase /\ "live" \in Presence
      /\ req[h].phase = "insert" /\ req[h].target \in Comment
  BY Request_Fields DEF Phase, Presence, Named, InsertComment, In
<1>2. r \in Request /\ Named(r)
  BY <1>1, Request_Fields DEF Request, Named
<1>3. stat \in Counters
  BY Request_Fields DEF LocksOK, RowsOK, Counters
<1>4. /\ lock' = [lock EXCEPT ![c] = h, ![TopicRow] = h]
      /\ wip' = [wip EXCEPT ![c] = "live", ![TopicRow] = stat]
      /\ UNCHANGED <<db, share>>
  BY DEF InsertComment
<1> HIDE DEF stat
<1>5. RowsOK(wip') /\ lock' \in [Row -> Handler \cup {Nobody}]
  BY <1>1, <1>3, <1>4, RowsAreDistinct, Request_Fields DEF LocksOK, RowsOK
<1>6. \A x \in Row : lock'[x] = Nobody => wip'[x] = db'[x]
  BY <1>1, <1>4, RowsAreDistinct, RequestAssumption, Request_Fields DEF LocksOK, RowsOK
<1>7. LocksOK'
  BY <1>4, <1>5, <1>6, Request_Fields DEF LocksOK
<1> QED BY <1>2, <1>7, Request_Fields, Move_Type DEF InsertComment, TypeInv

LEMMA Recount_Type ==
    ASSUME TypeInv, NEW h \in Handler, LockTopic(h) \/ CountComments(h) \/ UpdateCounters(h)
    PROVE  TypeInv'
<1>1. CASE LockTopic(h)
  <2> DEFINE r == [req[h] EXCEPT !.phase = "recount"]
  <2>1. "recount" \in Phase
    BY DEF Phase
  <2>2. r \in Request /\ Named(r)
    BY <2>1, Request_Fields DEF Request, Named
  <2>3. LocksOK'
    BY <1>1, RowsAreDistinct, Request_Fields, Lock_Type DEF LockTopic
  <2> QED BY <1>1, <2>2, <2>3, Request_Fields, Move_Type DEF LockTopic, TypeInv
<1>2. CASE CountComments(h)
  <2> DEFINE n == Cardinality({c \in Comment : Is(c, "live")})
             r == [req[h] EXCEPT !.phase = "update", !.count = n]
  <2>1. "update" \in Phase /\ n \in Nat
    BY Live_Finite DEF Phase
  <2>2. req' = [req EXCEPT ![h] = r]
    BY <1>2 DEF CountComments
  <2> HIDE DEF n
  <2>3. r \in Request /\ Named(r)
    BY <2>1, Request_Fields DEF Request, Named
  <2> QED BY <1>2, <2>2, <2>3, Request_Fields, Move_Type, Untouched_Type
          DEF CountComments, TypeInv
<1>3. CASE UpdateCounters(h)
  <2> DEFINE r == [req[h] EXCEPT !.phase = "commit"]
  <2>1. "commit" \in Phase
    BY DEF Phase
  <2>2. r \in Request /\ Named(r)
    BY <2>1, Request_Fields DEF Request, Named
  <2>3. PICK recent \in 0 .. req[h].count :
           Write(h, TopicRow, [stat1 |-> req[h].count, stat3 |-> recent])
    BY <1>3 DEF UpdateCounters
  <2>4. [stat1 |-> req[h].count, stat3 |-> recent] \in Counters
    BY Request_Fields DEF Counters
  <2>5. LocksOK'
    BY <1>3, <2>3, <2>4, Request_Fields, WriteTopic_Type DEF UpdateCounters
  <2> QED BY <1>3, <2>2, <2>5, Request_Fields, Move_Type DEF UpdateCounters, TypeInv
<1> QED BY <1>1, <1>2, <1>3

LEMMA Init_Type == Init => TypeInv
<1> SUFFICES ASSUME Init PROVE TypeInv
  OBVIOUS
<1>1. PICK live \in SUBSET Comment :
         db = [r \in Row |->
                CASE r[1] = "comment"  -> IF r[2] \in live THEN "live" ELSE "absent"
                  [] r[1] = "del_info" -> NoInfo
                  [] r[1] = "user"     -> 0
                  [] r[1] = "topic"    -> [stat1 |-> Cardinality(live),
                                           stat3 |-> Cardinality(live)]]
  BY DEF Init
<1>2. Cardinality(live) \in Nat
  BY Live_Finite
<1>3. DOMAIN db = Row
  BY <1>1
<1>4. \A c \in Comment : db[CommentRow(c)] \in Presence /\ db[InfoRow(c)] = NoInfo
  BY <1>1, RowsAreDistinct DEF CommentRow, InfoRow, Presence
<1>5. (\A u \in User : db[UserRow(u)] = 0) /\ db[TopicRow] \in Counters
  BY <1>1, <1>2, RowsAreDistinct DEF UserRow, TopicRow, Counters
<1>6. RowsOK(db)
  BY <1>3, <1>4, <1>5 DEF RowsOK
<1>7. LocksOK
  BY <1>6 DEF Init, LocksOK
<1>8. ReqOK
  BY NoRequest_Type, RequestAssumption DEF Init, ReqOK
<1> QED BY <1>7, <1>8 DEF TypeInv

LEMMA Step_Type == TypeInv /\ [Next]_vars => TypeInv'
<1> SUFFICES ASSUME TypeInv, [Next]_vars PROVE TypeInv'
  OBVIOUS
<1>1. CASE UNCHANGED vars
  <2>1. LocksOK' /\ ReqOK'
    BY <1>1, Untouched_Type DEF vars, TypeInv, ReqOK
  <2> QED BY <2>1 DEF TypeInv
<1>2. ASSUME NEW h \in Handler, NEW c \in Comment, NEW u \in User, NEW p \in Penalty,
             NEW b \in BOOLEAN, Delete(h, u, c, p, b)
      PROVE  TypeInv'
  BY <1>2, Delete_Type
<1> QED BY <1>1, <1>2, Undelete_Type, Reply_Type, StatUpdate_Type, End_Type,
           CountReplies_Type, ReadSubtree_Type, MarkDeleted_Type, PassOverDeleted_Type,
           ChargeAuthor_Type, InsertInfo_Type, LowerCounters_Type, ReadBonus_Type,
           Refund_Type, Unmark_Type, DeleteInfo_Type, TouchTopic_Type, ShareParent_Type,
           InsertComment_Type, Recount_Type DEF Next

\* Rows, locks and requests are well formed in every state: a row that nobody has
\* locked holds what is committed, however requests end
\* (comment_deletion_repository.rs:330-640).
THEOREM TypeCorrect == Spec => []TypeOK
<1> QED BY Init_Type, Step_Type, TypeInv_TypeOK, PTL DEF Spec

-----------------------------------------------------------------------------
(* The pairing of a deleted comment with its del_info *)

HoldsComment(h, c) == lock[CommentRow(c)] = h
HoldsInfo(h, c)    == lock[InfoRow(c)] = h

\* How far the transaction of h is with a comment whose row it holds: deleted
\* with its del_info, about to get it, restored but for its del_info, or live.
Marked(h, c) ==
    /\ req[h].phase \in {"mark", "charge", "info", "commit"}
    /\ wip[CommentRow(c)] = "deleted"
    /\ HoldsInfo(h, c) /\ wip[InfoRow(c)] # NoInfo
Marking(h, c) ==
    /\ req[h].phase \in {"charge", "info"} /\ req[h].at = c
    /\ wip[CommentRow(c)] = "deleted"
Unmarked(h, c) ==
    /\ req[h].phase = "delinfo" /\ req[h].target = c
    /\ wip[CommentRow(c)] = "live"
    /\ HoldsInfo(h, c) => wip[InfoRow(c)] = db[InfoRow(c)]
MadeLive(h, c) ==
    /\ req[h].phase \in {"touch", "commit"}
    /\ wip[CommentRow(c)] = "live"
    /\ IF HoldsInfo(h, c) THEN wip[InfoRow(c)] = NoInfo ELSE db[InfoRow(c)] = NoInfo

RowInv(h) == \A c \in Comment :
    /\ HoldsComment(h, c) => Marked(h, c) \/ Marking(h, c) \/ Unmarked(h, c) \/ MadeLive(h, c)
    /\ HoldsInfo(h, c) /\ ~HoldsComment(h, c)
         => /\ req[h].phase \in {"refund", "unmark"} /\ req[h].target = c
            /\ wip[InfoRow(c)] = db[InfoRow(c)]

PhaseInv(h) ==
    /\ req[h].phase \in {"charge", "info"}
         => req[h].at \in Comment /\ HoldsComment(h, req[h].at)
    /\ req[h].phase = "delinfo"
         => req[h].target \in Comment /\ HoldsComment(h, req[h].target)

PairInv == DeletedIffInfo /\ \A h \in Handler : RowInv(h) /\ PhaseInv(h)

PairOK(h) == RowInv(h) /\ PhaseInv(h)

\* What other transactions may do without disturbing where h is: they touch only
\* rows that h does not hold, and leave the comments' rows paired.
LEMMA Others_Pair ==
    ASSUME TypeInv, NEW g \in Handler, PairOK(g),
           req'[g] = req[g],
           \A r \in Row : lock[r] = g <=> lock'[r] = g,
           \A r \in Row : lock[r] = g => wip'[r] = wip[r],
           \A c \in Comment : HoldsInfo(g, c) => db'[InfoRow(c)] = db[InfoRow(c)],
           \A c \in Comment : HoldsComment(g, c) /\ db[InfoRow(c)] = NoInfo
                                => db'[InfoRow(c)] = NoInfo
    PROVE  PairOK(g)'
<1>1. \A c \in Comment : /\ HoldsComment(g, c)' <=> HoldsComment(g, c)
                         /\ HoldsInfo(g, c)' <=> HoldsInfo(g, c)
                         /\ HoldsComment(g, c) => wip'[CommentRow(c)] = wip[CommentRow(c)]
                         /\ HoldsInfo(g, c) => wip'[InfoRow(c)] = wip[InfoRow(c)]
  BY RowsAreDistinct DEF HoldsComment, HoldsInfo
<1>2. PhaseInv(g)'
  BY <1>1 DEF PairOK, PhaseInv
<1>3. ASSUME NEW c \in Comment, HoldsComment(g, c)
      PROVE  (Marked(g, c) \/ Marking(g, c) \/ Unmarked(g, c) \/ MadeLive(g, c))'
  <2>1. Marked(g, c) => Marked(g, c)'
    BY <1>1, <1>3 DEF Marked
  <2>2. Marking(g, c) => Marking(g, c)'
    BY <1>1, <1>3 DEF Marking
  <2>3. Unmarked(g, c) => Unmarked(g, c)'
    BY <1>1, <1>3 DEF Unmarked
  <2>4. MadeLive(g, c) => MadeLive(g, c)'
    BY <1>1, <1>3 DEF MadeLive
  <2> QED BY <1>3, <2>1, <2>2, <2>3, <2>4 DEF PairOK, RowInv
<1>4. ASSUME NEW c \in Comment, HoldsInfo(g, c), ~HoldsComment(g, c)
      PROVE  /\ req'[g].phase \in {"refund", "unmark"} /\ req'[g].target = c
             /\ wip'[InfoRow(c)] = db'[InfoRow(c)]
  BY <1>1, <1>4 DEF PairOK, RowInv
<1>5. RowInv(g)'
  BY <1>1, <1>3, <1>4 DEF RowInv
<1> QED BY <1>2, <1>5 DEF PairOK

\* A statement of h: rows are locked and written by h only, nothing is committed.
Statement(h) ==
    /\ UNCHANGED db
    /\ \A g \in Handler \ {h} : req'[g] = req[g]
    /\ \A r \in Row : \/ lock'[r] = lock[r]
                      \/ lock[r] \in {h, Nobody} /\ lock'[r] = h
    /\ \A r \in Row : lock'[r] # h => wip'[r] = wip[r]

OnlyRequest(h) == \A g \in Handler \ {h} : req'[g] = req[g]

LEMMA Statement_Pair ==
    ASSUME TypeInv, PairInv, NEW h \in Handler, Statement(h), PairOK(h)'
    PROVE  PairInv'
<1>1. DeletedIffInfo'
  BY DEF PairInv, DeletedIffInfo, Is, Statement
<1>2. ASSUME NEW g \in Handler, g # h
      PROVE  PairOK(g)'
  <2>1. /\ req'[g] = req[g]
        /\ \A r \in Row : lock[r] = g <=> lock'[r] = g
        /\ \A r \in Row : lock[r] = g => wip'[r] = wip[r]
    BY <1>2, RequestAssumption DEF Statement
  <2>2. UNCHANGED db /\ PairOK(g)
    BY DEF Statement, PairInv, PairOK
  <2> QED BY <2>1, <2>2, Others_Pair
<1> QED BY <1>1, <1>2 DEF PairInv, PairOK

LEMMA Statement_Write ==
    ASSUME TypeInv, NEW h \in Handler, NEW x \in Row, NEW v,
           Write(h, x, v), UNCHANGED db, OnlyRequest(h)
    PROVE  /\ Statement(h)
           /\ lock'[x] = h /\ wip'[x] = v
           /\ \A r \in Row : r # x => lock'[r] = lock[r] /\ wip'[r] = wip[r]
<1>1. lock \in [Row -> Handler \cup {Nobody}] /\ DOMAIN wip = Row
  BY DEF TypeInv, LocksOK, RowsOK
<1>2. /\ lock[x] \in {h, Nobody} /\ lock' = [lock EXCEPT ![x] = h]
      /\ wip' = [wip EXCEPT ![x] = v]
  BY DEF Write, CanWrite
<1> QED BY <1>1, <1>2 DEF Statement, OnlyRequest

LEMMA Statement_Lock ==
    ASSUME TypeInv, NEW h \in Handler, NEW x \in Row,
           Lock(h, x), UNCHANGED db, OnlyRequest(h)
    PROVE  /\ Statement(h)
           /\ lock'[x] = h /\ UNCHANGED wip
           /\ \A r \in Row : r # x => lock'[r] = lock[r]
<1>1. lock \in [Row -> Handler \cup {Nobody}]
  BY DEF TypeInv, LocksOK
<1>2. lock[x] \in {h, Nobody} /\ lock' = [lock EXCEPT ![x] = h] /\ UNCHANGED wip
  BY DEF Lock, CanWrite
<1> QED BY <1>1, <1>2 DEF Statement, OnlyRequest

LEMMA Statement_Read ==
    ASSUME TypeInv, NEW h \in Handler,
           UNCHANGED <<db, wip, lock>>, OnlyRequest(h)
    PROVE  Statement(h)
  BY DEF Statement, OnlyRequest

\* The fields of a request that a statement leaves as they are.
LEMMA Step_Fields ==
    ASSUME TypeInv, NEW h \in Handler, NEW q, req' = [req EXCEPT ![h] = q]
    PROVE  req'[h] = q
  BY DEF TypeInv, ReqOK

\* The rows of comments and their del_info are left alone.
QuietRows ==
    \A c \in Comment : /\ UNCHANGED <<lock[CommentRow(c)], lock[InfoRow(c)]>>
                       /\ UNCHANGED <<wip[CommentRow(c)], wip[InfoRow(c)]>>

Early == {"idle", "count", "subtree", "bonus", "share", "insert", "locktopic", "recount", "update"}

LEMMA Early_Holds ==
    ASSUME NEW h \in Handler, PairOK(h), req[h].phase \in Early, NEW c \in Comment
    PROVE  ~HoldsComment(h, c) /\ ~HoldsInfo(h, c)
  BY DEF PairOK, RowInv, Marked, Marking, Unmarked, MadeLive, Early

LEMMA Quiet_Pair ==
    ASSUME TypeInv, PairInv, NEW h \in Handler, Statement(h), QuietRows,
           \/ req[h].phase \in Early /\ req'[h].phase \in Early \cup {"mark", "refund", "commit"}
           \/ req[h].phase = "mark" /\ req'[h].phase \in {"mark", "commit"}
           \/ req[h].phase = "charge" /\ req'[h].phase = "info" /\ req'[h].at = req[h].at
           \/ req[h].phase = "refund" /\ req'[h].phase = "unmark" /\ req'[h].target = req[h].target
           \/ req[h].phase = "touch" /\ req'[h].phase = "commit"
    PROVE  PairInv'
<1>0. PairOK(h) /\ UNCHANGED db
  BY DEF PairInv, PairOK, Statement
<1>1. \A c \in Comment : /\ HoldsComment(h, c)' <=> HoldsComment(h, c)
                         /\ HoldsInfo(h, c)' <=> HoldsInfo(h, c)
                         /\ wip'[CommentRow(c)] = wip[CommentRow(c)]
                         /\ wip'[InfoRow(c)] = wip[InfoRow(c)]
  BY DEF QuietRows, HoldsComment, HoldsInfo
<1>2. CASE req[h].phase \in Early /\ req'[h].phase \in Early \cup {"mark", "refund", "commit"}
  <2>1. \A c \in Comment : ~HoldsComment(h, c)' /\ ~HoldsInfo(h, c)'
    BY <1>0, <1>1, <1>2, Early_Holds
  <2>2. RowInv(h)' /\ PhaseInv(h)'
    BY <1>2, <2>1 DEF RowInv, PhaseInv, Early
  <2> QED BY <2>2, Statement_Pair DEF PairOK
<1>3. CASE req[h].phase = "mark" /\ req'[h].phase \in {"mark", "commit"}
  <2>1. PhaseInv(h)'
    BY <1>3 DEF PhaseInv
  <2>2. ASSUME NEW c \in Comment, HoldsComment(h, c)
        PROVE  Marked(h, c)'
    BY <1>0, <1>1, <1>3, <2>2 DEF PairOK, RowInv, Marked, Marking, Unmarked, MadeLive
  <2>3. ASSUME NEW c \in Comment, HoldsInfo(h, c)
        PROVE  HoldsComment(h, c)
    BY <1>0, <1>3, <2>3 DEF PairOK, RowInv
  <2>4. RowInv(h)'
    BY <1>1, <2>2, <2>3 DEF RowInv
  <2> QED BY <2>1, <2>4, Statement_Pair DEF PairOK
<1>4. CASE req[h].phase = "charge" /\ req'[h].phase = "info" /\ req'[h].at = req[h].at
  <2>1. PhaseInv(h)'
    BY <1>0, <1>1, <1>4 DEF PairOK, PhaseInv
  <2>2. ASSUME NEW c \in Comment, HoldsComment(h, c)
        PROVE  Marked(h, c)' \/ Marking(h, c)'
    BY <1>0, <1>1, <1>4, <2>2 DEF PairOK, RowInv, Marked, Marking, Unmarked, MadeLive
  <2>3. ASSUME NEW c \in Comment, HoldsInfo(h, c)
        PROVE  HoldsComment(h, c)
    BY <1>0, <1>4, <2>3 DEF PairOK, RowInv
  <2>4. RowInv(h)'
    BY <1>1, <2>2, <2>3 DEF RowInv
  <2> QED BY <2>1, <2>4, Statement_Pair DEF PairOK
<1>5. CASE /\ req[h].phase = "refund" /\ req'[h].phase = "unmark"
           /\ req'[h].target = req[h].target
  <2>1. PhaseInv(h)'
    BY <1>5 DEF PhaseInv
  <2>2. \A c \in Comment : ~HoldsComment(h, c)
    BY <1>0, <1>5 DEF PairOK, RowInv, Marked, Marking, Unmarked, MadeLive
  <2>3. RowInv(h)'
    BY <1>0, <1>1, <1>5, <2>2 DEF PairOK, RowInv
  <2> QED BY <2>1, <2>3, Statement_Pair DEF PairOK
<1>6. CASE req[h].phase = "touch" /\ req'[h].phase = "commit"
  <2>1. PhaseInv(h)'
    BY <1>6 DEF PhaseInv
  <2>2. ASSUME NEW c \in Comment, HoldsComment(h, c)
        PROVE  MadeLive(h, c)'
    BY <1>0, <1>1, <1>6, <2>2 DEF PairOK, RowInv, Marked, Marking, Unmarked, MadeLive
  <2>3. ASSUME NEW c \in Comment, HoldsInfo(h, c)
        PROVE  HoldsComment(h, c)
    BY <1>0, <1>6, <2>3 DEF PairOK, RowInv
  <2>4. RowInv(h)'
    BY <1>1, <2>2, <2>3 DEF RowInv
  <2> QED BY <2>1, <2>4, Statement_Pair DEF PairOK
<1> QED BY <1>2, <1>3, <1>4, <1>5, <1>6

LEMMA Quiet_Write ==
    ASSUME TypeInv, NEW h \in Handler, NEW x \in Row, NEW v,
           Write(h, x, v) \/ Lock(h, x) \/ UNCHANGED <<wip, lock>>,
           UNCHANGED db, OnlyRequest(h),
           x = TopicRow \/ \E u \in User : x = UserRow(u)
    PROVE  Statement(h) /\ QuietRows
<1>1. \A c \in Comment : CommentRow(c) # x /\ InfoRow(c) # x
  BY RowsAreDistinct
<1>2. CASE Write(h, x, v)
  <2>1. /\ Statement(h)
        /\ \A r \in Row : r # x => lock'[r] = lock[r] /\ wip'[r] = wip[r]
    BY <1>2, Statement_Write
  <2> QED BY <1>1, <2>1, RowsAreDistinct DEF QuietRows
<1>3. CASE Lock(h, x)
  <2>1. /\ Statement(h) /\ UNCHANGED wip
        /\ \A r \in Row : r # x => lock'[r] = lock[r]
    BY <1>3, Statement_Lock
  <2> QED BY <1>1, <2>1, RowsAreDistinct DEF QuietRows
<1>4. CASE UNCHANGED <<wip, lock>>
  BY <1>4, Statement_Read DEF QuietRows
<1> QED BY <1>2, <1>3, <1>4

LEMMA Begin_Pair ==
    ASSUME TypeInv, PairInv, NEW h \in Handler, NEW q, Begin(h, q), q.phase \in Early
    PROVE  PairInv'
<1>0. OnlyRequest(h)
  BY DEF TypeInv, ReqOK, Begin, OnlyRequest
<1>1. Statement(h) /\ QuietRows
  BY <1>0, Statement_Read DEF Begin, QuietRows
<1>2. req[h].phase = "idle" /\ req'[h].phase \in Early
  BY Step_Fields DEF Begin, In
<1> QED BY <1>1, <1>2, Quiet_Pair DEF Early

LEMMA Begins_Pair ==
    ASSUME TypeInv, PairInv, NEW h \in Handler, NEW c \in Comment, NEW u, NEW p, NEW b,
           Delete(h, u, c, p, b) \/ Undelete(h, u, c) \/ Reply(h, c) \/ StatUpdate(h)
    PROVE  PairInv'
<1>1. CASE Delete(h, u, c, p, b)
  <2>1. PICK q : Begin(h, q) /\ q.phase \in {"count", "subtree"}
    <3> DEFINE q == [NoRequest EXCEPT
                       !.phase = IF u \notin Moderator THEN "count" ELSE "subtree",
                       !.target = c, !.actor = u, !.penalty = IF u = Author[c] THEN 0 ELSE p,
                       !.deep = ~(u \notin Moderator) /\ b]
    <3>1. Begin(h, q)
      BY <1>1 DEF Delete
    <3>2. q.phase \in {"count", "subtree"}
      BY DEF NoRequest
    <3> QED BY <3>1, <3>2
  <2> QED BY <2>1, Begin_Pair DEF Early
<1>2. CASE Undelete(h, u, c)
  <2>1. [NoRequest EXCEPT !.phase = "bonus", !.target = c, !.actor = u].phase = "bonus"
    BY DEF NoRequest
  <2> QED BY <1>2, <2>1, Begin_Pair DEF Undelete, Early
<1>3. CASE Reply(h, c)
  <2>1. [NoRequest EXCEPT !.phase = "share", !.target = c].phase = "share"
    BY DEF NoRequest
  <2> QED BY <1>3, <2>1, Begin_Pair DEF Reply, Early
<1>4. CASE StatUpdate(h)
  <2>1. [NoRequest EXCEPT !.phase = "locktopic"].phase = "locktopic"
    BY DEF NoRequest
  <2> QED BY <1>4, <2>1, Begin_Pair DEF StatUpdate, Early
<1> QED BY <1>1, <1>2, <1>3, <1>4

LEMMA Quiet_Statements_Pair ==
    ASSUME TypeInv, PairInv, NEW h \in Handler, NEW c,
           \/ CountReplies(h) \/ ReadSubtree(h) \/ PassOverDeleted(h, c) \/ ChargeAuthor(h)
           \/ LowerCounters(h) \/ Refund(h) \/ TouchTopic(h) \/ ShareParent(h)
           \/ LockTopic(h) \/ CountComments(h) \/ UpdateCounters(h)
    PROVE  PairInv'
<1>1. req[h] \in Request /\ Named(req[h])
  BY Request_Fields
<1>0. OnlyRequest(h)
  BY DEF TypeInv, ReqOK, OnlyRequest, CountReplies, ReadSubtree, PassOverDeleted,
         ChargeAuthor, LowerCounters, Refund, TouchTopic, ShareParent, LockTopic,
         CountComments, UpdateCounters
<1>2. CASE CountReplies(h)
  <2>1. Statement(h) /\ QuietRows
    BY <1>0, <1>2, Statement_Read DEF CountReplies, QuietRows
  <2>2. req[h].phase = "count" /\ req'[h].phase = "mark"
    BY <1>1, <1>2 DEF CountReplies, In, TypeInv, ReqOK, Request
  <2> QED BY <2>1, <2>2, Quiet_Pair DEF Early
<1>3. CASE ReadSubtree(h)
  <2>1. Statement(h) /\ QuietRows
    BY <1>0, <1>3, Statement_Read DEF ReadSubtree, QuietRows
  <2>2. req[h].phase = "subtree" /\ req'[h].phase = "mark"
    BY <1>1, <1>3 DEF ReadSubtree, In, TypeInv, ReqOK, Request
  <2> QED BY <2>1, <2>2, Quiet_Pair DEF Early
<1>4. CASE PassOverDeleted(h, c)
  <2>1. Statement(h) /\ QuietRows
    BY <1>0, <1>4, Statement_Read DEF PassOverDeleted, QuietRows
  <2>2. req[h].phase = "mark" /\ req'[h].phase = "mark"
    BY <1>1, <1>4 DEF PassOverDeleted, In, TypeInv, ReqOK, Request
  <2> QED BY <2>1, <2>2, Quiet_Pair
<1>5. CASE ChargeAuthor(h)
  <2>1. req[h].phase = "charge" /\ Author[req[h].at] \in User /\ UNCHANGED db
    BY <1>1, <1>5, CommentAssumption DEF ChargeAuthor, In, Named
  <2>2. PICK b :
           /\ \/ UNCHANGED <<wip, lock>>
              \/ \E v : Write(h, UserRow(Author[req[h].at]), v)
           /\ req' = [req EXCEPT ![h].phase = "info", ![h].bonus = b]
    BY <1>5 DEF ChargeAuthor
  <2>3. Statement(h) /\ QuietRows
    BY <1>0, <2>1, <2>2, Quiet_Write, RowsAreDistinct
  <2>4. req'[h].phase = "info" /\ req'[h].at = req[h].at
    BY <1>1, <2>2 DEF TypeInv, ReqOK, Request
  <2> QED BY <2>1, <2>3, <2>4, Quiet_Pair
<1>6. CASE LowerCounters(h)
  <2>1. Statement(h) /\ QuietRows
    BY <1>0, <1>6, Quiet_Write, RowsAreDistinct DEF LowerCounters
  <2>2. req[h].phase = "mark" /\ req'[h].phase = "commit"
    BY <1>1, <1>6 DEF LowerCounters, In, TypeInv, ReqOK, Request
  <2> QED BY <2>1, <2>2, Quiet_Pair
<1>7. CASE Refund(h)
  <2>1. req[h].phase = "refund" /\ Author[req[h].target] \in User /\ UNCHANGED db
    BY <1>1, <1>7, CommentAssumption DEF Refund, In, Named
  <2>2. Statement(h) /\ QuietRows
    BY <1>0, <1>7, <2>1, Quiet_Write, RowsAreDistinct DEF Refund
  <2>3. req'[h].phase = "unmark" /\ req'[h].target = req[h].target
    BY <1>1, <1>7 DEF Refund, TypeInv, ReqOK, Request
  <2> QED BY <2>1, <2>2, <2>3, Quiet_Pair
<1>8. CASE TouchTopic(h)
  <2>1. Statement(h) /\ QuietRows
    BY <1>0, <1>8, Quiet_Write, RowsAreDistinct DEF TouchTopic
  <2>2. req[h].phase = "touch" /\ req'[h].phase = "commit"
    BY <1>1, <1>8 DEF TouchTopic, In, TypeInv, ReqOK, Request
  <2> QED BY <2>1, <2>2, Quiet_Pair
<1>9. CASE ShareParent(h)
  <2>1. Statement(h) /\ QuietRows
    BY <1>0, <1>9, Statement_Read DEF ShareParent, QuietRows
  <2>2. req[h].phase = "share" /\ req'[h].phase = "insert"
    BY <1>1, <1>9 DEF ShareParent, In, TypeInv, ReqOK, Request
  <2> QED BY <2>1, <2>2, Quiet_Pair DEF Early
<1>10. CASE LockTopic(h)
  <2>1. Statement(h) /\ QuietRows
    BY <1>0, <1>10, Quiet_Write, RowsAreDistinct DEF LockTopic
  <2>2. req[h].phase = "locktopic" /\ req'[h].phase = "recount"
    BY <1>1, <1>10 DEF LockTopic, In, TypeInv, ReqOK, Request
  <2> QED BY <2>1, <2>2, Quiet_Pair DEF Early
<1>11. CASE CountComments(h)
  <2>1. Statement(h) /\ QuietRows
    BY <1>0, <1>11, Statement_Read DEF CountComments, QuietRows
  <2>2. req[h].phase = "recount" /\ req'[h].phase = "update"
    BY <1>1, <1>11 DEF CountComments, In, TypeInv, ReqOK, Request
  <2> QED BY <2>1, <2>2, Quiet_Pair DEF Early
<1>12. CASE UpdateCounters(h)
  <2>1. Statement(h) /\ QuietRows
    BY <1>0, <1>12, Quiet_Write, RowsAreDistinct DEF UpdateCounters
  <2>2. req[h].phase = "update" /\ req'[h].phase = "commit"
    BY <1>1, <1>12 DEF UpdateCounters, In, TypeInv, ReqOK, Request
  <2> QED BY <2>1, <2>2, Quiet_Pair DEF Early
<1> QED BY <1>2, <1>3, <1>4, <1>5, <1>6, <1>7, <1>8, <1>9, <1>10, <1>11, <1>12

LEMMA MarkDeleted_Pair ==
    ASSUME TypeInv, PairInv, NEW h \in Handler, NEW c \in Comment, MarkDeleted(h, c)
    PROVE  PairInv'
<1>1. req[h] \in Request /\ PairOK(h)
  BY Request_Fields DEF PairInv, PairOK
<1>2. OnlyRequest(h)
  BY DEF TypeInv, ReqOK, MarkDeleted, OnlyRequest
<1>3. /\ Statement(h)
      /\ lock'[CommentRow(c)] = h /\ wip'[CommentRow(c)] = "deleted"
      /\ \A r \in Row : r # CommentRow(c) => lock'[r] = lock[r] /\ wip'[r] = wip[r]
  BY <1>2, RowsAreDistinct, Statement_Write DEF MarkDeleted
<1>4. req[h].phase = "mark" /\ req'[h].phase = "charge" /\ req'[h].at = c
  BY <1>1 DEF MarkDeleted, In, TypeInv, ReqOK, Request
<1>5. HoldsComment(h, c)' /\ Marking(h, c)'
  BY <1>3, <1>4 DEF HoldsComment, Marking
<1>6. ASSUME NEW d \in Comment, d # c, HoldsComment(h, d)'
      PROVE  Marked(h, d)'
  <2>1. /\ lock'[CommentRow(d)] = lock[CommentRow(d)] /\ wip'[CommentRow(d)] = wip[CommentRow(d)]
        /\ lock'[InfoRow(d)] = lock[InfoRow(d)] /\ wip'[InfoRow(d)] = wip[InfoRow(d)]
    BY <1>3, <1>6, RowsAreDistinct
  <2>2. Marked(h, d)
    BY <1>1, <1>4, <1>6, <2>1
       DEF PairOK, RowInv, Marked, Marking, Unmarked, MadeLive, HoldsComment
  <2> QED BY <1>4, <2>1, <2>2 DEF Marked, HoldsInfo
<1>7. ASSUME NEW d \in Comment, HoldsInfo(h, d)'
      PROVE  HoldsComment(h, d)'
  <2>1. lock'[InfoRow(d)] = lock[InfoRow(d)]
    BY <1>3, RowsAreDistinct
  <2>2. HoldsComment(h, d)
    BY <1>1, <1>4, <1>7, <2>1 DEF PairOK, RowInv, HoldsInfo
  <2> QED BY <1>3, <2>2, RowsAreDistinct DEF HoldsComment
<1>8. RowInv(h)' /\ PhaseInv(h)'
  <2>1. RowInv(h)'
    BY <1>5, <1>6, <1>7 DEF RowInv
  <2>2. PhaseInv(h)'
    BY <1>4, <1>5 DEF PhaseInv
  <2> QED BY <2>1, <2>2
<1> QED BY <1>3, <1>8, Statement_Pair DEF PairOK

LEMMA InsertInfo_Pair ==
    ASSUME TypeInv, PairInv, NEW h \in Handler, InsertInfo(h)
    PROVE  PairInv'
<1> DEFINE c == req[h].at
<1>1. req[h] \in Request /\ PairOK(h) /\ req[h].phase = "info" /\ c \in Comment
  BY Request_Fields DEF PairInv, PairOK, InsertInfo, In, Named
<1>2. OnlyRequest(h)
  BY DEF TypeInv, ReqOK, InsertInfo, OnlyRequest
<1>3. /\ Statement(h)
      /\ lock'[InfoRow(c)] = h /\ wip'[InfoRow(c)] = NewInfo(h)
      /\ \A r \in Row : r # InfoRow(c) => lock'[r] = lock[r] /\ wip'[r] = wip[r]
  BY <1>1, <1>2, RowsAreDistinct, Statement_Write DEF InsertInfo
<1>4. req'[h].phase = "mark"
  BY <1>1 DEF InsertInfo, TypeInv, ReqOK, Request
<1>5. NewInfo(h) # NoInfo
  <2>1. req[h].bonus \in 0 .. 20 /\ req[h].actor \in User
    BY <1>1, Request_Fields DEF Named
  <2> QED BY <2>1, NoInfoAssumption DEF NewInfo
<1>6. HoldsComment(h, c)
  BY <1>1 DEF PairOK, PhaseInv
<1>7. ASSUME NEW d \in Comment, HoldsComment(h, d)'
      PROVE  Marked(h, d)'
  <2>1. lock'[CommentRow(d)] = lock[CommentRow(d)] /\ wip'[CommentRow(d)] = wip[CommentRow(d)]
    BY <1>1, <1>3, RowsAreDistinct
  <2>2. Marked(h, d) \/ Marking(h, d)
    BY <1>1, <1>7, <2>1
       DEF PairOK, RowInv, Marked, Marking, Unmarked, MadeLive, HoldsComment
  <2>3. wip[CommentRow(d)] = "deleted"
    BY <2>2 DEF Marked, Marking
  <2>4. CASE d = c
    BY <1>3, <1>4, <1>5, <2>1, <2>3, <2>4 DEF Marked, HoldsInfo
  <2>5. CASE d # c
    <3>1. Marked(h, d)
      BY <2>2, <2>5 DEF Marking
    <3>2. lock'[InfoRow(d)] = lock[InfoRow(d)] /\ wip'[InfoRow(d)] = wip[InfoRow(d)]
      BY <1>1, <1>3, <2>5, RowsAreDistinct
    <3> QED BY <1>4, <2>1, <3>1, <3>2 DEF Marked, HoldsInfo
  <2> QED BY <2>4, <2>5
<1>8. ASSUME NEW d \in Comment, HoldsInfo(h, d)'
      PROVE  HoldsComment(h, d)'
  <2>1. lock'[CommentRow(d)] = lock[CommentRow(d)]
    BY <1>1, <1>3, RowsAreDistinct
  <2>2. HoldsComment(h, d)
    <3>1. CASE d = c
      BY <1>6, <3>1
    <3>2. CASE d # c
      <4>1. HoldsInfo(h, d)
        BY <1>1, <1>3, <1>8, <3>2, RowsAreDistinct DEF HoldsInfo
      <4> QED BY <1>1, <4>1 DEF PairOK, RowInv
    <3> QED BY <3>1, <3>2
  <2> QED BY <2>1, <2>2 DEF HoldsComment
<1>9. RowInv(h)'
  BY <1>7, <1>8 DEF RowInv
<1>10. PhaseInv(h)'
  BY <1>4 DEF PhaseInv
<1> QED BY <1>3, <1>9, <1>10, Statement_Pair DEF PairOK

LEMMA ReadBonus_Pair ==
    ASSUME TypeInv, PairInv, NEW h \in Handler, ReadBonus(h)
    PROVE  PairInv'
<1> DEFINE c == req[h].target
<1>1. req[h] \in Request /\ PairOK(h) /\ req[h].phase = "bonus" /\ c \in Comment
  BY Request_Fields DEF PairInv, PairOK, ReadBonus, In, Named
<1>2. OnlyRequest(h)
  BY DEF TypeInv, ReqOK, ReadBonus, OnlyRequest
<1>3. req'[h].phase = "refund" /\ req'[h].target = c
  BY <1>1 DEF ReadBonus, TypeInv, ReqOK, Request
<1>4. \A d \in Comment : ~HoldsComment(h, d) /\ ~HoldsInfo(h, d)
  BY <1>1, Early_Holds DEF Early
<1>5. CASE db[InfoRow(c)] = NoInfo
  <2>1. Statement(h) /\ QuietRows
    BY <1>2, <1>5, Statement_Read DEF ReadBonus, QuietRows
  <2> QED BY <1>1, <1>3, <2>1, Quiet_Pair DEF Early
<1>6. CASE db[InfoRow(c)] # NoInfo
  <2>1. /\ Statement(h) /\ lock'[InfoRow(c)] = h /\ UNCHANGED <<db, wip>>
        /\ \A r \in Row : r # InfoRow(c) => lock'[r] = lock[r]
    <3>1. Lock(h, InfoRow(c)) /\ UNCHANGED db
      BY <1>6 DEF ReadBonus
    <3> QED BY <1>1, <1>2, <3>1, RowsAreDistinct, Statement_Lock
  <2>2. lock[InfoRow(c)] = Nobody
    <3>1. lock[InfoRow(c)] \in {h, Nobody}
      BY <1>6 DEF ReadBonus, Lock, CanWrite
    <3> QED BY <1>1, <1>4, <3>1 DEF HoldsInfo
  <2>3. wip'[InfoRow(c)] = db'[InfoRow(c)]
    BY <1>1, <2>1, <2>2, RowsAreDistinct DEF TypeInv, LocksOK
  <2>4. \A d \in Comment : ~HoldsComment(h, d)'
    BY <1>1, <1>4, <2>1, RowsAreDistinct DEF HoldsComment
  <2>5. \A d \in Comment : HoldsInfo(h, d)' => d = c
    BY <1>1, <1>4, <2>1, RowsAreDistinct DEF HoldsInfo
  <2>6. RowInv(h)'
    BY <1>3, <2>3, <2>4, <2>5 DEF RowInv
  <2>7. PhaseInv(h)'
    BY <1>3 DEF PhaseInv
  <2> QED BY <2>1, <2>6, <2>7, Statement_Pair DEF PairOK
<1> QED BY <1>5, <1>6

LEMMA Unmark_Pair ==
    ASSUME TypeInv, PairInv, NEW h \in Handler, Unmark(h)
    PROVE  PairInv'
<1>0. PICK c \in Comment : c = req[h].target
  BY Request_Fields DEF Unmark, In, Named
<1>1. req[h] \in Request /\ PairOK(h) /\ req[h].phase = "unmark" /\ c = req[h].target
  BY <1>0, Request_Fields DEF PairInv, PairOK, Unmark, In
<1>2. OnlyRequest(h)
  BY DEF TypeInv, ReqOK, Unmark, OnlyRequest
<1>3. req'[h].phase = "delinfo" /\ req'[h].target = c
  BY <1>1 DEF Unmark, TypeInv, ReqOK, Request
<1>4. /\ Statement(h) /\ UNCHANGED db
      /\ lock'[CommentRow(c)] = h /\ wip'[CommentRow(c)] = "live"
      /\ \A r \in Row : r # CommentRow(c) => lock'[r] = lock[r] /\ wip'[r] = wip[r]
  BY <1>1, <1>2, RowsAreDistinct, Statement_Write DEF Unmark
<1>5. \A d \in Comment : ~HoldsComment(h, d)
  BY <1>1 DEF PairOK, RowInv, Marked, Marking, Unmarked, MadeLive
<1>6. \A d \in Comment : HoldsComment(h, d)' <=> d = c
  BY <1>1, <1>4, <1>5, RowsAreDistinct DEF HoldsComment
<1>7. \A d \in Comment : /\ HoldsInfo(h, d)' <=> HoldsInfo(h, d)
                         /\ wip'[InfoRow(d)] = wip[InfoRow(d)]
  BY <1>1, <1>4, RowsAreDistinct DEF HoldsInfo
<1>8. \A d \in Comment : HoldsInfo(h, d) => d = c /\ wip[InfoRow(d)] = db[InfoRow(d)]
  BY <1>1, <1>5 DEF PairOK, RowInv
<1>9. \A d \in Comment : d = c => Unmarked(h, d)'
  BY <1>1, <1>3, <1>4, <1>7, <1>8 DEF Unmarked
<1>10. RowInv(h)'
  BY <1>6, <1>7, <1>8, <1>9 DEF RowInv
<1>11. PhaseInv(h)'
  BY <1>1, <1>3, <1>6 DEF PhaseInv
<1> QED BY <1>4, <1>10, <1>11, Statement_Pair DEF PairOK

LEMMA DeleteInfo_Pair ==
    ASSUME TypeInv, PairInv, NEW h \in Handler, DeleteInfo(h)
    PROVE  PairInv'
<1>0. PICK c \in Comment : c = req[h].target
  BY Request_Fields DEF DeleteInfo, In, Named
<1>1. req[h] \in Request /\ PairOK(h) /\ req[h].phase = "delinfo" /\ c = req[h].target
  BY <1>0, Request_Fields DEF PairInv, PairOK, DeleteInfo, In
<1>2. OnlyRequest(h)
  BY DEF TypeInv, ReqOK, DeleteInfo, OnlyRequest
<1>3. req'[h].phase = "touch"
  BY <1>1 DEF DeleteInfo, TypeInv, ReqOK, Request
<1>4. HoldsComment(h, c)
  BY <1>1 DEF PairOK, PhaseInv
<1>5. \A d \in Comment : HoldsComment(h, d) => d = c /\ Unmarked(h, d)
  BY <1>1 DEF PairOK, RowInv, Marked, Marking, Unmarked, MadeLive
<1>6. \A d \in Comment : HoldsInfo(h, d) => d = c
  BY <1>1, <1>5 DEF PairOK, RowInv
<1>7. /\ Statement(h) /\ UNCHANGED db
      /\ \A r \in Row : r # InfoRow(c) => lock'[r] = lock[r] /\ wip'[r] = wip[r]
      /\ IF lock'[InfoRow(c)] = h THEN wip'[InfoRow(c)] = NoInfo ELSE db[InfoRow(c)] = NoInfo
  <2>1. CASE db[InfoRow(c)] = NoInfo
    <3>1. UNCHANGED <<db, wip, lock>>
      BY <1>1, <2>1 DEF DeleteInfo
    <3>2. HoldsInfo(h, c) => wip[InfoRow(c)] = db[InfoRow(c)]
      BY <1>4, <1>5, <1>1 DEF Unmarked
    <3> QED BY <1>2, <2>1, <3>1, <3>2, Statement_Read DEF HoldsInfo
  <2>2. CASE db[InfoRow(c)] # NoInfo
    <3>1. Write(h, InfoRow(c), NoInfo) /\ UNCHANGED db
      BY <1>1, <2>2 DEF DeleteInfo
    <3> QED BY <1>1, <1>2, <3>1, RowsAreDistinct, Statement_Write
  <2> QED BY <2>1, <2>2
<1>8. \A d \in Comment : /\ HoldsComment(h, d)' <=> HoldsComment(h, d)
                         /\ wip'[CommentRow(d)] = wip[CommentRow(d)]
  BY <1>1, <1>7, RowsAreDistinct DEF HoldsComment
<1>9. \A d \in Comment : d = c => MadeLive(h, d)'
  BY <1>1, <1>3, <1>4, <1>5, <1>7, <1>8 DEF MadeLive, Unmarked, HoldsInfo
<1>10. \A d \in Comment : HoldsInfo(h, d)' => d = c
  BY <1>1, <1>6, <1>7, RowsAreDistinct DEF HoldsInfo
<1>11. RowInv(h)'
  BY <1>4, <1>5, <1>8, <1>9, <1>10 DEF RowInv
<1>12. PhaseInv(h)'
  BY <1>3 DEF PhaseInv
<1> QED BY <1>7, <1>11, <1>12, Statement_Pair DEF PairOK

-----------------------------------------------------------------------------
(* The targets of requests, and the comments that replies answer *)

Shares(h, c) == ReplyTo[c] = Root \/ (h \in share[ReplyTo[c]] /\ Is(ReplyTo[c], "live"))

TargetInv(h) ==
    /\ req[h].phase \in {"bonus", "refund", "unmark"}
         => req[h].target \in Comment /\ ~Is(req[h].target, "absent")
    /\ req[h].phase \in {"share", "insert"}
         => /\ req[h].target \in Comment /\ Is(req[h].target, "absent")
            /\ \A g \in Handler \ {h} : req[g].target # req[h].target
    /\ req[h].phase = "insert" => Shares(h, req[h].target)

InsertedInv(h) == \A c \in Comment : HoldsComment(h, c) /\ Is(c, "absent") =>
    /\ req[h].phase = "commit" /\ req[h].target = c
    /\ Shares(h, c)
    /\ ReplyTo[c] # Root => ~HoldsComment(h, ReplyTo[c])

ShareInv == \A c \in Comment, h \in Handler :
    h \in share[c] => lock[CommentRow(c)] \in {h, Nobody}

ReplyInv == ShareInv /\ \A h \in Handler : TargetInv(h) /\ InsertedInv(h)

CommentInv == TypeInv /\ PairInv /\ ReplyInv

LEMMA InsertComment_Pair ==
    ASSUME CommentInv, NEW h \in Handler, InsertComment(h)
    PROVE  PairInv'
<1>0. TypeInv /\ PairInv /\ TargetInv(h)
  BY DEF CommentInv, ReplyInv
<1>1. PICK c \in Comment : c = req[h].target
  BY <1>0, Request_Fields DEF InsertComment, In, Named
<1>2. req[h] \in Request /\ PairOK(h) /\ req[h].phase = "insert"
  BY <1>0, Request_Fields DEF PairInv, PairOK, InsertComment, In
<1>3. req'[h].phase = "commit" /\ OnlyRequest(h)
  BY <1>0, <1>2 DEF InsertComment, TypeInv, ReqOK, Request, OnlyRequest
<1>4. /\ UNCHANGED db /\ lock[CommentRow(c)] \in {h, Nobody} /\ lock[TopicRow] \in {h, Nobody}
      /\ lock' = [lock EXCEPT ![CommentRow(c)] = h, ![TopicRow] = h]
      /\ \E stat : wip' = [wip EXCEPT ![CommentRow(c)] = "live", ![TopicRow] = stat]
  BY <1>1 DEF InsertComment, CanWrite
<1>5. lock \in [Row -> Handler \cup {Nobody}] /\ DOMAIN wip = Row
  BY <1>0 DEF TypeInv, LocksOK, RowsOK
<1>6. /\ lock'[CommentRow(c)] = h /\ wip'[CommentRow(c)] = "live"
      /\ \A r \in Row : r # CommentRow(c) /\ r # TopicRow
                          => lock'[r] = lock[r] /\ wip'[r] = wip[r]
      /\ lock'[TopicRow] = h
  BY <1>4, <1>5, RowsAreDistinct
<1>7. Statement(h)
  BY <1>3, <1>4, <1>6 DEF Statement, OnlyRequest
<1>8. \A d \in Comment : ~HoldsComment(h, d) /\ ~HoldsInfo(h, d)
  BY <1>2, Early_Holds DEF Early
<1>9. \A d \in Comment : (HoldsComment(h, d)' <=> d = c) /\ ~HoldsInfo(h, d)'
  BY <1>6, <1>8, RowsAreDistinct DEF HoldsComment, HoldsInfo
<1>10. db'[InfoRow(c)] = NoInfo
  BY <1>0, <1>1, <1>2, <1>4 DEF TargetInv, PairInv, DeletedIffInfo, Is
<1>11. \A d \in Comment : d = c => MadeLive(h, d)'
  BY <1>3, <1>6, <1>9, <1>10 DEF MadeLive
<1>12. RowInv(h)' /\ PhaseInv(h)'
  BY <1>3, <1>9, <1>11 DEF RowInv, PhaseInv
<1> QED BY <1>0, <1>7, <1>12, Statement_Pair DEF PairOK

\* Whoever ends holds nothing any more.
LEMMA End_Facts ==
    ASSUME TypeInv, NEW h \in Handler, EndTransaction(h)
    PROVE  /\ \A r \in Row : lock[r] = h => lock'[r] = Nobody
           /\ \A r \in Row : lock[r] # h => lock'[r] = lock[r]
           /\ req'[h] = NoRequest /\ OnlyRequest(h)
           /\ \A c \in Comment : share'[c] = share[c] \ {h}
  BY RequestAssumption DEF EndTransaction, TypeInv, LocksOK, ReqOK, OnlyRequest

LEMMA Idle_Pair ==
    ASSUME TypeInv, NEW h \in Handler, EndTransaction(h)
    PROVE  PairOK(h)'
<1>1. \A c \in Comment : ~HoldsComment(h, c)' /\ ~HoldsInfo(h, c)'
  BY End_Facts, RowsAreDistinct, RequestAssumption DEF HoldsComment, HoldsInfo
<1>2. req'[h].phase = "idle"
  BY End_Facts DEF NoRequest
<1> QED BY <1>1, <1>2 DEF PairOK, RowInv, PhaseInv

LEMMA Abort_Pair ==
    ASSUME TypeInv, PairInv, NEW h \in Handler, Abort(h)
    PROVE  PairInv'
<1>1. EndTransaction(h) /\ UNCHANGED db /\ wip' = Merge(h, db, wip)
  BY DEF Abort
<1>2. DeletedIffInfo'
  BY <1>1 DEF PairInv, DeletedIffInfo, Is
<1>3. ASSUME NEW g \in Handler, g # h
      PROVE  PairOK(g)'
  <2>1. req'[g] = req[g] /\ PairOK(g)
    BY <1>1, <1>3, End_Facts DEF OnlyRequest, PairInv, PairOK
  <2>2. \A r \in Row : lock[r] = g <=> lock'[r] = g
    BY <1>1, <1>3, End_Facts, RequestAssumption
  <2>3. \A r \in Row : lock[r] = g => wip'[r] = wip[r]
    BY <1>1, <1>3 DEF Merge
  <2> QED BY <1>1, <2>1, <2>2, <2>3, Others_Pair
<1> QED BY <1>1, <1>2, <1>3, Idle_Pair DEF PairInv, PairOK

\* What h commits to a comment is paired.
LEMMA Committed_Pair ==
    ASSUME TypeInv, PairInv, NEW h \in Handler, Commit(h), NEW c \in Comment
    PROVE  /\ HoldsInfo(h, c) => HoldsComment(h, c)
           /\ HoldsComment(h, c) =>
                /\ wip[CommentRow(c)] \in {"live", "deleted"}
                /\ wip[CommentRow(c)] = "deleted"
                     => HoldsInfo(h, c) /\ wip[InfoRow(c)] # NoInfo
                /\ wip[CommentRow(c)] = "live" =>
                     IF HoldsInfo(h, c) THEN wip[InfoRow(c)] = NoInfo ELSE db[InfoRow(c)] = NoInfo
<1>1. req[h].phase = "commit" /\ PairOK(h)
  BY DEF Commit, In, PairInv, PairOK
<1>2. HoldsInfo(h, c) => HoldsComment(h, c)
  BY <1>1 DEF PairOK, RowInv
<1>3. HoldsComment(h, c) => Marked(h, c) \/ MadeLive(h, c)
  BY <1>1 DEF PairOK, RowInv, Marking, Unmarked
<1> QED BY <1>2, <1>3 DEF Marked, MadeLive

LEMMA Commit_Pair ==
    ASSUME TypeInv, PairInv, NEW h \in Handler, Commit(h)
    PROVE  PairInv'
<1>1. EndTransaction(h) /\ UNCHANGED wip /\ db' = Merge(h, wip, db)
  BY DEF Commit
<1>2. \A c \in Comment :
        /\ db'[CommentRow(c)] = IF HoldsComment(h, c) THEN wip[CommentRow(c)] ELSE db[CommentRow(c)]
        /\ db'[InfoRow(c)] = IF HoldsInfo(h, c) THEN wip[InfoRow(c)] ELSE db[InfoRow(c)]
  BY <1>1, RowsAreDistinct DEF Merge, HoldsComment, HoldsInfo
<1>3. DeletedIffInfo'
  <2> SUFFICES ASSUME NEW c \in Comment
               PROVE  db'[CommentRow(c)] = "deleted" <=> db'[InfoRow(c)] # NoInfo
    BY DEF DeletedIffInfo, Is
  <2>1. db[CommentRow(c)] = "deleted" <=> db[InfoRow(c)] # NoInfo
    BY DEF PairInv, DeletedIffInfo, Is
  <2>2. CASE HoldsComment(h, c)
    BY <1>2, <2>1, <2>2, Committed_Pair
  <2>3. CASE ~HoldsComment(h, c)
    BY <1>2, <2>1, <2>3, Committed_Pair
  <2> QED BY <2>2, <2>3
<1>4. ASSUME NEW g \in Handler, g # h
      PROVE  PairOK(g)'
  <2>1. req'[g] = req[g] /\ PairOK(g)
    BY <1>1, <1>4, End_Facts DEF OnlyRequest, PairInv, PairOK
  <2>2. \A r \in Row : lock[r] = g <=> lock'[r] = g
    BY <1>1, <1>4, End_Facts, RequestAssumption
  <2>3. \A c \in Comment : HoldsInfo(g, c) => db'[InfoRow(c)] = db[InfoRow(c)]
    BY <1>2, <1>4 DEF HoldsInfo
  <2>4. \A c \in Comment : HoldsComment(g, c) => ~HoldsInfo(h, c)
    BY <1>4, Committed_Pair DEF HoldsComment
  <2>5. \A c \in Comment : HoldsComment(g, c) /\ db[InfoRow(c)] = NoInfo
                             => db'[InfoRow(c)] = NoInfo
    BY <1>2, <2>4
  <2> QED BY <1>1, <2>1, <2>2, <2>3, <2>5, Others_Pair
<1> QED BY <1>1, <1>3, <1>4, Idle_Pair DEF PairInv, PairOK

ReplyOK(h) == TargetInv(h) /\ InsertedInv(h)

\* A statement of h locks no comment another request shares, and does not take
\* up a target that a reply of another request has.
LEMMA Statement_Reply ==
    ASSUME CommentInv, NEW h \in Handler, Statement(h), UNCHANGED share,
           \A c \in Comment : lock'[CommentRow(c)] = lock[CommentRow(c)] \/ share[c] \subseteq {h},
           \/ req'[h].target = req[h].target
           \/ \A g \in Handler : req[g].phase \in {"share", "insert"}
                                   => req[g].target # req'[h].target,
           ReplyOK(h)'
    PROVE  ReplyInv'
<1>1. UNCHANGED <<db, share>> /\ \A g \in Handler \ {h} : req'[g] = req[g]
  BY DEF Statement
<1>2. ShareInv'
  <2> SUFFICES ASSUME NEW c \in Comment, NEW g \in Handler, g \in share[c]
               PROVE  lock'[CommentRow(c)] \in {g, Nobody}
    BY <1>1 DEF ShareInv
  <2>1. lock[CommentRow(c)] \in {g, Nobody}
    BY DEF CommentInv, ReplyInv, ShareInv
  <2>2. CASE lock'[CommentRow(c)] = lock[CommentRow(c)]
    BY <2>1, <2>2
  <2>3. CASE lock'[CommentRow(c)] # lock[CommentRow(c)]
    <3>1. g = h
      BY <2>3
    <3>2. lock'[CommentRow(c)] = h
      BY <2>3, RowsAreDistinct DEF Statement
    <3> QED BY <3>1, <3>2
  <2> QED BY <2>2, <2>3
<1>3. ASSUME NEW g \in Handler, g # h
      PROVE  ReplyOK(g)'
  <2>1. TargetInv(g) /\ InsertedInv(g) /\ req'[g] = req[g]
    BY <1>1, <1>3 DEF CommentInv, ReplyInv
  <2>2. \A c \in Comment : HoldsComment(g, c)' <=> HoldsComment(g, c)
    BY <1>3, RowsAreDistinct, RequestAssumption DEF Statement, HoldsComment
  <2>3. \A c \in Comment : (Is(c, "absent")' <=> Is(c, "absent")) /\ (Shares(g, c)' <=> Shares(g, c))
    BY <1>1 DEF Is, Shares
  <2>4. InsertedInv(g)'
    <3> SUFFICES ASSUME NEW c \in Comment, HoldsComment(g, c)', Is(c, "absent")'
                 PROVE  /\ req'[g].phase = "commit" /\ req'[g].target = c
                        /\ Shares(g, c)'
                        /\ ReplyTo[c] # Root => ~HoldsComment(g, ReplyTo[c])'
      BY DEF InsertedInv
    <3>1. /\ req[g].phase = "commit" /\ req[g].target = c
          /\ Shares(g, c)
          /\ ReplyTo[c] # Root => ~HoldsComment(g, ReplyTo[c])
      BY <2>1, <2>2, <2>3 DEF InsertedInv
    <3>2. ReplyTo[c] # Root => ReplyTo[c] \in Comment
      BY CommentAssumption
    <3> QED BY <2>1, <2>2, <2>3, <3>1, <3>2
  <2>5. TargetInv(g)'
    <3>1. req[g].phase \in {"bonus", "refund", "unmark"}
            => req[g].target \in Comment /\ ~Is(req[g].target, "absent")'
      BY <2>1, <2>3 DEF TargetInv
    <3>2. req[g].phase \in {"share", "insert"}
            => /\ req[g].target \in Comment /\ Is(req[g].target, "absent")'
               /\ \A f \in Handler \ {g} : req'[f].target # req[g].target
      BY <1>1, <2>1, <2>3 DEF TargetInv
    <3>3. req[g].phase = "insert" => Shares(g, req[g].target)'
      BY <2>1, <2>3 DEF TargetInv
    <3> QED BY <2>1, <3>1, <3>2, <3>3 DEF TargetInv, Is, Shares
  <2> QED BY <2>4, <2>5 DEF ReplyOK
<1> QED BY <1>2, <1>3 DEF ReplyInv, ReplyOK

LEMMA Plain_Reply ==
    ASSUME CommentInv, NEW h \in Handler, Statement(h), UNCHANGED share,
           \A c \in Comment : lock'[CommentRow(c)] = lock[CommentRow(c)],
           req[h].phase # "commit", req'[h].target = req[h].target,
           req'[h].phase \notin {"bonus", "share", "insert"},
           req'[h].phase \in {"refund", "unmark"} => req[h].phase \in {"bonus", "refund"}
    PROVE  ReplyInv'
<1>1. UNCHANGED db /\ TargetInv(h) /\ InsertedInv(h)
  BY DEF Statement, CommentInv, ReplyInv
<1>2. InsertedInv(h)'
  BY <1>1 DEF InsertedInv, HoldsComment, Is
<1>3. TargetInv(h)'
  BY <1>1 DEF TargetInv, Is
<1> QED BY <1>2, <1>3, Statement_Reply DEF ReplyOK

LEMMA Plain_Statements_Reply ==
    ASSUME CommentInv, NEW h \in Handler, NEW c,
           \/ CountReplies(h) \/ ReadSubtree(h) \/ PassOverDeleted(h, c) \/ ChargeAuthor(h)
           \/ InsertInfo(h) \/ LowerCounters(h) \/ ReadBonus(h) \/ Refund(h) \/ DeleteInfo(h)
           \/ TouchTopic(h) \/ LockTopic(h) \/ CountComments(h) \/ UpdateCounters(h)
    PROVE  ReplyInv'
<1>0. TypeInv /\ req[h] \in Request /\ Named(req[h])
  BY Request_Fields DEF CommentInv
<1>1. OnlyRequest(h) /\ UNCHANGED <<db, share>>
  BY <1>0 DEF TypeInv, ReqOK, OnlyRequest, CountReplies, ReadSubtree, PassOverDeleted,
         ChargeAuthor, InsertInfo, LowerCounters, ReadBonus, Refund, DeleteInfo, TouchTopic,
         LockTopic, CountComments, UpdateCounters
<1>2. req'[h].target = req[h].target
  BY <1>0 DEF TypeInv, ReqOK, Request, CountReplies, ReadSubtree, PassOverDeleted,
         ChargeAuthor, InsertInfo, LowerCounters, ReadBonus, Refund, DeleteInfo, TouchTopic,
         LockTopic, CountComments, UpdateCounters
<1>3. /\ req[h].phase # "commit"
      /\ req'[h].phase \notin {"bonus", "share", "insert"}
      /\ req'[h].phase \in {"refund", "unmark"} => req[h].phase \in {"bonus", "refund"}
  BY <1>0 DEF TypeInv, ReqOK, Request, In, CountReplies, ReadSubtree, PassOverDeleted,
         ChargeAuthor, InsertInfo, LowerCounters, ReadBonus, Refund, DeleteInfo, TouchTopic,
         LockTopic, CountComments, UpdateCounters
<1>4. \/ UNCHANGED <<wip, lock>>
      \/ \E x \in Row : /\ \A d \in Comment : x # CommentRow(d)
                        /\ Lock(h, x) \/ \E v : Write(h, x, v)
  <2>1. CASE CountReplies(h) \/ ReadSubtree(h) \/ PassOverDeleted(h, c) \/ CountComments(h)
    BY <2>1 DEF CountReplies, ReadSubtree, PassOverDeleted, CountComments
  <2>2. CASE ChargeAuthor(h)
    <3>1. Author[req[h].at] \in User
      BY <1>0, <2>2, CommentAssumption DEF ChargeAuthor, In, Named
    <3>2. \/ UNCHANGED <<wip, lock>>
          \/ \E v : Write(h, UserRow(Author[req[h].at]), v)
      BY <2>2 DEF ChargeAuthor
    <3> QED BY <3>1, <3>2, RowsAreDistinct
  <2>3. CASE InsertInfo(h)
    <3>1. req[h].at \in Comment /\ Write(h, InfoRow(req[h].at), NewInfo(h))
      BY <1>0, <2>3 DEF InsertInfo, In, Named
    <3> QED BY <3>1, RowsAreDistinct
  <2>4. CASE LowerCounters(h) \/ TouchTopic(h) \/ LockTopic(h) \/ UpdateCounters(h)
    <3>1. UNCHANGED <<wip, lock>> \/ Lock(h, TopicRow) \/ \E v : Write(h, TopicRow, v)
      BY <2>4 DEF LowerCounters, TouchTopic, LockTopic, UpdateCounters
    <3> QED BY <3>1, RowsAreDistinct
  <2>5. CASE ReadBonus(h)
    <3>1. /\ req[h].target \in Comment
          /\ UNCHANGED <<wip, lock>> \/ Lock(h, InfoRow(req[h].target))
      BY <1>0, <2>5 DEF ReadBonus, In, Named
    <3> QED BY <3>1, RowsAreDistinct
  <2>6. CASE Refund(h)
    <3>1. Author[req[h].target] \in User
      BY <1>0, <2>6, CommentAssumption DEF Refund, In, Named
    <3>2. \/ UNCHANGED <<wip, lock>>
          \/ \E v : Write(h, UserRow(Author[req[h].target]), v)
      BY <2>6 DEF Refund
    <3> QED BY <3>1, <3>2, RowsAreDistinct
  <2>7. CASE DeleteInfo(h)
    <3>1. /\ req[h].target \in Comment
          /\ UNCHANGED <<wip, lock>> \/ Write(h, InfoRow(req[h].target), NoInfo)
      BY <1>0, <2>7 DEF DeleteInfo, In, Named
    <3> QED BY <3>1, RowsAreDistinct
  <2> QED BY <2>1, <2>2, <2>3, <2>4, <2>5, <2>6, <2>7
<1>5. CASE UNCHANGED <<wip, lock>>
  BY <1>0, <1>1, <1>2, <1>3, <1>5, Statement_Read, Plain_Reply
<1>6. ASSUME NEW x \in Row, \A d \in Comment : x # CommentRow(d),
             Lock(h, x) \/ \E v : Write(h, x, v)
      PROVE  ReplyInv'
  <2>1. Statement(h) /\ \A r \in Row : r # x => lock'[r] = lock[r]
    <3>1. CASE Lock(h, x)
      BY <1>0, <1>1, <3>1, Statement_Lock
    <3>2. ASSUME NEW v, Write(h, x, v)
          PROVE  Statement(h) /\ \A r \in Row : r # x => lock'[r] = lock[r]
      BY <1>0, <1>1, <3>2, Statement_Write
    <3> QED BY <1>6, <3>1, <3>2
  <2>2. \A d \in Comment : lock'[CommentRow(d)] = lock[CommentRow(d)]
    BY <1>6, <2>1, RowsAreDistinct
  <2> QED BY <1>1, <1>2, <1>3, <2>1, <2>2, Plain_Reply
<1> QED BY <1>4, <1>5, <1>6

LEMMA Begin_Reply ==
    ASSUME CommentInv, NEW h \in Handler, NEW q, Begin(h, q),
           \A g \in Handler : req[g].phase \in {"share", "insert"} => req[g].target # q.target,
           \/ q.phase \in {"count", "subtree", "locktopic"}
           \/ q.phase = "bonus" /\ q.target \in Comment /\ ~Is(q.target, "absent")
           \/ /\ q.phase = "share" /\ q.target \in Comment /\ Is(q.target, "absent")
              /\ \A g \in Handler : req[g].target # q.target
    PROVE  ReplyInv'
<1>1. TypeInv /\ PairOK(h) /\ req[h].phase = "idle"
  BY DEF CommentInv, PairInv, PairOK, Begin, In
<1>2. /\ OnlyRequest(h) /\ req'[h] = q
      /\ UNCHANGED <<db, wip, lock, share>>
  BY <1>1 DEF Begin, TypeInv, ReqOK, OnlyRequest
<1>3. Statement(h)
  BY <1>1, <1>2, Statement_Read
<1>4. \A c \in Comment : ~HoldsComment(h, c)'
  BY <1>1, <1>2, Early_Holds DEF Early, HoldsComment
<1>5. InsertedInv(h)'
  BY <1>4 DEF InsertedInv
<1>6. TargetInv(h)'
  BY <1>2 DEF TargetInv, OnlyRequest, Is
<1> QED BY <1>2, <1>3, <1>5, <1>6, Statement_Reply DEF ReplyOK

LEMMA Begins_Reply ==
    ASSUME CommentInv, NEW h \in Handler, NEW c \in Comment, NEW u, NEW p, NEW b,
           Delete(h, u, c, p, b) \/ Undelete(h, u, c) \/ Reply(h, c) \/ StatUpdate(h)
    PROVE  ReplyInv'
<1>0. \A g \in Handler : req[g].phase \in {"share", "insert"}
                           => req[g].target \in Comment /\ Is(req[g].target, "absent")
  BY DEF CommentInv, ReplyInv, TargetInv
<1>1. CASE Delete(h, u, c, p, b)
  <2>1. PICK q : Begin(h, q) /\ q.phase \in {"count", "subtree"} /\ q.target = c
    <3> DEFINE q == [NoRequest EXCEPT
                       !.phase = IF u \notin Moderator THEN "count" ELSE "subtree",
                       !.target = c, !.actor = u, !.penalty = IF u = Author[c] THEN 0 ELSE p,
                       !.deep = ~(u \notin Moderator) /\ b]
    <3>1. Begin(h, q)
      BY <1>1 DEF Delete
    <3>2. q.phase \in {"count", "subtree"} /\ q.target = c
      BY DEF NoRequest
    <3> QED BY <3>1, <3>2
  <2>2. Is(c, "live")
    BY <1>1 DEF Delete, MayDelete
  <2> QED BY <1>0, <2>1, <2>2, Begin_Reply DEF Is
<1>2. CASE Undelete(h, u, c)
  <2> DEFINE q == [NoRequest EXCEPT !.phase = "bonus", !.target = c, !.actor = u]
  <2>1. q.phase = "bonus" /\ q.target = c
    BY DEF NoRequest
  <2>2. Is(c, "deleted") /\ Begin(h, q)
    BY <1>2 DEF Undelete
  <2> HIDE DEF q
  <2> QED BY <1>0, <2>1, <2>2, Begin_Reply DEF Is
<1>3. CASE Reply(h, c)
  <2> DEFINE q == [NoRequest EXCEPT !.phase = "share", !.target = c]
  <2>1. q.phase = "share" /\ q.target = c
    BY DEF NoRequest
  <2>2. Is(c, "absent") /\ Begin(h, q) /\ \A g \in Handler : req[g].target # c
    BY <1>3 DEF Reply
  <2> HIDE DEF q
  <2> QED BY <2>1, <2>2, Begin_Reply
<1>4. CASE StatUpdate(h)
  <2> DEFINE q == [NoRequest EXCEPT !.phase = "locktopic"]
  <2>1. q.phase = "locktopic" /\ q.target = Root
    BY DEF NoRequest
  <2> QED BY <1>0, <1>4, <2>1, CommentAssumption, Begin_Reply DEF StatUpdate
<1> QED BY <1>1, <1>2, <1>3, <1>4

LEMMA MarkDeleted_Reply ==
    ASSUME CommentInv, NEW h \in Handler, NEW c \in Comment, MarkDeleted(h, c)
    PROVE  ReplyInv'
<1>1. TypeInv /\ TargetInv(h) /\ InsertedInv(h) /\ req[h] \in Request /\ req[h].phase = "mark"
  BY Request_Fields DEF CommentInv, ReplyInv, MarkDeleted, In
<1>2. OnlyRequest(h) /\ req'[h].phase = "charge" /\ req'[h].target = req[h].target
  BY <1>1 DEF TypeInv, ReqOK, Request, MarkDeleted, OnlyRequest
<1>3. /\ Write(h, CommentRow(c), "deleted") /\ UNCHANGED <<db, share>> /\ Is(c, "live")
  BY DEF MarkDeleted
<1>4. /\ Statement(h)
      /\ \A r \in Row : r # CommentRow(c) => lock'[r] = lock[r]
  BY <1>1, <1>2, <1>3, RowsAreDistinct, Statement_Write
<1>5. share[c] \subseteq {h}
  BY <1>3 DEF Write, CanWrite
<1>6. \A d \in Comment : d # c => lock'[CommentRow(d)] = lock[CommentRow(d)]
  BY <1>4, RowsAreDistinct
<1>7. InsertedInv(h)'
  BY <1>1, <1>3, <1>6 DEF InsertedInv, HoldsComment, Is
<1>8. TargetInv(h)'
  BY <1>2 DEF TargetInv
<1> QED BY <1>2, <1>3, <1>4, <1>5, <1>6, <1>7, <1>8, Statement_Reply DEF ReplyOK

LEMMA Unmark_Reply ==
    ASSUME CommentInv, NEW h \in Handler, Unmark(h)
    PROVE  ReplyInv'
<1>1. TypeInv /\ TargetInv(h) /\ InsertedInv(h) /\ req[h] \in Request /\ req[h].phase = "unmark"
  BY Request_Fields DEF CommentInv, ReplyInv, Unmark, In
<1>2. OnlyRequest(h) /\ req'[h].phase = "delinfo" /\ req'[h].target = req[h].target
  BY <1>1 DEF TypeInv, ReqOK, Request, Unmark, OnlyRequest
<1>3. PICK c \in Comment : c = req[h].target
  BY <1>1 DEF TargetInv
<1>4. Write(h, CommentRow(c), "live") /\ UNCHANGED <<db, share>> /\ ~Is(c, "absent")
  BY <1>1, <1>3 DEF Unmark, TargetInv
<1>5. /\ Statement(h)
      /\ \A r \in Row : r # CommentRow(c) => lock'[r] = lock[r]
  BY <1>1, <1>2, <1>4, RowsAreDistinct, Statement_Write
<1>6. share[c] \subseteq {h}
  BY <1>4 DEF Write, CanWrite
<1>7. \A d \in Comment : d # c => lock'[CommentRow(d)] = lock[CommentRow(d)]
  BY <1>5, RowsAreDistinct
<1>8. InsertedInv(h)'
  BY <1>1, <1>4, <1>7 DEF InsertedInv, HoldsComment, Is
<1>9. TargetInv(h)'
  BY <1>2 DEF TargetInv
<1> QED BY <1>2, <1>4, <1>5, <1>6, <1>7, <1>8, <1>9, Statement_Reply DEF ReplyOK

LEMMA ShareParent_Reply ==
    ASSUME CommentInv, NEW h \in Handler, ShareParent(h)
    PROVE  ReplyInv'
<1>1. TypeInv /\ TargetInv(h) /\ InsertedInv(h) /\ req[h] \in Request /\ req[h].phase = "share"
  BY Request_Fields DEF CommentInv, ReplyInv, ShareParent, In
<1>2. /\ OnlyRequest(h) /\ req'[h].phase = "insert" /\ req'[h].target = req[h].target
      /\ UNCHANGED <<db, wip, lock>>
  BY <1>1 DEF TypeInv, ReqOK, Request, ShareParent, OnlyRequest
<1>3. PICK c \in Comment : c = req[h].target
  BY <1>1 DEF TargetInv
<1>4. ReplyTo[c] \in Comment \cup {Root} /\ share \in [Comment -> SUBSET Handler]
  BY <1>1, CommentAssumption DEF TypeInv, LocksOK
<1>5. /\ Shares(h, c)'
      /\ \A d \in Comment, g \in Handler :
           g \in share'[d] <=> g \in share[d] \/ (g = h /\ d = ReplyTo[c])
  <2>1. CASE ReplyTo[c] = Root
    BY <1>3, <2>1, CommentAssumption DEF ShareParent, Shares
  <2>2. CASE ReplyTo[c] # Root
    <3>1. share' = [share EXCEPT ![ReplyTo[c]] = @ \cup {h}] /\ Is(ReplyTo[c], "live")
      BY <1>3, <2>2 DEF ShareParent
    <3> QED BY <1>2, <1>4, <2>2, <3>1 DEF Shares, Is
  <2> QED BY <2>1, <2>2
<1>6. ShareInv'
  <2> SUFFICES ASSUME NEW d \in Comment, NEW g \in Handler, g \in share'[d]
               PROVE  lock[CommentRow(d)] \in {g, Nobody}
    BY <1>2 DEF ShareInv
  <2>1. CASE g \in share[d]
    BY <2>1 DEF CommentInv, ReplyInv, ShareInv
  <2>2. CASE g = h /\ d = ReplyTo[c]
    BY <1>3, <2>2, CommentAssumption DEF ShareParent
  <2> QED BY <1>5, <2>1, <2>2
<1>7. ASSUME NEW g \in Handler
      PROVE  InsertedInv(g)'
  <2>1. InsertedInv(g) /\ (req[g].phase = "commit" => req'[g] = req[g])
    BY <1>1, <1>2 DEF CommentInv, ReplyInv, OnlyRequest
  <2> SUFFICES ASSUME NEW d \in Comment, HoldsComment(g, d)', Is(d, "absent")'
               PROVE  /\ req'[g].phase = "commit" /\ req'[g].target = d
                      /\ Shares(g, d)'
                      /\ ReplyTo[d] # Root => ~HoldsComment(g, ReplyTo[d])'
    BY DEF InsertedInv
  <2>2. HoldsComment(g, d) /\ Is(d, "absent")
    BY <1>2 DEF HoldsComment, Is
  <2>3. /\ req[g].phase = "commit" /\ req[g].target = d /\ Shares(g, d)
        /\ ReplyTo[d] # Root => ~HoldsComment(g, ReplyTo[d])
    BY <2>1, <2>2 DEF InsertedInv
  <2>4. Shares(g, d)'
    BY <1>2, <1>5, <2>3, CommentAssumption DEF Shares, Is
  <2> QED BY <1>2, <2>1, <2>3, <2>4 DEF HoldsComment
<1>8. \A f \in Handler : req'[f].target = req[f].target
  BY <1>2 DEF OnlyRequest
<1>9. TargetInv(h)'
  BY <1>1, <1>2, <1>3, <1>5, <1>8 DEF TargetInv, Is
<1>10. ASSUME NEW g \in Handler, g # h
       PROVE  TargetInv(g)'
  <2>1. TargetInv(g) /\ req'[g] = req[g]
    BY <1>2, <1>10 DEF CommentInv, ReplyInv, OnlyRequest
  <2>2. req[g].phase = "insert" => req[g].target \in Comment /\ Shares(g, req[g].target)
    BY <2>1 DEF TargetInv
  <2>3. \A d \in Comment : Shares(g, d) => Shares(g, d)'
    BY <1>2, <1>5, CommentAssumption DEF Shares, Is
  <2>4. ASSUME req[g].phase = "insert"
        PROVE  Shares(g, req[g].target)'
    <3>1. PICK c1 \in Comment : c1 = req[g].target
      BY <2>2, <2>4
    <3>2. Shares(g, c1)'
      BY <2>2, <2>3, <2>4, <3>1
    <3> QED BY <2>1, <3>1, <3>2 DEF Shares, Is
  <2> QED BY <1>2, <1>8, <2>1, <2>4 DEF TargetInv, Is, Shares
<1> QED BY <1>6, <1>7, <1>9, <1>10 DEF ReplyInv

LEMMA InsertComment_Reply ==
    ASSUME CommentInv, NEW h \in Handler, InsertComment(h)
    PROVE  ReplyInv'
<1>1. TypeInv /\ TargetInv(h) /\ PairOK(h) /\ req[h] \in Request /\ req[h].phase = "insert"
  BY Request_Fields DEF CommentInv, ReplyInv, PairInv, PairOK, InsertComment, In
<1>2. /\ OnlyRequest(h) /\ req'[h].phase = "commit" /\ req'[h].target = req[h].target
      /\ UNCHANGED <<db, share>>
  BY <1>1 DEF TypeInv, ReqOK, Request, InsertComment, OnlyRequest
<1>3. PICK c \in Comment : c = req[h].target
  BY <1>1 DEF TargetInv
<1>4. /\ lock[CommentRow(c)] \in {h, Nobody} /\ lock[TopicRow] \in {h, Nobody}
      /\ lock' = [lock EXCEPT ![CommentRow(c)] = h, ![TopicRow] = h]
      /\ \E stat : wip' = [wip EXCEPT ![CommentRow(c)] = "live", ![TopicRow] = stat]
      /\ share[c] \subseteq {h}
  BY <1>3 DEF InsertComment, CanWrite
<1>5. /\ lock'[CommentRow(c)] = h /\ lock'[TopicRow] = h
      /\ \A r \in Row : r # CommentRow(c) /\ r # TopicRow
                          => lock'[r] = lock[r] /\ wip'[r] = wip[r]
  BY <1>1, <1>4, RowsAreDistinct DEF TypeInv, LocksOK, RowsOK
<1>6. Statement(h)
  BY <1>2, <1>4, <1>5 DEF Statement, OnlyRequest
<1>7. \A d \in Comment : d # c => lock'[CommentRow(d)] = lock[CommentRow(d)]
  BY <1>5, RowsAreDistinct
<1>8. \A d \in Comment : HoldsComment(h, d)' => d = c
  BY <1>1, <1>7, Early_Holds DEF Early, HoldsComment
<1>9. Is(c, "absent") /\ Shares(h, c)
  BY <1>1, <1>3 DEF TargetInv
<1>10. ReplyTo[c] # Root => ReplyTo[c] \in Comment /\ ReplyTo[c] # c
  BY <1>9, CommentAssumption DEF Shares, Is
<1>11. InsertedInv(h)'
  <2> SUFFICES ASSUME NEW d \in Comment, HoldsComment(h, d)'
               PROVE  /\ req'[h].phase = "commit" /\ req'[h].target = d
                      /\ Shares(h, d)'
                      /\ ReplyTo[d] # Root => ~HoldsComment(h, ReplyTo[d])'
    BY DEF InsertedInv
  <2>1. d = c
    BY <1>8
  <2>2. Shares(h, c)'
    BY <1>2, <1>9 DEF Shares, Is
  <2>3. ReplyTo[c] # Root => ~HoldsComment(h, ReplyTo[c])'
    BY <1>8, <1>10
  <2> QED BY <1>2, <1>3, <2>1, <2>2, <2>3
<1>12. TargetInv(h)'
  BY <1>2 DEF TargetInv
<1> QED BY <1>2, <1>4, <1>6, <1>7, <1>11, <1>12, Statement_Reply DEF ReplyOK

\* A transaction that ends brings no comment back to absent, and takes from
\* nobody the parent shared or the comment about to be inserted.
LEMMA End_Reply ==
    ASSUME CommentInv, NEW h \in Handler, EndTransaction(h),
           \A c \in Comment : \/ db'[CommentRow(c)] = db[CommentRow(c)]
                              \/ HoldsComment(h, c) /\ db'[CommentRow(c)] # "absent"
    PROVE  ReplyInv'
<1>1. TypeInv /\ ShareInv /\ InsertedInv(h)
  BY DEF CommentInv, ReplyInv
<1>2. /\ \A r \in Row : lock[r] = h => lock'[r] = Nobody
      /\ \A r \in Row : lock[r] # h => lock'[r] = lock[r]
      /\ req'[h] = NoRequest /\ OnlyRequest(h)
      /\ \A c \in Comment : share'[c] = share[c] \ {h}
  BY <1>1, End_Facts
<1>3. req'[h].phase = "idle" /\ req'[h].target = Root
  BY <1>2 DEF NoRequest
<1>4. ShareInv'
  BY <1>1, <1>2, RowsAreDistinct DEF ShareInv
<1>5. ReplyOK(h)'
  <2>1. \A c \in Comment : ~HoldsComment(h, c)'
    BY <1>1, End_Facts, RowsAreDistinct, RequestAssumption DEF HoldsComment
  <2> QED BY <1>3, <2>1 DEF ReplyOK, TargetInv, InsertedInv
<1>6. ASSUME NEW g \in Handler, g # h
      PROVE  ReplyOK(g)'
  <2>1. TargetInv(g) /\ InsertedInv(g) /\ req'[g] = req[g]
    BY <1>2, <1>6 DEF CommentInv, ReplyInv, OnlyRequest
  <2>2. \A c \in Comment : HoldsComment(g, c)' <=> HoldsComment(g, c)
    BY <1>2, <1>6, RowsAreDistinct, RequestAssumption DEF HoldsComment
  <2>3. \A c \in Comment : Shares(g, c) => Shares(g, c)'
    <3> SUFFICES ASSUME NEW c \in Comment, ReplyTo[c] \in Comment, Shares(g, c)
                 PROVE  g \in share'[ReplyTo[c]] /\ Is(ReplyTo[c], "live")'
      BY CommentAssumption DEF Shares
    <3>1. g \in share[ReplyTo[c]] /\ Is(ReplyTo[c], "live")
      BY CommentAssumption DEF Shares
    <3>2. lock[CommentRow(ReplyTo[c])] \in {g, Nobody}
      BY <1>1, <3>1 DEF ShareInv
    <3>3. ~HoldsComment(h, ReplyTo[c])
      BY <1>6, <3>2, RequestAssumption DEF HoldsComment
    <3> QED BY <1>2, <1>6, <3>1, <3>3 DEF Is
  <2>4. InsertedInv(g)'
    <3> SUFFICES ASSUME NEW c \in Comment, HoldsComment(g, c)', Is(c, "absent")'
                 PROVE  /\ req'[g].phase = "commit" /\ req'[g].target = c
                        /\ Shares(g, c)'
                        /\ ReplyTo[c] # Root => ~HoldsComment(g, ReplyTo[c])'
      BY DEF InsertedInv
    <3>1. HoldsComment(g, c) /\ Is(c, "absent")
      BY <1>6, <2>2 DEF Is, HoldsComment
    <3>2. /\ req[g].phase = "commit" /\ req[g].target = c /\ Shares(g, c)
          /\ ReplyTo[c] # Root => ~HoldsComment(g, ReplyTo[c])
      BY <2>1, <3>1 DEF InsertedInv
    <3>3. ReplyTo[c] # Root => ReplyTo[c] \in Comment
      BY CommentAssumption
    <3> QED BY <2>1, <2>2, <2>3, <3>2, <3>3
  <2>5. TargetInv(g)'
    <3>1. req[g].phase \in {"bonus", "refund", "unmark"}
            => req[g].target \in Comment /\ db'[CommentRow(req[g].target)] # "absent"
      BY <2>1 DEF TargetInv, Is
    <3>2. ASSUME req[g].phase \in {"share", "insert"}
          PROVE  /\ req[g].target \in Comment /\ db'[CommentRow(req[g].target)] = "absent"
                 /\ \A f \in Handler \ {g} : req'[f].target # req[g].target
      <4>1. /\ req[g].target \in Comment /\ Is(req[g].target, "absent")
            /\ \A f \in Handler \ {g} : req[f].target # req[g].target
        BY <2>1, <3>2 DEF TargetInv
      <4>2. ~HoldsComment(h, req[g].target)
        BY <1>1, <1>6, <4>1 DEF InsertedInv
      <4>3. \A f \in Handler \ {g} : req'[f].target # req[g].target
        BY <1>2, <1>3, <4>1, CommentAssumption DEF OnlyRequest
      <4> QED BY <4>1, <4>2, <4>3 DEF Is
    <3>3. ASSUME req[g].phase = "insert"
          PROVE  Shares(g, req[g].target)'
      <4>1. PICK c \in Comment : c = req[g].target
        BY <2>1, <3>3 DEF TargetInv
      <4>2. Shares(g, c)'
        BY <2>1, <2>3, <3>3, <4>1 DEF TargetInv
      <4> QED BY <2>1, <4>1, <4>2 DEF Shares, Is
    <3> QED BY <2>1, <3>1, <3>2, <3>3 DEF TargetInv, Is, Shares
  <2> QED BY <2>4, <2>5 DEF ReplyOK
<1> QED BY <1>4, <1>5, <1>6 DEF ReplyInv, ReplyOK

LEMMA Ends_Reply ==
    ASSUME CommentInv, NEW h \in Handler, Commit(h) \/ Abort(h)
    PROVE  ReplyInv'
<1>1. CASE Abort(h)
  BY <1>1, End_Reply DEF Abort
<1>2. CASE Commit(h)
  <2>1. TypeInv /\ PairInv
    BY DEF CommentInv
  <2>2. EndTransaction(h) /\ db' = Merge(h, wip, db)
    BY <1>2 DEF Commit
  <2>3. \A c \in Comment : HoldsComment(h, c) => wip[CommentRow(c)] # "absent"
    BY <1>2, <2>1, Committed_Pair
  <2>4. \A c \in Comment : \/ db'[CommentRow(c)] = db[CommentRow(c)]
                           \/ HoldsComment(h, c) /\ db'[CommentRow(c)] # "absent"
    BY <2>2, <2>3, RowsAreDistinct DEF Merge, HoldsComment
  <2> QED BY <2>2, <2>4, End_Reply
<1> QED BY <1>1, <1>2

-----------------------------------------------------------------------------
(* The whole invariant *)

LEMMA Init_Inv == Init => CommentInv
<1> SUFFICES ASSUME Init PROVE CommentInv
  OBVIOUS
<1>1. TypeInv
  BY Init_Type
<1>2. \A c \in Comment : db[CommentRow(c)] \in {"live", "absent"} /\ db[InfoRow(c)] = NoInfo
  <2>1. PICK live \in SUBSET Comment :
           db = [r \in Row |->
                  CASE r[1] = "comment"  -> IF r[2] \in live THEN "live" ELSE "absent"
                    [] r[1] = "del_info" -> NoInfo
                    [] r[1] = "user"     -> 0
                    [] r[1] = "topic"    -> [stat1 |-> Cardinality(live),
                                             stat3 |-> Cardinality(live)]]
    BY DEF Init
  <2>2. \A c \in Comment : db[InfoRow(c)] = NoInfo
    BY <2>1, RowsAreDistinct DEF InfoRow
  <2>3. \A c \in Comment : db[CommentRow(c)] = IF c \in live THEN "live" ELSE "absent"
    BY <2>1, RowsAreDistinct DEF CommentRow
  <2> QED BY <2>2, <2>3
<1>3. DeletedIffInfo
  BY <1>2 DEF DeletedIffInfo, Is
<1>4. \A h \in Handler : req[h].phase = "idle" /\ req[h].target = Root
  BY DEF Init, NoRequest
<1>5. \A h \in Handler, c \in Comment : ~HoldsComment(h, c) /\ ~HoldsInfo(h, c)
  BY RowsAreDistinct, RequestAssumption DEF Init, HoldsComment, HoldsInfo
<1>6. PairInv
  BY <1>3, <1>4, <1>5 DEF PairInv, RowInv, PhaseInv
<1>7. ReplyInv
  BY <1>4, <1>5 DEF Init, ReplyInv, ShareInv, TargetInv, InsertedInv
<1> QED BY <1>1, <1>6, <1>7 DEF CommentInv

LEMMA Stutter_Inv ==
    ASSUME CommentInv, UNCHANGED vars
    PROVE  CommentInv'
<1>1. TypeInv'
  BY Step_Type DEF CommentInv
<1>2. PairInv'
  BY DEF CommentInv, PairInv, DeletedIffInfo, RowInv, PhaseInv, Marked, Marking, Unmarked,
         MadeLive, HoldsComment, HoldsInfo, Is, vars
<1>3. ReplyInv'
  BY DEF CommentInv, ReplyInv, ShareInv, TargetInv, InsertedInv, Shares, HoldsComment, Is, vars
<1> QED BY <1>1, <1>2, <1>3 DEF CommentInv

LEMMA Step_Inv == CommentInv /\ [Next]_vars => CommentInv'
<1> SUFFICES ASSUME CommentInv, [Next]_vars PROVE CommentInv'
  OBVIOUS
<1>1. TypeInv' /\ TypeInv /\ PairInv
  BY Step_Type DEF CommentInv
<1>2. CASE UNCHANGED vars
  BY <1>2, Stutter_Inv
<1>3. ASSUME NEW h \in Handler, NEW c \in Comment, NEW u, NEW p, NEW b,
             Delete(h, u, c, p, b) \/ Undelete(h, u, c) \/ Reply(h, c)
      PROVE  PairInv' /\ ReplyInv'
  BY <1>1, <1>3, Begins_Pair, Begins_Reply
<1>4. ASSUME NEW h \in Handler, StatUpdate(h)
      PROVE  PairInv' /\ ReplyInv'
  <2> DEFINE r == [NoRequest EXCEPT !.phase = "locktopic"]
  <2>1. Begin(h, r)
    BY <1>4 DEF StatUpdate
  <2>2. r.phase = "locktopic" /\ r.target = Root
    BY DEF NoRequest
  <2>3. \A g \in Handler : req[g].phase \in {"share", "insert"} => req[g].target # Root
    BY CommentAssumption DEF CommentInv, ReplyInv, TargetInv
  <2> HIDE DEF r
  <2> QED BY <1>1, <2>1, <2>2, <2>3, Begin_Pair, Begin_Reply DEF Early
<1>5. ASSUME NEW h \in Handler, NEW c \in Comment, MarkDeleted(h, c) \/ PassOverDeleted(h, c)
      PROVE  PairInv' /\ ReplyInv'
  BY <1>1, <1>5, MarkDeleted_Pair, MarkDeleted_Reply, Quiet_Statements_Pair,
     Plain_Statements_Reply
<1>6. ASSUME NEW h \in Handler, InsertInfo(h) \/ ReadBonus(h) \/ DeleteInfo(h)
      PROVE  PairInv' /\ ReplyInv'
  <2>1. PICK c : c \in Comment
    BY <1>1, <1>6, Request_Fields DEF InsertInfo, ReadBonus, DeleteInfo, In, Named
  <2> QED BY <1>1, <1>6, <2>1, InsertInfo_Pair, ReadBonus_Pair, DeleteInfo_Pair,
             Plain_Statements_Reply
<1>7. ASSUME NEW h \in Handler,
             \/ CountReplies(h) \/ ReadSubtree(h) \/ ChargeAuthor(h) \/ LowerCounters(h)
             \/ Refund(h) \/ TouchTopic(h) \/ LockTopic(h) \/ CountComments(h)
             \/ UpdateCounters(h)
      PROVE  PairInv' /\ ReplyInv'
  BY <1>1, <1>7, Quiet_Statements_Pair, Plain_Statements_Reply
<1>8. ASSUME NEW h \in Handler, ShareParent(h) \/ InsertComment(h) \/ Unmark(h)
      PROVE  PairInv' /\ ReplyInv'
  <2>1. PICK c : c \in Comment
    BY <1>1, <1>8, Request_Fields DEF ShareParent, InsertComment, Unmark, In, Named
  <2> QED BY <1>1, <1>8, <2>1, Quiet_Statements_Pair, ShareParent_Reply, InsertComment_Pair,
             InsertComment_Reply, Unmark_Pair, Unmark_Reply
<1>9. ASSUME NEW h \in Handler, Commit(h) \/ Abort(h)
      PROVE  PairInv' /\ ReplyInv'
  BY <1>1, <1>9, Commit_Pair, Abort_Pair, Ends_Reply
<1> QED BY <1>1, <1>2, <1>3, <1>4, <1>5, <1>6, <1>7, <1>8, <1>9 DEF Next, CommentInv

\* However many requests delete and restore the same comments at once, and
\* wherever they are aborted, a comment committed as deleted has its del_info row
\* and a comment not deleted has none (comment_deletion_repository.rs:330-640): the
\* row of the comment, locked by the first UPDATE, keeps the second one away.
THEOREM DeletedHasInfo == Spec => []DeletedIffInfo
<1>1. CommentInv => DeletedIffInfo
  BY DEF CommentInv, PairInv
<1> QED BY <1>1, Init_Inv, Step_Inv, PTL DEF Spec

LEMMA Reply_To_Live ==
    ASSUME CommentInv, [Next]_vars, NEW c \in Comment,
           Is(c, "absent"), db'[CommentRow(c)] # "absent", ReplyTo[c] # Root
    PROVE  db'[CommentRow(ReplyTo[c])] = "live"
<1>1. PICK h \in Handler : Commit(h)
  <2>1. db' # db
    BY DEF Is
  <2>2. PICK h \in Handler :
           \/ Commit(h)
           \/ UNCHANGED db
    <3>1. ASSUME NEW g \in Handler,
                 \/ \E d \in Comment, u \in User, p \in Penalty, b \in BOOLEAN :
                      Delete(g, u, d, p, b)
                 \/ \E d \in Comment, u \in User : Undelete(g, u, d)
                 \/ \E d \in Comment : Reply(g, d)
                 \/ StatUpdate(g)
          PROVE  UNCHANGED db
      BY <3>1 DEF Delete, Undelete, Reply, StatUpdate, Begin
    <3>2. ASSUME NEW g \in Handler,
                 \/ \E d \in Comment : MarkDeleted(g, d) \/ PassOverDeleted(g, d)
                 \/ CountReplies(g) \/ ReadSubtree(g) \/ ChargeAuthor(g) \/ InsertInfo(g)
                 \/ LowerCounters(g) \/ ReadBonus(g) \/ Refund(g) \/ Unmark(g)
                 \/ DeleteInfo(g) \/ TouchTopic(g) \/ ShareParent(g) \/ InsertComment(g)
                 \/ LockTopic(g) \/ CountComments(g) \/ UpdateCounters(g) \/ Abort(g)
          PROVE  UNCHANGED db
      BY <3>2 DEF MarkDeleted, PassOverDeleted, CountReplies, ReadSubtree, ChargeAuthor,
             InsertInfo, LowerCounters, ReadBonus, Refund, Unmark, DeleteInfo, TouchTopic,
             ShareParent, InsertComment, LockTopic, CountComments, UpdateCounters, Abort
    <3> QED BY <2>1, <3>1, <3>2 DEF Next, vars
  <2> QED BY <2>1, <2>2
<1>2. \A d \in Comment : db'[CommentRow(d)] = IF HoldsComment(h, d) THEN wip[CommentRow(d)]
                                              ELSE db[CommentRow(d)]
  BY <1>1, RowsAreDistinct DEF Commit, Merge, HoldsComment
<1>3. HoldsComment(h, c)
  BY <1>2 DEF Is
<1>4. Shares(h, c) /\ ~HoldsComment(h, ReplyTo[c])
  BY <1>3 DEF CommentInv, ReplyInv, InsertedInv
<1>5. ReplyTo[c] \in Comment /\ Is(ReplyTo[c], "live")
  BY <1>4, CommentAssumption DEF Shares
<1> QED BY <1>2, <1>4, <1>5 DEF Is

\* A reply becomes visible only under a comment that is live at that moment, for
\* any number of deletions racing it: the parent stays locked FOR SHARE from the
\* check to the commit (insert_comment, routes/comments.rs:3099-3116).
THEOREM RepliesAreToLive == Spec => NoReplyToDeleted
<1>1. CommentInv /\ [Next]_vars =>
        [\A c \in Comment : Is(c, "absent") /\ db'[CommentRow(c)] # "absent"
           => ReplyTo[c] = Root \/ db'[CommentRow(ReplyTo[c])] = "live"]_vars
  BY Reply_To_Live
<1> QED BY <1>1, Init_Inv, Step_Inv, PTL DEF Spec, NoReplyToDeleted

-----------------------------------------------------------------------------
(* Sums over finite sets *)

\* Induction as a fact about sets: the natural numbers that have what the next
\* one inherits, and the subsets that have what they inherit from all smaller ones.
LEMMA NaturalsReached ==
    ASSUME NEW Q, 0 \in Q, \A n \in Nat : n \in Q => n + 1 \in Q
    PROVE  \A n \in Nat : n \in Q
<1> DEFINE Bad == {n \in Nat : n \notin Q}
<1> SUFFICES ASSUME Bad # {} PROVE FALSE
  OBVIOUS
<1>1. PICK x \in Bad : \A y \in Bad : ~(<<y, x>> \in OpToRel(<, Nat))
  BY WFMin, NatLessThanWellFounded
<1>2. \A y \in Bad : ~(y < x)
  BY <1>1 DEF OpToRel
<1>3. x \in Nat /\ x \notin Q /\ x # 0
  OBVIOUS
<1>4. x - 1 \in Nat /\ x - 1 < x /\ (x - 1) + 1 = x
  BY <1>3
<1>5. x - 1 \in Q
  BY <1>2, <1>4
<1> QED
  BY <1>3, <1>4, <1>5

LEMMA SubsetsReached ==
    ASSUME NEW S, IsFiniteSet(S), NEW Q, {} \in Q,
           \A T \in SUBSET S : T # {} /\ (\A x \in T : T \ {x} \in Q) => T \in Q
    PROVE  \A T \in SUBSET S : T \in Q
<1> DEFINE Small == {n \in Nat : \A T \in SUBSET S : Cardinality(T) <= n => T \in Q}
<1>0. \A T \in SUBSET S : IsFiniteSet(T) /\ Cardinality(T) \in Nat
  BY FS_Subset, FS_CardinalityType
<1>1. \A T \in SUBSET S : \A x \in T : Cardinality(T \ {x}) = Cardinality(T) - 1
  BY <1>0, FS_RemoveElement
<1>2. \A T \in SUBSET S : Cardinality(T) = 0 => T = {}
  BY <1>0, FS_EmptySet
<1>3. 0 \in Small
  <2>1. \A T \in SUBSET S : Cardinality(T) <= 0 => T = {}
    BY <1>0, <1>2
  <2> QED
    BY <2>1
<1>4. ASSUME NEW n \in Nat, n \in Small PROVE n + 1 \in Small
  <2> SUFFICES ASSUME NEW T \in SUBSET S, Cardinality(T) <= n + 1 PROVE T \in Q
    OBVIOUS
  <2>1. \A x \in T : T \ {x} \in SUBSET S /\ Cardinality(T \ {x}) <= n
    BY <1>0, <1>1
  <2>2. \A x \in T : T \ {x} \in Q
    BY <1>4, <2>1
  <2> QED
    BY <2>2
<1>5. \A n \in Nat : n \in Small
  <2> HIDE DEF Small
  <2> QED BY <1>3, <1>4, NaturalsReached
<1> QED
  BY <1>0, <1>5

\* The sum of w over the subsets of S, as a fold takes them apart.
Any(s) == CHOOSE x \in s : TRUE
IsSum(g, S, w) ==
    g = [s \in SUBSET S |-> IF s = {} THEN 0 ELSE w[Any(s)] + g[s \ {Any(s)}]]
Sum(S, w) == (CHOOSE g : IsSum(g, S, w))[S]

LEMMA AnyOf == \A s : s # {} => Any(s) \in s
  BY DEF Any

LEMMA SumExists ==
    ASSUME NEW S, IsFiniteSet(S), NEW w
    PROVE  \E g : IsSum(g, S, w)
<1> DEFINE F(f, s) == IF s = {} THEN 0 ELSE w[Any(s)] + f[s \ {Any(s)}]
           Q == {n \in Nat : \E f : \A s \in SUBSET S : Cardinality(s) <= n => f[s] = F(f, s)}
<1>0. \A s \in SUBSET S : IsFiniteSet(s) /\ Cardinality(s) \in Nat /\ Cardinality(s) <= Cardinality(S)
  BY FS_Subset, FS_CardinalityType
<1>1. \A s \in SUBSET S : s # {} => /\ s \ {Any(s)} \in SUBSET S
                                    /\ Cardinality(s \ {Any(s)}) = Cardinality(s) - 1
  BY <1>0, FS_RemoveElement, AnyOf
<1>2. 0 \in Q
  <2> DEFINE f == [s \in SUBSET S |-> 0]
  <2>1. \A s \in SUBSET S : Cardinality(s) <= 0 => s = {}
    BY <1>0, FS_EmptySet
  <2>2. \A s \in SUBSET S : Cardinality(s) <= 0 => f[s] = F(f, s)
    BY <2>1
  <2> QED
    BY <2>2
<1>3. ASSUME NEW n \in Nat, n \in Q PROVE n + 1 \in Q
  <2>1. PICK f : \A s \in SUBSET S : Cardinality(s) <= n => f[s] = F(f, s)
    BY <1>3
  <2> DEFINE h == [s \in SUBSET S |-> F(f, s)]
  <2>2. \A s \in SUBSET S : Cardinality(s) <= n => h[s] = f[s]
    BY <2>1
  <2>3. ASSUME NEW s \in SUBSET S, Cardinality(s) <= n + 1, s # {} PROVE h[s] = F(h, s)
    <3>1. h[s \ {Any(s)}] = f[s \ {Any(s)}]
      <4>1. s \ {Any(s)} \in SUBSET S /\ Cardinality(s \ {Any(s)}) <= n
        BY <1>0, <1>1, <2>3
      <4> HIDE DEF h
      <4> QED BY <4>1, <2>2
    <3>2. h[s] = F(f, s)
      OBVIOUS
    <3> HIDE DEF h
    <3> QED BY <3>1, <3>2
  <2>4. \A s \in SUBSET S : Cardinality(s) <= n + 1 => h[s] = F(h, s)
    <3> SUFFICES ASSUME NEW s \in SUBSET S, Cardinality(s) <= n + 1 PROVE h[s] = F(h, s)
      OBVIOUS
    <3>1. CASE s = {}
      BY <3>1
    <3>2. CASE s # {}
      BY <3>2, <2>3
    <3> QED
      BY <3>1, <3>2
  <2>5. n + 1 \in Nat
    OBVIOUS
  <2>6. \E d : \A s \in SUBSET S : Cardinality(s) <= n + 1 => d[s] = F(d, s)
    <3> HIDE DEF h
    <3> QED BY <2>4, Zenon
  <2> HIDE DEF F
  <2> QED
    BY <2>5, <2>6
<1>4. Cardinality(S) \in Q
  <2>1. \A n \in Nat : n \in Q
    <3> HIDE DEF Q
    <3> QED BY <1>2, <1>3, NaturalsReached
  <2> QED
    BY <2>1, FS_CardinalityType
<1>5. PICK f : \A s \in SUBSET S : f[s] = F(f, s)
  BY <1>0, <1>4
<1> DEFINE g == [s \in SUBSET S |-> f[s]]
<1>6. \A s \in SUBSET S : s # {} => s \ {Any(s)} \in SUBSET S
  BY <1>1
<1>7. \A s \in SUBSET S : F(f, s) = F(g, s)
  BY <1>6
<1>8. g = [s \in SUBSET S |-> F(g, s)]
  <2>1. \A s \in SUBSET S : g[s] = F(g, s)
    BY <1>5, <1>7
  <2>2. g = [s \in SUBSET S |-> g[s]]
    OBVIOUS
  <2> HIDE DEF g
  <2> QED BY <2>1, <2>2
<1>9. IsSum(g, S, w)
  <2> HIDE DEF g
  <2> QED BY <1>8 DEF IsSum
<1> QED
  BY <1>9

LEMMA SumsAgree ==
    ASSUME NEW S, NEW T \in SUBSET S, IsFiniteSet(S), NEW v, NEW w, \A x \in T : v[x] = w[x],
           NEW g, NEW h, IsSum(g, S, v), IsSum(h, T, w)
    PROVE  g[T] = h[T]
<1> DEFINE Q == {s \in SUBSET T : g[s] = h[s]}
<1>1. g[{}] = 0 /\ h[{}] = 0
  BY DEF IsSum
<1>2. ASSUME NEW s \in SUBSET T, s # {}, \A x \in s : s \ {x} \in Q PROVE s \in Q
  <2>1. Any(s) \in s /\ Any(s) \in T /\ s \ {Any(s)} \in Q
    BY <1>2, AnyOf
  <2>2. g[s] = v[Any(s)] + g[s \ {Any(s)}] /\ h[s] = w[Any(s)] + h[s \ {Any(s)}]
    BY <1>2 DEF IsSum
  <2> QED
    BY <2>1, <2>2
<1>3. T \in Q
  <2>1. IsFiniteSet(T) /\ {} \in Q
    BY <1>1, FS_Subset
  <2>2. \A s \in SUBSET T : s # {} /\ (\A x \in s : s \ {x} \in Q) => s \in Q
    BY <1>2
  <2>3. T \in SUBSET T
    OBVIOUS
  <2> HIDE DEF Q
  <2> QED BY <2>1, <2>2, <2>3, SubsetsReached
<1> QED
  BY <1>3

LEMMA SumIs ==
    ASSUME NEW S, IsFiniteSet(S), NEW w, NEW g, IsSum(g, S, w)
    PROVE  g[S] = Sum(S, w)
<1> DEFINE h == CHOOSE f : IsSum(f, S, w)
<1>1. IsSum(h, S, w)
  BY SumExists, Zenon
<1>2. Sum(S, w) = h[S]
  BY DEF Sum
<1> HIDE DEF h
<1>3. S \in SUBSET S
  OBVIOUS
<1> QED
  BY <1>1, <1>2, <1>3, SumsAgree

LEMMA SumOfAny ==
    ASSUME NEW S, IsFiniteSet(S), S # {}, NEW w
    PROVE  Sum(S, w) = w[Any(S)] + Sum(S \ {Any(S)}, w)
<1> DEFINE T == S \ {Any(S)}
<1>1. PICK g : IsSum(g, S, w)
  BY SumExists
<1>2. PICK h : IsSum(h, T, w)
  BY SumExists, FS_Subset
<1>3. g[S] = Sum(S, w) /\ h[T] = Sum(T, w)
  BY <1>1, <1>2, SumIs, FS_Subset
<1>4. g[S] = w[Any(S)] + g[T]
  BY <1>1 DEF IsSum
<1>5. g[T] = h[T]
  <2>1. T \in SUBSET S
    OBVIOUS
  <2> HIDE DEF T
  <2> QED BY <1>1, <1>2, <2>1, SumsAgree
<1> QED
  BY <1>3, <1>4, <1>5

LEMMA SumOfNone == ASSUME NEW w PROVE Sum({}, w) = 0
<1>1. IsFiniteSet({})
  BY FS_EmptySet
<1>2. PICK g : IsSum(g, {}, w)
  BY <1>1, SumExists
<1>3. g[{}] = 0
  BY <1>2 DEF IsSum
<1> QED
  BY <1>1, <1>2, <1>3, SumIs

LEMMA SumIsInteger ==
    ASSUME NEW S, IsFiniteSet(S), NEW w, \A x \in S : w[x] \in Int
    PROVE  Sum(S, w) \in Int
<1> DEFINE Q == {s \in SUBSET S : Sum(s, w) \in Int}
<1>1. {} \in Q
  BY SumOfNone
<1>2. ASSUME NEW s \in SUBSET S, s # {}, \A x \in s : s \ {x} \in Q PROVE s \in Q
  <2>1. IsFiniteSet(s) /\ Any(s) \in s
    BY <1>2, AnyOf, FS_Subset
  <2>2. Sum(s, w) = w[Any(s)] + Sum(s \ {Any(s)}, w)
    BY <1>2, <2>1, SumOfAny
  <2> QED
    BY <1>2, <2>1, <2>2
<1>3. S \in Q
  <2>1. \A T \in SUBSET S : T # {} /\ (\A x \in T : T \ {x} \in Q) => T \in Q
    BY <1>2
  <2>2. S \in SUBSET S
    OBVIOUS
  <2> HIDE DEF Q
  <2> QED BY <1>1, <2>1, <2>2, SubsetsReached
<1> QED
  BY <1>3

\* Any element may be taken first.
LEMMA SumTakes ==
    ASSUME NEW S, IsFiniteSet(S), NEW w, \A x \in S : w[x] \in Int, NEW k \in S
    PROVE  Sum(S, w) = w[k] + Sum(S \ {k}, w)
<1> DEFINE Q == {s \in SUBSET S : \A x \in s : Sum(s, w) = w[x] + Sum(s \ {x}, w)}
<1>1. {} \in Q
  OBVIOUS
<1>2. ASSUME NEW s \in SUBSET S, s # {}, \A x \in s : s \ {x} \in Q PROVE s \in Q
  <2> DEFINE a == Any(s)
  <2>1. a \in s /\ IsFiniteSet(s) /\ \A T \in SUBSET s : IsFiniteSet(T)
    BY <1>2, AnyOf, FS_Subset
  <2>2. Sum(s, w) = w[a] + Sum(s \ {a}, w)
    BY <1>2, <2>1, SumOfAny
  <2>3. \A T \in SUBSET s : Sum(T, w) \in Int
    BY <2>1, SumIsInteger
  <2> HIDE DEF a
  <2>4. ASSUME NEW x \in s, x # a PROVE Sum(s, w) = w[x] + Sum(s \ {x}, w)
    <3>1. Sum(s \ {a}, w) = w[x] + Sum((s \ {a}) \ {x}, w)
      BY <1>2, <2>1, <2>4
    <3>2. Sum(s \ {x}, w) = w[a] + Sum((s \ {x}) \ {a}, w)
      BY <1>2, <2>1, <2>4
    <3>3. (s \ {a}) \ {x} = (s \ {x}) \ {a} /\ (s \ {a}) \ {x} \in SUBSET s
      OBVIOUS
    <3> DEFINE rest == Sum((s \ {a}) \ {x}, w)
    <3>4. rest \in Int /\ w[a] \in Int /\ w[x] \in Int
      BY <2>1, <2>3, <3>3
    <3>5. Sum(s, w) = w[a] + (w[x] + rest) /\ Sum(s \ {x}, w) = w[a] + rest
      BY <2>2, <3>1, <3>2, <3>3
    <3> HIDE DEF rest
    <3> QED
      BY <3>4, <3>5
  <2> QED
    BY <2>2, <2>4
<1>3. S \in Q
  <2>1. \A T \in SUBSET S : T # {} /\ (\A x \in T : T \ {x} \in Q) => T \in Q
    BY <1>2
  <2>2. S \in SUBSET S
    OBVIOUS
  <2> HIDE DEF Q
  <2> QED BY <1>1, <2>1, <2>2, SubsetsReached
<1> QED
  BY <1>3

LEMMA SumSame ==
    ASSUME NEW S, IsFiniteSet(S), NEW v, NEW w, \A x \in S : v[x] = w[x]
    PROVE  Sum(S, v) = Sum(S, w)
<1>1. PICK g : IsSum(g, S, v)
  BY SumExists
<1>2. PICK h : IsSum(h, S, w)
  BY SumExists
<1>3. S \in SUBSET S
  OBVIOUS
<1>4. g[S] = h[S]
  BY <1>1, <1>2, <1>3, SumsAgree
<1> QED
  BY <1>1, <1>2, <1>4, SumIs

\* What changes in one place changes the sum by as much.
LEMMA SumChanges ==
    ASSUME NEW S, IsFiniteSet(S), NEW v, NEW w, \A x \in S : v[x] \in Int /\ w[x] \in Int,
           NEW k \in S, \A x \in S \ {k} : v[x] = w[x]
    PROVE  Sum(S, w) = Sum(S, v) + (w[k] - v[k])
<1>1. Sum(S, v) = v[k] + Sum(S \ {k}, v) /\ Sum(S, w) = w[k] + Sum(S \ {k}, w)
  BY SumTakes
<1>2. Sum(S \ {k}, v) = Sum(S \ {k}, w) /\ Sum(S \ {k}, v) \in Int
  BY SumSame, SumIsInteger, FS_Subset
<1> QED
  BY <1>1, <1>2

LEMMA SumOfZeros ==
    ASSUME NEW S, IsFiniteSet(S), NEW w, \A x \in S : w[x] = 0
    PROVE  Sum(S, w) = 0
<1> DEFINE Q == {s \in SUBSET S : Sum(s, w) = 0}
<1>1. {} \in Q
  BY SumOfNone
<1>2. ASSUME NEW s \in SUBSET S, s # {}, \A x \in s : s \ {x} \in Q PROVE s \in Q
  <2>1. IsFiniteSet(s) /\ Any(s) \in s
    BY <1>2, AnyOf, FS_Subset
  <2>2. Sum(s, w) = w[Any(s)] + Sum(s \ {Any(s)}, w)
    BY <1>2, <2>1, SumOfAny
  <2> QED
    BY <1>2, <2>1, <2>2
<1>3. S \in Q
  <2>1. \A T \in SUBSET S : T # {} /\ (\A x \in T : T \ {x} \in Q) => T \in Q
    BY <1>2
  <2>2. S \in SUBSET S
    OBVIOUS
  <2> HIDE DEF Q
  <2> QED BY <1>1, <2>1, <2>2, SubsetsReached
<1> QED
  BY <1>3

LEMMA SumAdds ==
    ASSUME NEW S, IsFiniteSet(S), NEW f, NEW v, NEW w,
           \A x \in S : v[x] \in Int /\ w[x] \in Int /\ f[x] = v[x] + w[x]
    PROVE  Sum(S, f) = Sum(S, v) + Sum(S, w)
<1> DEFINE Q == {s \in SUBSET S : Sum(s, f) = Sum(s, v) + Sum(s, w)}
<1>1. {} \in Q
  BY SumOfNone
<1>2. ASSUME NEW s \in SUBSET S, s # {}, \A x \in s : s \ {x} \in Q PROVE s \in Q
  <2> DEFINE a == Any(s)
  <2>1. IsFiniteSet(s) /\ a \in s
    BY <1>2, AnyOf, FS_Subset
  <2>2. /\ Sum(s, f) = f[a] + Sum(s \ {a}, f)
        /\ Sum(s, v) = v[a] + Sum(s \ {a}, v)
        /\ Sum(s, w) = w[a] + Sum(s \ {a}, w)
    BY <1>2, <2>1, SumOfAny
  <2>3. Sum(s \ {a}, v) \in Int /\ Sum(s \ {a}, w) \in Int
    BY <2>1, SumIsInteger, FS_Subset
  <2>4. Sum(s \ {a}, f) = Sum(s \ {a}, v) + Sum(s \ {a}, w)
    BY <1>2, <2>1
  <2>5. f[a] = v[a] + w[a] /\ v[a] \in Int /\ w[a] \in Int
    BY <2>1
  <2> HIDE DEF a
  <2>6. Sum(s, f) = Sum(s, v) + Sum(s, w)
    BY <2>2, <2>3, <2>4, <2>5
  <2> QED
    BY <2>6
<1>3. S \in Q
  <2>1. \A T \in SUBSET S : T # {} /\ (\A x \in T : T \ {x} \in Q) => T \in Q
    BY <1>2
  <2>2. S \in SUBSET S
    OBVIOUS
  <2> HIDE DEF Q
  <2> QED BY <1>1, <2>1, <2>2, SubsetsReached
<1> QED
  BY <1>3

\* What weighs nothing may be added to the set.
LEMMA SumWiden ==
    ASSUME NEW S, IsFiniteSet(S), NEW w, NEW T \in SUBSET S,
           \A x \in S : w[x] \in Int, \A x \in S \ T : w[x] = 0
    PROVE  Sum(S, w) = Sum(T, w)
<1> DEFINE Q == {s \in SUBSET S : Sum(s, w) = Sum(s \cap T, w)}
<1>1. {} \in Q
  <2>1. {} \cap T = {}
    OBVIOUS
  <2> QED BY <2>1
<1>2. ASSUME NEW s \in SUBSET S, s # {}, \A x \in s : s \ {x} \in Q PROVE s \in Q
  <2> DEFINE a == Any(s)
  <2>1. IsFiniteSet(s) /\ IsFiniteSet(s \cap T) /\ a \in s
    BY <1>2, AnyOf, FS_Subset
  <2>2. Sum(s, w) = w[a] + Sum(s \ {a}, w) /\ Sum(s \ {a}, w) \in Int
    BY <1>2, <2>1, SumOfAny, SumIsInteger, FS_Subset
  <2>3. Sum(s \ {a}, w) = Sum((s \ {a}) \cap T, w)
    BY <1>2, <2>1
  <2> HIDE DEF a
  <2>4. ASSUME a \in T PROVE Sum(s, w) = Sum(s \cap T, w)
    <3>1. a \in s \cap T /\ (s \ {a}) \cap T = (s \cap T) \ {a}
      BY <2>1, <2>4
    <3>2. Sum(s \cap T, w) = w[a] + Sum((s \cap T) \ {a}, w)
      BY <2>1, <3>1, SumTakes
    <3> QED BY <2>2, <2>3, <3>1, <3>2
  <2>5. ASSUME a \notin T PROVE Sum(s, w) = Sum(s \cap T, w)
    <3>1. (s \ {a}) \cap T = s \cap T /\ w[a] = 0
      BY <2>1, <2>5
    <3>2. Sum(s \ {a}, w) = Sum(s \cap T, w)
      BY <2>3, <3>1, Zenon
    <3> QED BY <2>2, <3>1, <3>2
  <2>6. Sum(s, w) = Sum(s \cap T, w)
    BY <2>4, <2>5
  <2> QED BY <2>6
<1>3. S \in Q
  <2>1. \A U \in SUBSET S : U # {} /\ (\A x \in U : U \ {x} \in Q) => U \in Q
    BY <1>2
  <2>2. S \in SUBSET S
    OBVIOUS
  <2> HIDE DEF Q
  <2> QED BY <1>1, <2>1, <2>2, SubsetsReached
<1>4. S \cap T = T
  OBVIOUS
<1> QED
  BY <1>3, <1>4

-----------------------------------------------------------------------------
(* The scores of the authors *)

Charge(rows, c) == IF rows[InfoRow(c)] = NoInfo THEN 0 ELSE rows[InfoRow(c)].penalty

\* What each comment costs author u.
Charges(u) == [c \in Comment |-> IF Author[c] = u THEN Charge(db, c) ELSE 0]

LEMMA Charge_Type ==
    ASSUME LocksOK, NEW c \in Comment
    PROVE  Charge(db, c) \in 0 .. 20 /\ Charge(wip, c) \in 0 .. 20
<1>1. db[InfoRow(c)] \in Info \cup {NoInfo} /\ wip[InfoRow(c)] \in Info \cup {NoInfo}
  BY DEF LocksOK, RowsOK
<1>2. \A i \in Info : i.penalty \in 0 .. 20
  BY DEF Info
<1>3. 0 \in 0 .. 20
  OBVIOUS
<1> QED BY <1>1, <1>2, <1>3 DEF Charge

LEMMA Owed_IsSum ==
    ASSUME LocksOK, NEW u \in User
    PROVE  Owed(u) = Sum(Comment, Charges(u))
<1> DEFINE S == {c \in Comment : Author[c] = u /\ db[InfoRow(c)] # NoInfo}
           w == Charges(u)
           F(g) == [s \in SUBSET S |->
                      IF s = {} THEN 0 ELSE db[InfoRow(Any(s))].penalty + g[s \ {Any(s)}]]
           it == CHOOSE g : g = F(g)
<1>0. IsFiniteSet(Comment) /\ IsFiniteSet(S)
  <2>1. S \subseteq Comment
    OBVIOUS
  <2> HIDE DEF S
  <2> QED BY <2>1, CommentAssumption, FS_Subset
<1>1. Owed(u) = it[S]
  BY DEF Owed, MapThenFoldSet, Any
<1>2. PICK h : IsSum(h, S, w)
  BY <1>0, SumExists
<1>3. \A s \in SUBSET S : s # {} => w[Any(s)] = db[InfoRow(Any(s))].penalty
  BY AnyOf DEF Charges, Charge
<1>4. \A g : F(g) = [s \in SUBSET S |-> IF s = {} THEN 0 ELSE w[Any(s)] + g[s \ {Any(s)}]]
  <2> HIDE DEF w, S
  <2> QED BY <1>3
<1>5. h = F(h)
  <2> HIDE DEF w, S
  <2> QED BY <1>2, <1>4 DEF IsSum
<1>6. it = F(it)
  <2> HIDE DEF F
  <2> QED BY <1>5, Zenon
<1>7. IsSum(it, S, w)
  <2> HIDE DEF it, w, S
  <2> QED BY <1>4, <1>6 DEF IsSum
<1>8. it[S] = Sum(S, w)
  <2> HIDE DEF it, w, S
  <2> QED BY <1>0, <1>7, SumIs
<1>9. Sum(Comment, w) = Sum(S, w)
  <2>1. S \in SUBSET Comment /\ \A c \in Comment : w[c] \in Int
    BY Charge_Type DEF Charges
  <2>2. \A c \in Comment \ S : w[c] = 0
    BY DEF Charges, Charge
  <2> HIDE DEF w, S
  <2> QED BY <1>0, <2>1, <2>2, SumWiden
<1> QED
  BY <1>1, <1>8, <1>9

\* What the transaction of h changes of the score of u, and of what u owes ...
Gain(h, u) == IF lock[UserRow(u)] = h THEN wip[UserRow(u)] - db[UserRow(u)] ELSE 0
Change(h, u) == [c \in Comment |->
    IF HoldsInfo(h, c) /\ Author[c] = u THEN Charge(wip, c) - Charge(db, c) ELSE 0]

\* ... and what a charge without its del_info yet, or a refund whose del_info is
\* not deleted yet, is still to change of it.
Pending(h, u) ==
    IF req[h].phase = "info" /\ Author[req[h].at] = u THEN req[h].bonus
    ELSE IF /\ req[h].phase \in {"unmark", "delinfo"} /\ Author[req[h].target] = u
            /\ HoldsInfo(h, req[h].target)
         THEN -Charge(db, req[h].target) ELSE 0

Moved(h, u) == Sum(Comment, Change(h, u))

\* A refund is at most what the locked del_info charged, and no transaction gives
\* an author more than it takes off what the author owes.
BonusInv(h) ==
    /\ req[h].phase = "bonus" => req[h].bonus = 0
    /\ req[h].phase = "refund" =>
         req[h].bonus <= IF HoldsInfo(h, req[h].target) THEN Charge(db, req[h].target) ELSE 0
PaidInv(h) == \A u \in User : Gain(h, u) + Moved(h, u) + Pending(h, u) <= 0
ScoreOK(h) == BonusInv(h) /\ PaidInv(h)

Solvent(u) == db[UserRow(u)] + Sum(Comment, Charges(u)) <= 0
ScoreInv == (\A u \in User : Solvent(u)) /\ \A h \in Handler : ScoreOK(h)

LEMMA Ledger_Type ==
    ASSUME TypeInv, NEW h \in Handler, NEW u \in User
    PROVE  /\ Gain(h, u) \in Int /\ Moved(h, u) \in Int /\ Pending(h, u) \in Int
           /\ \A c \in Comment : Change(h, u)[c] \in Int
           /\ \A c \in Comment : Charges(u)[c] \in Int
           /\ Sum(Comment, Charges(u)) \in Int
           /\ db[UserRow(u)] \in Int /\ wip[UserRow(u)] \in Int
<1>1. LocksOK /\ db[UserRow(u)] \in Int /\ wip[UserRow(u)] \in Int /\ IsFiniteSet(Comment)
  BY CommentAssumption DEF TypeInv, LocksOK, RowsOK
<1>2. \A c \in Comment : Charge(db, c) \in Int /\ Charge(wip, c) \in Int
  BY <1>1, Charge_Type
<1>3. \A c \in Comment : Change(h, u)[c] \in Int /\ Charges(u)[c] \in Int
  BY <1>2 DEF Change, Charges
<1>4. Gain(h, u) \in Int
  BY <1>1 DEF Gain
<1>5. Moved(h, u) \in Int /\ Sum(Comment, Charges(u)) \in Int
  BY <1>1, <1>3, SumIsInteger DEF Moved
<1>6. Pending(h, u) \in Int
  <2>1. req[h].bonus \in Int /\ Named(req[h])
    BY Request_Fields
  <2>2. req[h].phase \in {"unmark", "delinfo"} => req[h].target \in Comment
    BY <2>1 DEF Named
  <2> QED BY <1>2, <2>1, <2>2 DEF Pending
<1> QED BY <1>1, <1>3, <1>4, <1>5, <1>6

\* The rows of h that are about scores are as they were.
SameAccounts(h) ==
    /\ \A c \in Comment : /\ HoldsInfo(h, c)' <=> HoldsInfo(h, c)
                          /\ HoldsInfo(h, c) => /\ wip'[InfoRow(c)] = wip[InfoRow(c)]
                                                /\ db'[InfoRow(c)] = db[InfoRow(c)]
    /\ \A u \in User : /\ lock'[UserRow(u)] = h <=> lock[UserRow(u)] = h
                       /\ lock[UserRow(u)] = h => /\ wip'[UserRow(u)] = wip[UserRow(u)]
                                                  /\ db'[UserRow(u)] = db[UserRow(u)]

LEMMA Same_Ledger ==
    ASSUME NEW h \in Handler, SameAccounts(h), NEW u \in User
    PROVE  Gain(h, u)' = Gain(h, u) /\ Moved(h, u)' = Moved(h, u)
<1>1. Gain(h, u)' = Gain(h, u)
  BY DEF SameAccounts, Gain
<1>2. \A c \in Comment : HoldsInfo(h, c) => /\ Charge(wip, c)' = Charge(wip, c)
                                            /\ Charge(db, c)' = Charge(db, c)
  BY DEF SameAccounts, Charge
<1>3. Change(h, u)' = Change(h, u)
  BY <1>2 DEF SameAccounts, Change
<1>4. Moved(h, u)' = Sum(Comment, Change(h, u)')
  BY DEF Moved, Sum, IsSum
<1> QED BY <1>1, <1>3, <1>4 DEF Moved

LEMMA Others_Score ==
    ASSUME TypeInv, NEW g \in Handler, ScoreOK(g), req'[g] = req[g], SameAccounts(g)
    PROVE  ScoreOK(g)'
<1>1. req[g].phase \in {"refund", "unmark", "delinfo"} => req[g].target \in Comment
  BY Request_Fields DEF Named
<1>2. req[g].phase \in {"refund", "unmark", "delinfo"} =>
        /\ HoldsInfo(g, req[g].target)' <=> HoldsInfo(g, req[g].target)
        /\ HoldsInfo(g, req[g].target) => Charge(db, req[g].target)' = Charge(db, req[g].target)
  BY <1>1 DEF SameAccounts, Charge
<1>3. BonusInv(g)'
  BY <1>2 DEF ScoreOK, BonusInv
<1>4. \A u \in User : Pending(g, u)' = Pending(g, u)
  BY <1>2 DEF Pending
<1>5. PaidInv(g)'
  BY <1>4, Same_Ledger DEF ScoreOK, PaidInv
<1> QED BY <1>3, <1>5 DEF ScoreOK

LEMMA Statement_Score ==
    ASSUME TypeInv, ScoreInv, NEW h \in Handler, Statement(h), ScoreOK(h)'
    PROVE  ScoreInv'
<1>1. \A u \in User : Solvent(u)'
  <2>1. UNCHANGED db
    BY DEF Statement
  <2>2. \A u \in User : Sum(Comment, Charges(u))' = Sum(Comment, Charges(u))
    BY <2>1 DEF Charges, Charge, Sum, IsSum
  <2> QED BY <2>1, <2>2 DEF ScoreInv, Solvent
<1>2. ASSUME NEW g \in Handler, g # h
      PROVE  ScoreOK(g)'
  <2>1. /\ req'[g] = req[g] /\ UNCHANGED db
        /\ \A r \in Row : lock[r] = g <=> lock'[r] = g
        /\ \A r \in Row : lock[r] = g => wip'[r] = wip[r]
    BY <1>2, RequestAssumption DEF Statement
  <2>2. SameAccounts(g)
    BY <2>1, RowsAreDistinct DEF SameAccounts, HoldsInfo
  <2> QED BY <2>1, <2>2, Others_Score DEF ScoreInv
<1> QED BY <1>1, <1>2 DEF ScoreInv

\* The rows of scores and of del_info are left alone.
Aside ==
    /\ \A c \in Comment : UNCHANGED <<lock[InfoRow(c)], wip[InfoRow(c)]>>
    /\ \A u \in User : UNCHANGED <<lock[UserRow(u)], wip[UserRow(u)]>>

LEMMA Aside_Write ==
    ASSUME TypeInv, NEW h \in Handler, NEW x \in Row, NEW v,
           Write(h, x, v) \/ Lock(h, x) \/ UNCHANGED <<wip, lock>>,
           UNCHANGED db, OnlyRequest(h),
           x = TopicRow \/ \E c \in Comment : x = CommentRow(c)
    PROVE  Statement(h) /\ Aside
<1>1. \A c \in Comment, u \in User : InfoRow(c) # x /\ UserRow(u) # x
  BY RowsAreDistinct
<1>2. \A c \in Comment, u \in User : InfoRow(c) \in Row /\ UserRow(u) \in Row
  BY RowsAreDistinct
<1>3. CASE Write(h, x, v)
  <2>1. /\ Statement(h)
        /\ \A r \in Row : r # x => lock'[r] = lock[r] /\ wip'[r] = wip[r]
    BY <1>3, Statement_Write
  <2>2. \A c \in Comment : UNCHANGED <<lock[InfoRow(c)], wip[InfoRow(c)]>>
    BY <2>1, RowsAreDistinct
  <2>3. \A u \in User : UNCHANGED <<lock[UserRow(u)], wip[UserRow(u)]>>
    BY <2>1, RowsAreDistinct
  <2> QED BY <2>1, <2>2, <2>3 DEF Aside
<1>4. CASE Lock(h, x)
  <2>1. /\ Statement(h) /\ UNCHANGED wip
        /\ \A r \in Row : r # x => lock'[r] = lock[r]
    BY <1>4, Statement_Lock
  <2>2. \A c \in Comment : UNCHANGED <<lock[InfoRow(c)], wip[InfoRow(c)]>>
    BY <2>1, RowsAreDistinct
  <2>3. \A u \in User : UNCHANGED <<lock[UserRow(u)], wip[UserRow(u)]>>
    BY <2>1, RowsAreDistinct
  <2> QED BY <2>1, <2>2, <2>3 DEF Aside
<1>5. CASE UNCHANGED <<wip, lock>>
  BY <1>5, Statement_Read DEF Aside
<1> QED BY <1>3, <1>4, <1>5

LEMMA Aside_Score ==
    ASSUME TypeInv, ScoreInv, NEW h \in Handler, Statement(h), Aside,
           \/ /\ req[h].phase \notin {"info", "unmark", "delinfo"}
              /\ req'[h].phase \notin {"info", "unmark", "delinfo", "refund"}
              /\ req'[h].phase = "bonus" => req'[h].bonus = 0
           \/ /\ req[h].phase = "unmark" /\ req'[h].phase = "delinfo"
              /\ req'[h].target = req[h].target
    PROVE  ScoreInv'
<1>1. UNCHANGED db /\ SameAccounts(h)
  BY DEF Statement, Aside, SameAccounts, HoldsInfo
<1>2. BonusInv(h)'
  BY DEF BonusInv
<1>3. \A u \in User : Pending(h, u)' = Pending(h, u)
  <2>1. CASE /\ req[h].phase \notin {"info", "unmark", "delinfo"}
             /\ req'[h].phase \notin {"info", "unmark", "delinfo"}
    BY <2>1 DEF Pending
  <2>2. CASE /\ req[h].phase = "unmark" /\ req'[h].phase = "delinfo"
             /\ req'[h].target = req[h].target
    <3>1. req[h].target \in Comment
      BY <2>2, Request_Fields DEF Named
    <3>2. /\ HoldsInfo(h, req[h].target)' <=> HoldsInfo(h, req[h].target)
          /\ Charge(db, req[h].target)' = Charge(db, req[h].target)
      BY <1>1, <2>2, <3>1 DEF SameAccounts, Charge
    <3> QED BY <2>2, <3>2 DEF Pending
  <2> QED BY <2>1, <2>2
<1>4. PaidInv(h)'
  BY <1>1, <1>3, Same_Ledger DEF ScoreInv, ScoreOK, PaidInv
<1> QED BY <1>2, <1>4, Statement_Score DEF ScoreOK

LEMMA Begin_Score ==
    ASSUME TypeInv, ScoreInv, NEW h \in Handler, NEW q, Begin(h, q),
           q.phase \in {"count", "subtree", "bonus", "share", "locktopic"}, q.bonus = 0
    PROVE  ScoreInv'
<1>0. OnlyRequest(h)
  BY DEF TypeInv, ReqOK, Begin, OnlyRequest
<1>1. Statement(h) /\ Aside
  BY <1>0, Statement_Read DEF Begin, Aside
<1>2. req[h].phase = "idle" /\ req'[h] = q
  BY Step_Fields DEF Begin, In
<1> QED BY <1>1, <1>2, Aside_Score

LEMMA Begins_Score ==
    ASSUME TypeInv, ScoreInv, NEW h \in Handler, NEW c, NEW u, NEW p, NEW b,
           Delete(h, u, c, p, b) \/ Undelete(h, u, c) \/ Reply(h, c) \/ StatUpdate(h)
    PROVE  ScoreInv'
<1>1. CASE Delete(h, u, c, p, b)
  <2> DEFINE q == [NoRequest EXCEPT
                     !.phase = IF u \notin Moderator THEN "count" ELSE "subtree",
                     !.target = c, !.actor = u, !.penalty = IF u = Author[c] THEN 0 ELSE p,
                     !.deep = ~(u \notin Moderator) /\ b]
  <2>1. Begin(h, q)
    BY <1>1 DEF Delete
  <2>2. q.phase \in {"count", "subtree"} /\ q.bonus = 0
    BY DEF NoRequest
  <2> HIDE DEF q
  <2> QED BY <2>1, <2>2, Begin_Score
<1>2. CASE Undelete(h, u, c)
  <2> DEFINE q == [NoRequest EXCEPT !.phase = "bonus", !.target = c, !.actor = u]
  <2>1. Begin(h, q) /\ q.phase = "bonus" /\ q.bonus = 0
    BY <1>2 DEF Undelete, NoRequest
  <2> HIDE DEF q
  <2> QED BY <2>1, Begin_Score
<1>3. CASE Reply(h, c)
  <2> DEFINE q == [NoRequest EXCEPT !.phase = "share", !.target = c]
  <2>1. Begin(h, q) /\ q.phase = "share" /\ q.bonus = 0
    BY <1>3 DEF Reply, NoRequest
  <2> HIDE DEF q
  <2> QED BY <2>1, Begin_Score
<1>4. CASE StatUpdate(h)
  <2> DEFINE q == [NoRequest EXCEPT !.phase = "locktopic"]
  <2>1. Begin(h, q) /\ q.phase = "locktopic" /\ q.bonus = 0
    BY <1>4 DEF StatUpdate, NoRequest
  <2> HIDE DEF q
  <2> QED BY <2>1, Begin_Score
<1> QED BY <1>1, <1>2, <1>3, <1>4

LEMMA Aside_Statements_Score ==
    ASSUME TypeInv, ScoreInv, NEW h \in Handler, NEW c,
           \/ CountReplies(h) \/ ReadSubtree(h) \/ MarkDeleted(h, c) \/ PassOverDeleted(h, c)
           \/ LowerCounters(h) \/ Unmark(h) \/ TouchTopic(h) \/ ShareParent(h)
           \/ LockTopic(h) \/ CountComments(h) \/ UpdateCounters(h)
    PROVE  ScoreInv'
<1>1. req[h] \in Request /\ req \in [Handler -> Request] /\ Named(req[h])
  BY Request_Fields DEF ReqOK
<1>2. OnlyRequest(h) /\ UNCHANGED db
  BY <1>1 DEF OnlyRequest, CountReplies, ReadSubtree, MarkDeleted, PassOverDeleted,
         LowerCounters, Unmark, TouchTopic, ShareParent, LockTopic, CountComments, UpdateCounters
<1>3. CASE CountReplies(h) \/ ReadSubtree(h) \/ PassOverDeleted(h, c) \/ ShareParent(h)
           \/ CountComments(h)
  <2>1. Statement(h) /\ Aside
    BY <1>2, <1>3, Statement_Read
       DEF CountReplies, ReadSubtree, PassOverDeleted, ShareParent, CountComments, Aside
  <2>2. /\ req[h].phase \in {"count", "subtree", "mark", "share", "recount"}
        /\ req'[h].phase \in {"mark", "insert", "update"}
    BY <1>1, <1>3
       DEF CountReplies, ReadSubtree, PassOverDeleted, ShareParent, CountComments, In, Request
  <2> QED BY <2>1, <2>2, Aside_Score
<1>4. CASE LowerCounters(h) \/ TouchTopic(h) \/ LockTopic(h) \/ UpdateCounters(h)
  <2>1. Statement(h) /\ Aside
    BY <1>2, <1>4, Aside_Write, RowsAreDistinct
       DEF LowerCounters, TouchTopic, LockTopic, UpdateCounters
  <2>2. /\ req[h].phase \in {"mark", "touch", "locktopic", "update"}
        /\ req'[h].phase \in {"commit", "recount"}
    BY <1>1, <1>4 DEF LowerCounters, TouchTopic, LockTopic, UpdateCounters, In, Request
  <2> QED BY <2>1, <2>2, Aside_Score
<1>5. CASE MarkDeleted(h, c)
  <2>0. c \in Comment
    BY <1>5, Request_Fields DEF MarkDeleted, NextInPostorder
  <2>1. Statement(h) /\ Aside
    BY <1>2, <1>5, <2>0, Aside_Write, RowsAreDistinct DEF MarkDeleted
  <2>2. req[h].phase = "mark" /\ req'[h].phase = "charge"
    BY <1>1, <1>5 DEF MarkDeleted, In, Request
  <2> QED BY <2>1, <2>2, Aside_Score
<1>6. CASE Unmark(h)
  <2>1. /\ req[h].phase = "unmark" /\ req'[h].phase = "delinfo"
        /\ req'[h].target = req[h].target /\ req[h].target \in Comment
    BY <1>1, <1>6 DEF Unmark, In, Request, Named
  <2>2. Statement(h) /\ Aside
    BY <1>2, <1>6, <2>1, Aside_Write, RowsAreDistinct DEF Unmark
  <2> QED BY <2>1, <2>2, Aside_Score
<1> QED BY <1>3, <1>4, <1>5, <1>6

LEMMA InsertComment_Facts ==
    ASSUME TypeInv, NEW h \in Handler, InsertComment(h)
    PROVE  LET c == req[h].target IN
           /\ c \in Comment /\ req[h].phase = "insert" /\ Statement(h)
           /\ req' = [req EXCEPT ![h].phase = "commit"] /\ req'[h].phase = "commit"
           /\ lock[TopicRow] \in {h, Nobody}
           /\ lock'[CommentRow(c)] = h /\ wip'[CommentRow(c)] = "live"
           /\ lock'[TopicRow] = h
           /\ wip'[TopicRow].stat1 = wip[TopicRow].stat1 + 1
           /\ \A r \in Row : r # CommentRow(c) /\ r # TopicRow
                               => lock'[r] = lock[r] /\ wip'[r] = wip[r]
<1> DEFINE c == req[h].target
<1>1. c \in Comment /\ req[h].phase = "insert" /\ req \in [Handler -> Request]
  BY Request_Fields DEF InsertComment, In, Named, ReqOK
<1>2. req'[h].phase = "commit" /\ OnlyRequest(h) /\ req' = [req EXCEPT ![h].phase = "commit"]
  BY <1>1 DEF InsertComment, Request, OnlyRequest
<1>3. /\ UNCHANGED db /\ lock[CommentRow(c)] \in {h, Nobody} /\ lock[TopicRow] \in {h, Nobody}
      /\ lock' = [lock EXCEPT ![CommentRow(c)] = h, ![TopicRow] = h]
      /\ \E n : wip' = [wip EXCEPT ![CommentRow(c)] = "live",
                   ![TopicRow] = [stat1 |-> wip[TopicRow].stat1 + 1, stat3 |-> n]]
  BY DEF InsertComment, CanWrite
<1>4. lock \in [Row -> Handler \cup {Nobody}] /\ DOMAIN wip = Row
  BY DEF TypeInv, LocksOK, RowsOK
<1>5. CommentRow(c) \in Row /\ TopicRow \in Row /\ CommentRow(c) # TopicRow
  BY <1>1, RowsAreDistinct
<1> HIDE DEF c
<1>6. /\ lock'[CommentRow(c)] = h /\ lock'[TopicRow] = h
      /\ wip'[CommentRow(c)] = "live" /\ wip'[TopicRow].stat1 = wip[TopicRow].stat1 + 1
      /\ \A r \in Row : r # CommentRow(c) /\ r # TopicRow
                          => lock'[r] = lock[r] /\ wip'[r] = wip[r]
  BY <1>3, <1>4, <1>5
<1>7. Statement(h)
  BY <1>2, <1>3, <1>6 DEF Statement, OnlyRequest
<1> QED BY <1>1, <1>2, <1>3, <1>6, <1>7 DEF c

LEMMA InsertComment_Score ==
    ASSUME TypeInv, ScoreInv, NEW h \in Handler, InsertComment(h)
    PROVE  ScoreInv'
<1>1. Aside
  BY InsertComment_Facts, RowsAreDistinct DEF Aside
<1> QED BY <1>1, InsertComment_Facts, Aside_Score

LEMMA Same_Moved ==
    ASSUME NEW h \in Handler, NEW u \in User, UNCHANGED db,
           \A c \in Comment : /\ HoldsInfo(h, c)' <=> HoldsInfo(h, c)
                              /\ HoldsInfo(h, c) => wip'[InfoRow(c)] = wip[InfoRow(c)]
    PROVE  Moved(h, u)' = Moved(h, u)
<1>1. \A c \in Comment : HoldsInfo(h, c) => /\ Charge(wip, c)' = Charge(wip, c)
                                            /\ Charge(db, c)' = Charge(db, c)
  BY DEF Charge
<1>2. Change(h, u)' = Change(h, u)
  BY <1>1 DEF Change
<1>3. Moved(h, u)' = Sum(Comment, Change(h, u)')
  BY DEF Moved, Sum, IsSum
<1> QED BY <1>2, <1>3 DEF Moved

\* An UPDATE of one author's score by d.
LEMMA Score_Changes ==
    ASSUME TypeInv, NEW h \in Handler, NEW a \in User, NEW d \in Int,
           \/ d = 0 /\ UNCHANGED <<wip, lock>>
           \/ Write(h, UserRow(a), wip[UserRow(a)] + d),
           UNCHANGED db, OnlyRequest(h)
    PROVE  /\ Statement(h)
           /\ \A c \in Comment : HoldsInfo(h, c)' <=> HoldsInfo(h, c)
           /\ \A u \in User : /\ Moved(h, u)' = Moved(h, u)
                              /\ Gain(h, u)' = Gain(h, u) + IF u = a THEN d ELSE 0
<1>1. CASE d = 0 /\ UNCHANGED <<wip, lock>>
  <2>1. Statement(h) /\ \A c \in Comment : HoldsInfo(h, c)' <=> HoldsInfo(h, c)
    BY <1>1, Statement_Read DEF HoldsInfo
  <2>2. \A u \in User : Moved(h, u)' = Moved(h, u)
    BY <1>1, <2>1, Same_Moved
  <2>3. \A u \in User : Gain(h, u)' = Gain(h, u) /\ Gain(h, u) \in Int
    BY <1>1, Ledger_Type DEF Gain
  <2> QED BY <1>1, <2>1, <2>2, <2>3
<1>2. CASE Write(h, UserRow(a), wip[UserRow(a)] + d)
  <2>1. /\ Statement(h)
        /\ lock'[UserRow(a)] = h /\ wip'[UserRow(a)] = wip[UserRow(a)] + d
        /\ \A r \in Row : r # UserRow(a) => lock'[r] = lock[r] /\ wip'[r] = wip[r]
    BY <1>2, Statement_Write, RowsAreDistinct
  <2>2. \A c \in Comment : /\ HoldsInfo(h, c)' <=> HoldsInfo(h, c)
                           /\ wip'[InfoRow(c)] = wip[InfoRow(c)]
    BY <2>1, RowsAreDistinct DEF HoldsInfo
  <2>3. \A u \in User : Moved(h, u)' = Moved(h, u)
    BY <2>2, Same_Moved
  <2>4. ASSUME NEW u \in User, u # a
        PROVE  Gain(h, u)' = Gain(h, u) /\ Gain(h, u) \in Int
    <3>1. lock'[UserRow(u)] = lock[UserRow(u)] /\ wip'[UserRow(u)] = wip[UserRow(u)]
      BY <2>1, <2>4, RowsAreDistinct
    <3> QED BY <3>1, Ledger_Type DEF Gain
  <2>5. Gain(h, a)' = Gain(h, a) + d
    <3>1. lock[UserRow(a)] \in {h, Nobody}
      BY <1>2 DEF Write, CanWrite
    <3>2. lock[UserRow(a)] = Nobody => wip[UserRow(a)] = db[UserRow(a)]
      BY RowsAreDistinct DEF TypeInv, LocksOK
    <3>3. wip[UserRow(a)] \in Int /\ db[UserRow(a)] \in Int
      BY Ledger_Type
    <3>4. h # Nobody
      BY RequestAssumption
    <3>5. Gain(h, a) = wip[UserRow(a)] - db[UserRow(a)]
      BY <3>1, <3>2, <3>3, <3>4 DEF Gain
    <3>6. Gain(h, a)' = wip[UserRow(a)] + d - db[UserRow(a)]
      BY <2>1, <3>3 DEF Gain
    <3> QED BY <3>3, <3>5, <3>6
  <2> QED BY <2>1, <2>2, <2>3, <2>4, <2>5
<1> QED BY <1>1, <1>2

LEMMA ChargeAuthor_Score ==
    ASSUME TypeInv, ScoreInv, NEW h \in Handler, ChargeAuthor(h)
    PROVE  ScoreInv'
<1> DEFINE a == Author[req[h].at]
           p == PenaltyOf(req[h].at, req[h].target, req[h].penalty)
<1>1. /\ req[h].phase = "charge" /\ req[h].at \in Comment /\ a \in User
      /\ req \in [Handler -> Request] /\ req[h] \in Request
  BY Request_Fields, CommentAssumption DEF ChargeAuthor, In, Named, ReqOK
<1>2. p \in 0 .. 20
  <2>1. req[h].target \in Comment /\ req[h].penalty \in 0 .. 20
    BY <1>1, Request_Fields DEF Named
  <2> QED BY <1>1, <2>1, PenaltyOf_Type
<1>3. PICK charged \in {0, p} :
        /\ IF charged = 0 THEN UNCHANGED <<wip, lock>>
           ELSE Write(h, UserRow(a), wip[UserRow(a)] - charged)
        /\ req' = [req EXCEPT ![h].phase = "info", ![h].bonus = charged]
  BY DEF ChargeAuthor
<1> DEFINE d == -charged
<1> HIDE DEF a, p
<1>4. UNCHANGED db /\ OnlyRequest(h) /\ charged \in 0 .. 20 /\ wip[UserRow(a)] \in Int
  BY <1>1, <1>2, <1>3, Ledger_Type DEF ChargeAuthor, OnlyRequest
<1>5. d \in Int /\ wip[UserRow(a)] + d = wip[UserRow(a)] - charged /\ (charged = 0 => d = 0)
  BY <1>4
<1>6. /\ Statement(h)
      /\ \A u \in User : /\ Moved(h, u)' = Moved(h, u)
                         /\ Gain(h, u)' = Gain(h, u) + IF u = a THEN d ELSE 0
  <2>1. \/ d = 0 /\ UNCHANGED <<wip, lock>>
        \/ Write(h, UserRow(a), wip[UserRow(a)] + d)
    <3> HIDE DEF d
    <3> QED BY <1>3, <1>5
  <2> HIDE DEF d
  <2> QED BY <1>1, <1>4, <1>5, <2>1, Score_Changes
<1>7. req'[h].phase = "info" /\ req'[h].bonus = charged /\ req'[h].at = req[h].at
  BY <1>1, <1>3 DEF Request
<1>8. \A u \in User : Pending(h, u) = 0 /\ Pending(h, u)' = IF u = a THEN charged ELSE 0
  BY <1>1, <1>7 DEF Pending, a
<1>9. BonusInv(h)'
  BY <1>7 DEF BonusInv
<1>10. PaidInv(h)'
  <2> SUFFICES ASSUME NEW u \in User PROVE (Gain(h, u) + Moved(h, u) + Pending(h, u) <= 0)'
    BY DEF PaidInv
  <2>1. Gain(h, u) + Moved(h, u) + 0 <= 0
    BY <1>8 DEF ScoreInv, ScoreOK, PaidInv
  <2>2. Gain(h, u) \in Int /\ Moved(h, u) \in Int
    BY Ledger_Type
  <2> QED BY <1>4, <1>6, <1>8, <2>1, <2>2
<1> QED BY <1>6, <1>9, <1>10, Statement_Score DEF ScoreOK

LEMMA Refund_Score ==
    ASSUME TypeInv, ScoreInv, NEW h \in Handler, Refund(h)
    PROVE  ScoreInv'
<1>0. PICK c \in Comment, a \in User, d \in 0 .. 20 :
        c = req[h].target /\ a = Author[c] /\ d = req[h].bonus
  BY Request_Fields, CommentAssumption DEF Refund, In, Named
<1>1. /\ req[h].phase = "refund" /\ d \in Int
      /\ req \in [Handler -> Request] /\ req[h] \in Request
  BY Request_Fields DEF Refund, In, ReqOK
<1>2. /\ IF d = 0 THEN UNCHANGED <<wip, lock>>
         ELSE Write(h, UserRow(a), wip[UserRow(a)] + d)
      /\ req' = [req EXCEPT ![h].phase = "unmark", ![h].bonus = 0]
      /\ UNCHANGED db
  BY <1>0 DEF Refund
<1>3. d <= IF HoldsInfo(h, c) THEN Charge(db, c) ELSE 0
  BY <1>0, <1>1 DEF ScoreInv, ScoreOK, BonusInv
<1>4. req'[h].phase = "unmark" /\ req'[h].target = c /\ OnlyRequest(h)
  BY <1>0, <1>1, <1>2 DEF Request, OnlyRequest
<1>5. Charge(db, c) \in 0 .. 20 /\ Charge(db, c)' = Charge(db, c)
  BY <1>2, Request_Fields, Charge_Type DEF Charge
<1>6. \A u \in User : /\ Pending(h, u) = 0
                      /\ Pending(h, u)' = IF u = a /\ HoldsInfo(h, c)' THEN -Charge(db, c) ELSE 0
  BY <1>0, <1>1, <1>2, <1>4, <1>5 DEF Pending
<1>7. /\ Statement(h)
      /\ HoldsInfo(h, c)' <=> HoldsInfo(h, c)
      /\ \A u \in User : /\ Moved(h, u)' = Moved(h, u)
                         /\ Gain(h, u)' = Gain(h, u) + IF u = a THEN d ELSE 0
  BY <1>1, <1>2, <1>4, Score_Changes
<1>8. BonusInv(h)'
  BY <1>4 DEF BonusInv
<1>9. PaidInv(h)'
  <2> SUFFICES ASSUME NEW u \in User PROVE (Gain(h, u) + Moved(h, u) + Pending(h, u) <= 0)'
    BY DEF PaidInv
  <2>1. Gain(h, u) + Moved(h, u) + 0 <= 0
    BY <1>6 DEF ScoreInv, ScoreOK, PaidInv
  <2>2. Gain(h, u) \in Int /\ Moved(h, u) \in Int
    BY Ledger_Type
  <2>3. Pending(h, u)' = IF u = a /\ HoldsInfo(h, c) THEN -Charge(db, c) ELSE 0
    BY <1>6, <1>7
  <2> QED BY <1>1, <1>3, <1>5, <1>7, <2>1, <2>2, <2>3
<1> QED BY <1>7, <1>8, <1>9, Statement_Score DEF ScoreOK

\* An INSERT or DELETE of one comment's del_info.
LEMMA Info_Changes ==
    ASSUME TypeInv, NEW h \in Handler, NEW c \in Comment, NEW v \in Info \cup {NoInfo},
           Write(h, InfoRow(c), v), UNCHANGED db, OnlyRequest(h)
    PROVE  /\ Statement(h) /\ wip'[InfoRow(c)] = v
           /\ \A u \in User :
                /\ Gain(h, u)' = Gain(h, u)
                /\ Moved(h, u)' = Moved(h, u) +
                     (IF Author[c] = u THEN Charge(wip, c)' - Charge(wip, c) ELSE 0)
<1>1. /\ Statement(h)
      /\ lock'[InfoRow(c)] = h /\ wip'[InfoRow(c)] = v
      /\ \A r \in Row : r # InfoRow(c) => lock'[r] = lock[r] /\ wip'[r] = wip[r]
  BY Statement_Write, RowsAreDistinct
<1>2. \A u \in User : Gain(h, u)' = Gain(h, u)
  <2>1. \A u \in User : lock'[UserRow(u)] = lock[UserRow(u)] /\ wip'[UserRow(u)] = wip[UserRow(u)]
    BY <1>1, RowsAreDistinct
  <2> QED BY <2>1 DEF Gain
<1>3. \A d \in Comment \ {c} : /\ HoldsInfo(h, d)' <=> HoldsInfo(h, d)
                               /\ wip'[InfoRow(d)] = wip[InfoRow(d)]
  BY <1>1, RowsAreDistinct DEF HoldsInfo
<1>4. /\ Charge(wip, c) \in 0 .. 20 /\ Charge(db, c) \in 0 .. 20
      /\ Charge(wip, c)' \in 0 .. 20 /\ Charge(db, c)' = Charge(db, c)
  <2>1. Charge(wip, c)' = IF v = NoInfo THEN 0 ELSE v.penalty
    BY <1>1 DEF Charge
  <2>2. v # NoInfo => v.penalty \in 0 .. 20
    BY DEF Info
  <2>3. 0 \in 0 .. 20
    OBVIOUS
  <2> QED BY <2>1, <2>2, <2>3, Charge_Type DEF TypeInv, Charge
<1>5. HoldsInfo(h, c) \/ Charge(wip, c) = Charge(db, c)
  <2>1. lock[InfoRow(c)] \in {h, Nobody}
    BY DEF Write, CanWrite
  <2>2. lock[InfoRow(c)] = Nobody => wip[InfoRow(c)] = db[InfoRow(c)]
    BY RowsAreDistinct DEF TypeInv, LocksOK
  <2> QED BY <2>1, <2>2 DEF HoldsInfo, Charge
<1>6. ASSUME NEW u \in User
      PROVE  Moved(h, u)' = Moved(h, u) +
               (IF Author[c] = u THEN Charge(wip, c)' - Charge(wip, c) ELSE 0)
  <2> DEFINE f == Change(h, u)
             g == Change(h, u)'
  <2>1. \A d \in Comment \ {c} : g[d] = f[d]
    BY <1>3 DEF Change, Charge
  <2>2. \A d \in Comment : f[d] \in Int
    BY Ledger_Type
  <2>3. /\ f[c] = IF Author[c] = u THEN Charge(wip, c) - Charge(db, c) ELSE 0
        /\ g[c] = IF Author[c] = u THEN Charge(wip, c)' - Charge(db, c) ELSE 0
    <3>1. HoldsInfo(h, c)'
      BY <1>1 DEF HoldsInfo
    <3>2. g[c] = IF Author[c] = u THEN Charge(wip, c)' - Charge(db, c) ELSE 0
      BY <1>4, <3>1 DEF Change
    <3>3. f[c] = IF HoldsInfo(h, c) /\ Author[c] = u THEN Charge(wip, c) - Charge(db, c) ELSE 0
      BY DEF Change
    <3> HIDE DEF f, g
    <3> QED BY <1>4, <1>5, <3>2, <3>3
  <2>4. Moved(h, u) = Sum(Comment, f) /\ Moved(h, u)' = Sum(Comment, g)
    BY DEF Moved, Sum, IsSum
  <2> HIDE DEF f, g
  <2>5. g[c] \in Int /\ g[c] - f[c] = IF Author[c] = u THEN Charge(wip, c)' - Charge(wip, c) ELSE 0
    BY <1>4, <2>3
  <2>6. Sum(Comment, g) = Sum(Comment, f) + (g[c] - f[c])
    <3>1. \A d \in Comment : f[d] \in Int /\ g[d] \in Int
      BY <2>1, <2>2, <2>5
    <3> QED BY <2>1, <3>1, CommentAssumption, SumChanges
  <2> QED BY <2>4, <2>5, <2>6
<1> QED BY <1>1, <1>2, <1>6

LEMMA InsertInfo_Score ==
    ASSUME TypeInv, ScoreInv, NEW h \in Handler, InsertInfo(h)
    PROVE  ScoreInv'
<1>1. PICK c \in Comment, p \in 0 .. 20, m \in User :
        c = req[h].at /\ p = req[h].bonus /\ m = req[h].actor
  BY Request_Fields DEF InsertInfo, In, Named
<1> DEFINE v == [penalty |-> p, by |-> m]
<1>2. v \in Info /\ v # NoInfo /\ NewInfo(h) = v
  BY <1>1, NoInfoAssumption DEF Info, NewInfo
<1>3. /\ wip[InfoRow(c)] = NoInfo /\ Write(h, InfoRow(c), v) /\ UNCHANGED db
      /\ req[h].phase = "info"
  BY <1>1, <1>2 DEF InsertInfo, In
<1>4. OnlyRequest(h) /\ req'[h].phase = "mark"
  BY Request_Fields DEF InsertInfo, OnlyRequest, ReqOK, Request
<1> HIDE DEF v
<1>5. /\ Statement(h) /\ wip'[InfoRow(c)] = v
      /\ \A u \in User :
           /\ Gain(h, u)' = Gain(h, u)
           /\ Moved(h, u)' = Moved(h, u) +
                (IF Author[c] = u THEN Charge(wip, c)' - Charge(wip, c) ELSE 0)
  BY <1>2, <1>3, <1>4, Info_Changes
<1>6. Charge(wip, c) = 0 /\ Charge(wip, c)' = p
  BY <1>2, <1>3, <1>5 DEF Charge, v
<1>7. \A u \in User : /\ Pending(h, u) = IF Author[c] = u THEN p ELSE 0
                      /\ Pending(h, u)' = 0
  BY <1>1, <1>3, <1>4 DEF Pending
<1>8. BonusInv(h)'
  BY <1>4 DEF BonusInv
<1>9. PaidInv(h)'
  <2> SUFFICES ASSUME NEW u \in User PROVE (Gain(h, u) + Moved(h, u) + Pending(h, u) <= 0)'
    BY DEF PaidInv
  <2>1. Gain(h, u) + Moved(h, u) + (IF Author[c] = u THEN p ELSE 0) <= 0
    BY <1>7 DEF ScoreInv, ScoreOK, PaidInv
  <2>2. Gain(h, u) \in Int /\ Moved(h, u) \in Int
    BY Ledger_Type
  <2> QED BY <1>5, <1>6, <1>7, <2>1, <2>2
<1> QED BY <1>5, <1>8, <1>9, Statement_Score DEF ScoreOK

LEMMA ReadBonus_Score ==
    ASSUME TypeInv, ScoreInv, NEW h \in Handler, ReadBonus(h)
    PROVE  ScoreInv'
<1>1. PICK c \in Comment : c = req[h].target
  BY Request_Fields DEF ReadBonus, In, Named
<1>2. /\ req[h].phase = "bonus" /\ req[h].bonus = 0 /\ UNCHANGED db
      /\ req'[h].phase = "refund" /\ req'[h].target = c /\ OnlyRequest(h)
      /\ db[InfoRow(c)] = NoInfo => req'[h].bonus = 0 /\ UNCHANGED <<wip, lock>>
      /\ db[InfoRow(c)] # NoInfo
           => req'[h].bonus = db[InfoRow(c)].penalty /\ Lock(h, InfoRow(c))
  <2>1. req[h].phase = "bonus" /\ req[h].bonus = 0
    BY DEF ReadBonus, In, ScoreInv, ScoreOK, BonusInv
  <2> QED BY <1>1, <2>1, Request_Fields DEF ReadBonus, OnlyRequest, ReqOK, Request
<1>3. \A u \in User : Pending(h, u) = 0 /\ Pending(h, u)' = 0
  BY <1>2 DEF Pending
<1>4. CASE db[InfoRow(c)] = NoInfo
  <2>1. Statement(h) /\ SameAccounts(h)
    BY <1>2, <1>4, Statement_Read DEF SameAccounts, HoldsInfo
  <2>2. BonusInv(h)'
    <3>1. Charge(db, c)' = 0
      BY <1>2, <1>4 DEF Charge
    <3> QED BY <1>2, <1>4, <3>1 DEF BonusInv
  <2>3. PaidInv(h)'
    BY <1>3, <2>1, Same_Ledger DEF ScoreInv, ScoreOK, PaidInv
  <2> QED BY <2>1, <2>2, <2>3, Statement_Score DEF ScoreOK
<1>5. CASE db[InfoRow(c)] # NoInfo
  <2>1. /\ Statement(h) /\ lock'[InfoRow(c)] = h /\ UNCHANGED wip
        /\ \A r \in Row : r # InfoRow(c) => lock'[r] = lock[r]
    BY <1>2, <1>5, Statement_Lock, RowsAreDistinct
  <2>2. BonusInv(h)'
    <3>1. HoldsInfo(h, c)' /\ Charge(db, c)' = req'[h].bonus /\ req'[h].bonus \in Int
      <4>1. db[InfoRow(c)] \in Info
        BY <1>5 DEF TypeInv, LocksOK, RowsOK
      <4> QED BY <1>2, <1>5, <2>1, <4>1 DEF Charge, HoldsInfo, Info
    <3> QED BY <1>2, <3>1 DEF BonusInv
  <2>3. \A u \in User : Gain(h, u)' = Gain(h, u)
    BY <1>2, <2>1, RowsAreDistinct DEF Gain
  <2>4. HoldsInfo(h, c) \/ Charge(wip, c) = Charge(db, c)
    <3>1. lock[InfoRow(c)] \in {h, Nobody}
      BY <1>2, <1>5 DEF Lock, CanWrite
    <3>2. lock[InfoRow(c)] = Nobody => wip[InfoRow(c)] = db[InfoRow(c)]
      BY RowsAreDistinct DEF TypeInv, LocksOK
    <3> QED BY <3>1, <3>2 DEF HoldsInfo, Charge
  <2>5. ASSUME NEW u \in User PROVE Moved(h, u)' = Moved(h, u)
    <3>1. \A d \in Comment : Charge(wip, d)' = Charge(wip, d) /\ Charge(db, d)' = Charge(db, d)
                             /\ Charge(wip, d) \in Int /\ Charge(db, d) \in Int
      BY <1>2, <2>1, Charge_Type DEF Charge, TypeInv
    <3>2. \A d \in Comment \ {c} : HoldsInfo(h, d)' <=> HoldsInfo(h, d)
      BY <2>1, RowsAreDistinct DEF HoldsInfo
    <3>3. \A d \in Comment : Change(h, u)'[d] = Change(h, u)[d]
      <4>1. \A d \in Comment \ {c} : Change(h, u)'[d] = Change(h, u)[d]
        BY <3>1, <3>2 DEF Change
      <4>2. Change(h, u)'[c] = Change(h, u)[c]
        <5>1. /\ Change(h, u)[c] = IF HoldsInfo(h, c) /\ Author[c] = u
                                   THEN Charge(wip, c) - Charge(db, c) ELSE 0
              /\ Change(h, u)'[c] = IF HoldsInfo(h, c)' /\ Author[c] = u
                                    THEN Charge(wip, c) - Charge(db, c) ELSE 0
          BY <3>1 DEF Change
        <5>2. HoldsInfo(h, c)'
          BY <2>1 DEF HoldsInfo
        <5> QED BY <2>4, <3>1, <5>1, <5>2
      <4> QED BY <4>1, <4>2
    <3>4. Moved(h, u)' = Sum(Comment, Change(h, u)')
      BY DEF Moved, Sum, IsSum
    <3>5. Sum(Comment, Change(h, u)') = Sum(Comment, Change(h, u))
      BY <3>3, CommentAssumption, SumSame
    <3> QED BY <3>4, <3>5 DEF Moved
  <2>6. PaidInv(h)'
    BY <1>3, <2>3, <2>5 DEF ScoreInv, ScoreOK, PaidInv
  <2> QED BY <2>1, <2>2, <2>6, Statement_Score DEF ScoreOK
<1> QED BY <1>4, <1>5

LEMMA DeleteInfo_Score ==
    ASSUME TypeInv, PairInv, ScoreInv, NEW h \in Handler, DeleteInfo(h)
    PROVE  ScoreInv'
<1>1. PICK c \in Comment : c = req[h].target
  BY Request_Fields DEF DeleteInfo, In, Named
<1>2. /\ req[h].phase = "delinfo" /\ req'[h].phase = "touch" /\ UNCHANGED db /\ OnlyRequest(h)
      /\ db[InfoRow(c)] = NoInfo => UNCHANGED <<wip, lock>>
      /\ db[InfoRow(c)] # NoInfo => Write(h, InfoRow(c), NoInfo)
  BY <1>1, Request_Fields DEF DeleteInfo, In, OnlyRequest, ReqOK, Request
<1>3. \A u \in User :
        /\ Pending(h, u) = IF Author[c] = u /\ HoldsInfo(h, c) THEN -Charge(db, c) ELSE 0
        /\ Pending(h, u)' = 0
  BY <1>1, <1>2 DEF Pending
<1>4. BonusInv(h)'
  BY <1>2 DEF BonusInv
<1>5. CASE db[InfoRow(c)] = NoInfo
  <2>1. Statement(h) /\ SameAccounts(h)
    BY <1>2, <1>5, Statement_Read DEF SameAccounts, HoldsInfo
  <2>2. \A u \in User : Pending(h, u) = 0
    BY <1>3, <1>5 DEF Charge
  <2>3. PaidInv(h)'
    BY <1>3, <2>1, <2>2, Same_Ledger DEF ScoreInv, ScoreOK, PaidInv
  <2> QED BY <1>4, <2>1, <2>3, Statement_Score DEF ScoreOK
<1>6. CASE db[InfoRow(c)] # NoInfo
  <2>1. /\ Statement(h) /\ wip'[InfoRow(c)] = NoInfo
        /\ \A u \in User :
             /\ Gain(h, u)' = Gain(h, u)
             /\ Moved(h, u)' = Moved(h, u) +
                  (IF Author[c] = u THEN Charge(wip, c)' - Charge(wip, c) ELSE 0)
    BY <1>2, <1>6, Info_Changes
  <2>2. /\ Charge(wip, c)' = 0 /\ Charge(wip, c) \in 0 .. 20 /\ Charge(db, c) \in 0 .. 20
    BY <2>1, Charge_Type DEF Charge, TypeInv
  <2>3. HoldsInfo(h, c) => Charge(wip, c) = Charge(db, c)
    <3>1. RowInv(h) /\ PhaseInv(h)
      BY DEF PairInv
    <3>2. HoldsComment(h, c)
      BY <1>1, <1>2, <3>1 DEF PhaseInv
    <3>3. Unmarked(h, c)
      BY <1>2, <3>1, <3>2 DEF RowInv, Marked, Marking, MadeLive
    <3> QED BY <3>3 DEF Unmarked, Charge
  <2>4. PaidInv(h)'
    <3> SUFFICES ASSUME NEW u \in User PROVE (Gain(h, u) + Moved(h, u) + Pending(h, u) <= 0)'
      BY DEF PaidInv
    <3>1. Gain(h, u) + Moved(h, u)
            + (IF Author[c] = u /\ HoldsInfo(h, c) THEN -Charge(db, c) ELSE 0) <= 0
      BY <1>3 DEF ScoreInv, ScoreOK, PaidInv
    <3>2. Gain(h, u) \in Int /\ Moved(h, u) \in Int
      BY Ledger_Type
    <3> QED BY <1>3, <2>1, <2>2, <2>3, <3>1, <3>2
  <2> QED BY <1>4, <2>1, <2>4, Statement_Score DEF ScoreOK
<1> QED BY <1>5, <1>6

LEMMA Idle_Score ==
    ASSUME TypeInv, NEW h \in Handler, EndTransaction(h)
    PROVE  ScoreOK(h)'
<1>1. /\ \A c \in Comment : ~HoldsInfo(h, c)'
      /\ \A u \in User : lock'[UserRow(u)] # h
  BY End_Facts, RowsAreDistinct, RequestAssumption DEF HoldsInfo
<1>2. req'[h].phase = "idle"
  BY End_Facts DEF NoRequest
<1>3. BonusInv(h)'
  BY <1>2 DEF BonusInv
<1>4. \A u \in User : Gain(h, u)' = 0 /\ Pending(h, u)' = 0
  BY <1>1, <1>2 DEF Gain, Pending
<1>5. ASSUME NEW u \in User PROVE Moved(h, u)' = 0
  <2>1. \A c \in Comment : Change(h, u)'[c] = 0
    BY <1>1 DEF Change
  <2>2. Moved(h, u)' = Sum(Comment, Change(h, u)')
    BY DEF Moved, Sum, IsSum
  <2> QED BY <2>1, <2>2, CommentAssumption, SumOfZeros
<1> QED BY <1>3, <1>4, <1>5 DEF ScoreOK, PaidInv

LEMMA Others_End_Score ==
    ASSUME TypeInv, ScoreInv, NEW h \in Handler, Commit(h) \/ Abort(h),
           NEW g \in Handler, g # h
    PROVE  ScoreOK(g)'
<1>1. EndTransaction(h)
  BY DEF Commit, Abort
<1>2. req'[g] = req[g] /\ \A r \in Row : lock[r] = g <=> lock'[r] = g
  BY <1>1, End_Facts, RequestAssumption DEF OnlyRequest
<1>3. \A r \in Row : lock[r] = g => wip'[r] = wip[r] /\ db'[r] = db[r]
  BY DEF Commit, Abort, Merge
<1>4. SameAccounts(g)
  BY <1>2, <1>3, RowsAreDistinct DEF SameAccounts, HoldsInfo
<1> QED BY <1>2, <1>4, Others_Score DEF ScoreInv

LEMMA Abort_Score ==
    ASSUME TypeInv, ScoreInv, NEW h \in Handler, Abort(h)
    PROVE  ScoreInv'
<1>1. EndTransaction(h) /\ UNCHANGED db
  BY DEF Abort
<1>2. \A u \in User : Solvent(u)'
  <2>1. \A u \in User : Sum(Comment, Charges(u))' = Sum(Comment, Charges(u))
    BY <1>1 DEF Charges, Charge, Sum, IsSum
  <2> QED BY <1>1, <2>1 DEF ScoreInv, Solvent
<1> QED BY <1>1, <1>2, Idle_Score, Others_End_Score DEF ScoreInv

\* What h commits changes a score and what its owner owes by as much as h has moved.
LEMMA Commit_Score ==
    ASSUME TypeInv, ScoreInv, NEW h \in Handler, Commit(h)
    PROVE  ScoreInv'
<1>1. EndTransaction(h) /\ db' = Merge(h, wip, db) /\ req[h].phase = "commit"
  BY DEF Commit, In
<1>2. ASSUME NEW u \in User PROVE Solvent(u)'
  <2>1. db'[UserRow(u)] = db[UserRow(u)] + Gain(h, u)
    <3>1. db[UserRow(u)] \in Int /\ wip[UserRow(u)] \in Int
      BY Ledger_Type
    <3> QED BY <1>1, <3>1, RowsAreDistinct DEF Merge, Gain
  <2>2. \A c \in Comment : Charges(u)'[c] = Charges(u)[c] + Change(h, u)[c]
    <3>1. \A c \in Comment : Charge(db, c)' = IF HoldsInfo(h, c) THEN Charge(wip, c)
                                              ELSE Charge(db, c)
      BY <1>1, RowsAreDistinct DEF Charge, Merge, HoldsInfo
    <3>2. \A c \in Comment : Charge(db, c) \in Int /\ Charge(wip, c) \in Int
      BY Charge_Type DEF TypeInv
    <3> QED BY <3>1, <3>2 DEF Charges, Change
  <2>3. Sum(Comment, Charges(u))' = Sum(Comment, Charges(u)')
    BY DEF Sum, IsSum
  <2>4. Sum(Comment, Charges(u)') = Sum(Comment, Charges(u)) + Moved(h, u)
    BY <2>2, Ledger_Type, CommentAssumption, SumAdds DEF Moved
  <2>5. Gain(h, u) + Moved(h, u) + 0 <= 0 /\ db[UserRow(u)] + Sum(Comment, Charges(u)) <= 0
    BY <1>1 DEF ScoreInv, ScoreOK, PaidInv, Pending, Solvent
  <2>6. /\ Gain(h, u) \in Int /\ Moved(h, u) \in Int
        /\ db[UserRow(u)] \in Int /\ Sum(Comment, Charges(u)) \in Int
    BY Ledger_Type
  <2>7. (db[UserRow(u)] + Gain(h, u)) + (Sum(Comment, Charges(u)) + Moved(h, u)) <= 0
    BY <2>5, <2>6
  <2> QED BY <2>1, <2>3, <2>4, <2>7 DEF Solvent
<1> QED BY <1>1, <1>2, Idle_Score, Others_End_Score DEF ScoreInv

LEMMA Init_Score == Init => ScoreInv
<1> SUFFICES ASSUME Init PROVE ScoreInv
  OBVIOUS
<1>1. \A h \in Handler : req[h].phase = "idle"
  BY DEF Init, NoRequest
<1>2. \A r \in Row, h \in Handler : lock[r] # h
  BY RequestAssumption DEF Init
<1>3. /\ \A c \in Comment : db[InfoRow(c)] = NoInfo
      /\ \A u \in User : db[UserRow(u)] = 0
  <2>1. PICK live \in SUBSET Comment :
           db = [r \in Row |->
                  CASE r[1] = "comment"  -> IF r[2] \in live THEN "live" ELSE "absent"
                    [] r[1] = "del_info" -> NoInfo
                    [] r[1] = "user"     -> 0
                    [] r[1] = "topic"    -> [stat1 |-> Cardinality(live),
                                             stat3 |-> Cardinality(live)]]
    BY DEF Init
  <2>2. \A c \in Comment : db[InfoRow(c)] = NoInfo
    BY <2>1, RowsAreDistinct DEF InfoRow
  <2>3. \A u \in User : db[UserRow(u)] = 0
    BY <2>1, RowsAreDistinct DEF UserRow
  <2> QED BY <2>2, <2>3
<1>4. ASSUME NEW u \in User PROVE Solvent(u)
  <2>1. \A c \in Comment : Charges(u)[c] = 0
    BY <1>3 DEF Charges, Charge
  <2>2. Sum(Comment, Charges(u)) = 0
    BY <2>1, CommentAssumption, SumOfZeros
  <2> QED BY <1>3, <2>2 DEF Solvent
<1>5. ASSUME NEW h \in Handler PROVE ScoreOK(h)
  <2>1. BonusInv(h)
    BY <1>1 DEF BonusInv
  <2>2. \A u \in User : Gain(h, u) = 0 /\ Pending(h, u) = 0
    BY <1>1, <1>2, RowsAreDistinct DEF Gain, Pending
  <2>3. ASSUME NEW u \in User PROVE Moved(h, u) = 0
    <3>1. \A c \in Comment : Change(h, u)[c] = 0
      BY <1>2, RowsAreDistinct DEF Change, HoldsInfo
    <3> QED BY <3>1, CommentAssumption, SumOfZeros DEF Moved
  <2> QED BY <2>1, <2>2, <2>3 DEF ScoreOK, PaidInv
<1> QED BY <1>4, <1>5 DEF ScoreInv

LEMMA Stutter_Score ==
    ASSUME ScoreInv, UNCHANGED vars
    PROVE  ScoreInv'
<1>1. \A u \in User : Solvent(u)'
  <2>1. UNCHANGED db /\ \A u \in User : Sum(Comment, Charges(u))' = Sum(Comment, Charges(u))
    BY DEF vars, Charges, Charge, Sum, IsSum
  <2> QED BY <2>1 DEF ScoreInv, Solvent
<1>2. ASSUME NEW g \in Handler PROVE ScoreOK(g)'
  <2>1. SameAccounts(g)
    BY DEF SameAccounts, HoldsInfo, vars
  <2>2. BonusInv(g)' /\ \A u \in User : Pending(g, u)' = Pending(g, u)
    BY DEF ScoreInv, ScoreOK, BonusInv, Pending, HoldsInfo, Charge, vars
  <2> QED BY <2>1, <2>2, Same_Ledger DEF ScoreInv, ScoreOK, PaidInv
<1> QED BY <1>1, <1>2 DEF ScoreInv

LEMMA Step_Score == CommentInv /\ ScoreInv /\ [Next]_vars => ScoreInv'
<1> SUFFICES ASSUME CommentInv, ScoreInv, [Next]_vars PROVE ScoreInv'
  OBVIOUS
<1>1. TypeInv /\ PairInv
  BY DEF CommentInv
<1>2. CASE UNCHANGED vars
  BY <1>2, Stutter_Score
<1>3. ASSUME NEW h \in Handler, NEW c, NEW u, NEW p, NEW b,
             Delete(h, u, c, p, b) \/ Undelete(h, u, c) \/ Reply(h, c) \/ StatUpdate(h)
      PROVE  ScoreInv'
  BY <1>1, <1>3, Begins_Score
<1>4. ASSUME NEW h \in Handler, NEW c \in Comment, MarkDeleted(h, c) \/ PassOverDeleted(h, c)
      PROVE  ScoreInv'
  BY <1>1, <1>4, Aside_Statements_Score
<1>5. ASSUME NEW h \in Handler,
             \/ CountReplies(h) \/ ReadSubtree(h) \/ LowerCounters(h) \/ Unmark(h)
             \/ TouchTopic(h) \/ ShareParent(h) \/ LockTopic(h) \/ CountComments(h)
             \/ UpdateCounters(h)
      PROVE  ScoreInv'
  BY <1>1, <1>5, Aside_Statements_Score
<1>6. ASSUME NEW h \in Handler,
             \/ ChargeAuthor(h) \/ InsertInfo(h) \/ ReadBonus(h) \/ Refund(h) \/ DeleteInfo(h)
             \/ InsertComment(h) \/ Commit(h) \/ Abort(h)
      PROVE  ScoreInv'
  BY <1>1, <1>6, ChargeAuthor_Score, InsertInfo_Score, ReadBonus_Score, Refund_Score,
     DeleteInfo_Score, InsertComment_Score, Commit_Score, Abort_Score
<1> QED BY <1>2, <1>3, <1>4, <1>5, <1>6 DEF Next

-----------------------------------------------------------------------------
(* The counter of the topic *)

Live == {c \in Comment : Is(c, "live")}

\* The live comments there will be once h has committed.
LiveAfter(h) == {c \in Comment :
    (IF HoldsComment(h, c) THEN wip[CommentRow(c)] ELSE db[CommentRow(c)]) = "live"}

HoldsTopic(h) == lock[TopicRow] = h

\* The topic's row is the last that a transaction locks, but for a recount, which
\* counts no more than there is while it keeps the row.
LockedLast(h) ==
    /\ HoldsTopic(h) => req[h].phase \in {"recount", "update", "commit"}
    /\ req[h].phase \in {"recount", "update"} => HoldsTopic(h)
    /\ req[h].phase = "update" => req[h].count <= Cardinality(Live)

\* A deletion holds the comments it has done, all of them live for the others.
DoneInv(h) ==
    /\ req[h].phase \in {"count", "subtree"} => req[h].done = {}
    /\ req[h].phase \in {"mark", "charge", "info"} =>
         /\ \A c \in req[h].done : HoldsComment(h, c)
         /\ \A c \in Comment : HoldsComment(h, c) =>
              Is(c, "live") /\ (c \in req[h].done \/ (req[h].phase # "mark" /\ c = req[h].at))

\* Who is about to commit counts no more than there will be; who has not locked the
\* topic's row commits nothing about a comment.
Settled(h) ==
    req[h].phase = "commit" =>
      IF HoldsTopic(h) THEN wip[TopicRow].stat1 <= Cardinality(LiveAfter(h))
      ELSE \A c \in Comment : ~HoldsComment(h, c)

CountOK(h) == LockedLast(h) /\ DoneInv(h) /\ Settled(h)
CountInv == CountNotOver /\ \A h \in Handler : CountOK(h)

LEMMA Live_Counted ==
    /\ IsFiniteSet(Live) /\ Cardinality(Live) \in Nat
    /\ \A h : IsFiniteSet(LiveAfter(h)) /\ Cardinality(LiveAfter(h)) \in Nat
<1>1. Live \in SUBSET Comment /\ \A h : LiveAfter(h) \in SUBSET Comment
  BY DEF Live, LiveAfter
<1> QED BY <1>1, Live_Finite

LEMMA CountNotOver_Live == CountNotOver <=> db[TopicRow].stat1 <= Cardinality(Live)
  BY DEF CountNotOver, Live

LEMMA Others_Count ==
    ASSUME TypeInv, NEW g \in Handler, CountOK(g), req'[g] = req[g],
           \A r \in Row : lock[r] = g <=> lock'[r] = g,
           \A r \in Row : lock[r] = g => wip'[r] = wip[r] /\ db'[r] = db[r],
           HoldsTopic(g) => \A c \in Comment : db'[CommentRow(c)] = db[CommentRow(c)]
    PROVE  CountOK(g)'
<1>1. /\ HoldsTopic(g)' <=> HoldsTopic(g)
      /\ HoldsTopic(g) => wip'[TopicRow] = wip[TopicRow]
      /\ \A c \in Comment : /\ HoldsComment(g, c)' <=> HoldsComment(g, c)
                            /\ HoldsComment(g, c) => /\ wip'[CommentRow(c)] = wip[CommentRow(c)]
                                                     /\ Is(c, "live")' <=> Is(c, "live")
  BY RowsAreDistinct DEF HoldsTopic, HoldsComment, Is
<1>2. HoldsTopic(g) => Live' = Live /\ LiveAfter(g)' = LiveAfter(g)
  BY <1>1 DEF Live, LiveAfter, Is
<1>3. LockedLast(g)'
  BY <1>1, <1>2 DEF CountOK, LockedLast
<1>4. DoneInv(g)'
  <2>1. DoneInv(g) /\ req[g].done \subseteq Comment
    BY Request_Fields DEF CountOK
  <2> QED BY <1>1, <2>1 DEF DoneInv
<1>5. Settled(g)'
  BY <1>1, <1>2 DEF CountOK, Settled
<1> QED BY <1>3, <1>4, <1>5 DEF CountOK

LEMMA Statement_Count ==
    ASSUME TypeInv, CountInv, NEW h \in Handler, Statement(h), CountOK(h)'
    PROVE  CountInv'
<1>1. CountNotOver'
  BY DEF CountInv, CountNotOver, Is, Statement
<1>2. ASSUME NEW g \in Handler, g # h
      PROVE  CountOK(g)'
  <2>1. /\ req'[g] = req[g] /\ UNCHANGED db
        /\ \A r \in Row : lock[r] = g <=> lock'[r] = g
        /\ \A r \in Row : lock[r] = g => wip'[r] = wip[r]
    BY <1>2, RequestAssumption DEF Statement
  <2> QED BY <2>1, Others_Count DEF CountInv
<1> QED BY <1>1, <1>2 DEF CountInv

\* The rows of the comments and of the topic are left alone.
Still ==
    /\ \A c \in Comment : UNCHANGED <<lock[CommentRow(c)], wip[CommentRow(c)]>>
    /\ UNCHANGED <<lock[TopicRow], wip[TopicRow]>>

LEMMA Still_Write ==
    ASSUME TypeInv, NEW h \in Handler, NEW x \in Row, NEW v,
           Write(h, x, v) \/ Lock(h, x) \/ UNCHANGED <<wip, lock>>,
           UNCHANGED db, OnlyRequest(h),
           \/ \E u \in User : x = UserRow(u)
           \/ \E c \in Comment : x = InfoRow(c)
    PROVE  Statement(h) /\ Still
<1>1. CASE Write(h, x, v)
  <2>1. /\ Statement(h)
        /\ \A r \in Row : r # x => lock'[r] = lock[r] /\ wip'[r] = wip[r]
    BY <1>1, Statement_Write
  <2> QED BY <2>1, RowsAreDistinct DEF Still
<1>2. CASE Lock(h, x)
  <2>1. /\ Statement(h) /\ UNCHANGED wip
        /\ \A r \in Row : r # x => lock'[r] = lock[r]
    BY <1>2, Statement_Lock
  <2> QED BY <2>1, RowsAreDistinct DEF Still
<1>3. CASE UNCHANGED <<wip, lock>>
  BY <1>3, Statement_Read DEF Still
<1> QED BY <1>1, <1>2, <1>3

\* A step of h that is still and neither deletes nor counts.
LEMMA Still_Count ==
    ASSUME TypeInv, CountInv, NEW h \in Handler, Statement(h), Still,
           req[h].phase \notin {"recount", "update", "commit"},
           req'[h].phase \in {"count", "subtree", "bonus", "share", "locktopic", "refund",
                              "unmark", "touch", "insert"},
           req'[h].phase \in {"count", "subtree"} => req'[h].done = {}
    PROVE  CountInv'
<1>1. ~HoldsTopic(h)'
  BY DEF CountInv, CountOK, LockedLast, HoldsTopic, Still
<1>2. CountOK(h)'
  BY <1>1 DEF CountOK, LockedLast, DoneInv, Settled
<1> QED BY <1>2, Statement_Count

\* A step of a deletion that is still.
LEMMA Still_Done ==
    ASSUME TypeInv, CountInv, NEW h \in Handler, Statement(h), Still,
           req[h].phase \notin {"recount", "update", "commit"},
           req'[h].phase \in {"mark", "info"},
           \A c \in req'[h].done : c \in Comment /\ HoldsComment(h, c),
           \A c \in Comment : HoldsComment(h, c) =>
              Is(c, "live") /\ (c \in req'[h].done \/ (req'[h].phase # "mark" /\ c = req'[h].at))
    PROVE  CountInv'
<1>1. ~HoldsTopic(h)'
  BY DEF CountInv, CountOK, LockedLast, HoldsTopic, Still
<1>2. /\ \A c \in Comment : HoldsComment(h, c)' <=> HoldsComment(h, c)
      /\ \A c \in Comment : Is(c, "live")' <=> Is(c, "live")
  BY DEF Still, HoldsComment, Is, Statement
<1>3. DoneInv(h)'
  BY <1>2 DEF DoneInv
<1>4. CountOK(h)'
  BY <1>1, <1>3 DEF CountOK, LockedLast, Settled
<1> QED BY <1>4, Statement_Count

LEMMA Begin_Count ==
    ASSUME TypeInv, CountInv, NEW h \in Handler, NEW q, Begin(h, q),
           q.phase \in {"count", "subtree", "bonus", "share", "locktopic"}, q.done = {}
    PROVE  CountInv'
<1>0. OnlyRequest(h)
  BY DEF TypeInv, ReqOK, Begin, OnlyRequest
<1>1. Statement(h) /\ Still
  BY <1>0, Statement_Read DEF Begin, Still
<1>2. req[h].phase = "idle" /\ req'[h] = q
  BY Step_Fields DEF Begin, In
<1> QED BY <1>1, <1>2, Still_Count

LEMMA Begins_Count ==
    ASSUME TypeInv, CountInv, NEW h \in Handler, NEW c, NEW u, NEW p, NEW b,
           Delete(h, u, c, p, b) \/ Undelete(h, u, c) \/ Reply(h, c) \/ StatUpdate(h)
    PROVE  CountInv'
<1>1. CASE Delete(h, u, c, p, b)
  <2> DEFINE q == [NoRequest EXCEPT
                     !.phase = IF u \notin Moderator THEN "count" ELSE "subtree",
                     !.target = c, !.actor = u, !.penalty = IF u = Author[c] THEN 0 ELSE p,
                     !.deep = ~(u \notin Moderator) /\ b]
  <2>1. Begin(h, q)
    BY <1>1 DEF Delete
  <2>2. q.phase \in {"count", "subtree"} /\ q.done = {}
    BY DEF NoRequest
  <2> HIDE DEF q
  <2> QED BY <2>1, <2>2, Begin_Count
<1>2. CASE Undelete(h, u, c)
  <2> DEFINE q == [NoRequest EXCEPT !.phase = "bonus", !.target = c, !.actor = u]
  <2>1. Begin(h, q) /\ q.phase = "bonus" /\ q.done = {}
    BY <1>2 DEF Undelete, NoRequest
  <2> HIDE DEF q
  <2> QED BY <2>1, Begin_Count
<1>3. CASE Reply(h, c)
  <2> DEFINE q == [NoRequest EXCEPT !.phase = "share", !.target = c]
  <2>1. Begin(h, q) /\ q.phase = "share" /\ q.done = {}
    BY <1>3 DEF Reply, NoRequest
  <2> HIDE DEF q
  <2> QED BY <2>1, Begin_Count
<1>4. CASE StatUpdate(h)
  <2> DEFINE q == [NoRequest EXCEPT !.phase = "locktopic"]
  <2>1. Begin(h, q) /\ q.phase = "locktopic" /\ q.done = {}
    BY <1>4 DEF StatUpdate, NoRequest
  <2> HIDE DEF q
  <2> QED BY <2>1, Begin_Count
<1> QED BY <1>1, <1>2, <1>3, <1>4

\* Restoring, up to the topic's row, and answering, up to the INSERT.
LEMMA Still_Statements_Count ==
    ASSUME TypeInv, CountInv, NEW h \in Handler,
           ReadBonus(h) \/ Refund(h) \/ DeleteInfo(h) \/ ShareParent(h)
    PROVE  CountInv'
<1>1. req[h] \in Request /\ req \in [Handler -> Request] /\ Named(req[h])
  BY Request_Fields DEF ReqOK
<1>2. OnlyRequest(h) /\ UNCHANGED db
  BY <1>1 DEF OnlyRequest, ReadBonus, Refund, DeleteInfo, ShareParent
<1>3. /\ req[h].phase \in {"bonus", "refund", "delinfo", "share"}
      /\ req'[h].phase \in {"refund", "unmark", "touch", "insert"}
  BY <1>1 DEF ReadBonus, Refund, DeleteInfo, ShareParent, In, Request
<1>4. Statement(h) /\ Still
  <2>1. CASE ShareParent(h)
    BY <1>2, <2>1, Statement_Read DEF ShareParent, Still
  <2>2. CASE ReadBonus(h) \/ Refund(h) \/ DeleteInfo(h)
    <3>1. PICK c \in Comment, a \in User : c = req[h].target /\ a = Author[c]
      BY <1>1, <2>2, CommentAssumption DEF ReadBonus, Refund, DeleteInfo, In, Named
    <3>2. InfoRow(c) \in Row /\ UserRow(a) \in Row
      BY RowsAreDistinct
    <3>3. CASE ReadBonus(h)
      BY <1>2, <3>1, <3>2, <3>3, Still_Write DEF ReadBonus
    <3>4. CASE Refund(h)
      BY <1>2, <3>1, <3>2, <3>4, Still_Write DEF Refund
    <3>5. CASE DeleteInfo(h)
      BY <1>2, <3>1, <3>2, <3>5, Still_Write DEF DeleteInfo
    <3> QED BY <2>2, <3>3, <3>4, <3>5
  <2> QED BY <2>1, <2>2
<1> QED BY <1>3, <1>4, Still_Count

\* A deletion starts with nothing done and nothing held ...
LEMMA Deletion_Count ==
    ASSUME TypeInv, PairInv, CountInv, NEW h \in Handler, CountReplies(h) \/ ReadSubtree(h)
    PROVE  CountInv'
<1>1. req[h] \in Request /\ req \in [Handler -> Request]
  BY Request_Fields DEF ReqOK
<1>2. /\ OnlyRequest(h) /\ UNCHANGED <<db, wip, lock>>
      /\ req[h].phase \in {"count", "subtree"}
      /\ req'[h].phase = "mark" /\ req'[h].done = req[h].done
  BY <1>1 DEF OnlyRequest, CountReplies, ReadSubtree, In, Request
<1>3. req'[h].done = {}
  BY <1>2 DEF CountInv, CountOK, DoneInv
<1>4. \A c \in Comment : ~HoldsComment(h, c)
  BY <1>2, Early_Holds DEF PairInv, PairOK, Early
<1>5. Statement(h) /\ Still
  BY <1>2, Statement_Read DEF Still
<1> QED BY <1>2, <1>3, <1>4, <1>5, Still_Done

\* ... and goes on from a comment to the next.
LEMMA Done_Count ==
    ASSUME TypeInv, PairInv, CountInv, NEW h \in Handler, NEW c,
           PassOverDeleted(h, c) \/ ChargeAuthor(h) \/ InsertInfo(h)
    PROVE  CountInv'
<1>1. /\ req[h] \in Request /\ req \in [Handler -> Request] /\ Named(req[h])
      /\ req[h].done \subseteq Comment
  BY Request_Fields DEF ReqOK
<1>2. OnlyRequest(h) /\ UNCHANGED db
  BY <1>1 DEF OnlyRequest, PassOverDeleted, ChargeAuthor, InsertInfo
<1>3. DoneInv(h)
  BY DEF CountInv, CountOK
<1>4. CASE PassOverDeleted(h, c)
  <2>1. Statement(h) /\ Still
    BY <1>2, <1>4, Statement_Read DEF PassOverDeleted, Still
  <2>2. req[h].phase = "mark" /\ req'[h].phase = "mark" /\ req'[h].done = req[h].done
    BY <1>1, <1>4 DEF PassOverDeleted, In, Request
  <2> QED BY <1>1, <1>3, <2>1, <2>2, Still_Done DEF DoneInv
<1>5. CASE ChargeAuthor(h)
  <2>1. PICK a \in User : a = Author[req[h].at] /\ req[h].phase = "charge"
    BY <1>1, <1>5, CommentAssumption DEF ChargeAuthor, In, Named
  <2>2. PICK b :
           /\ UNCHANGED <<wip, lock>> \/ \E v : Write(h, UserRow(a), v)
           /\ req' = [req EXCEPT ![h].phase = "info", ![h].bonus = b]
    BY <1>5, <2>1 DEF ChargeAuthor
  <2>3. Statement(h) /\ Still
    BY <1>2, <2>2, Still_Write, RowsAreDistinct
  <2>4. req'[h].phase = "info" /\ req'[h].done = req[h].done /\ req'[h].at = req[h].at
    BY <1>1, <2>2 DEF Request
  <2> QED BY <1>1, <1>3, <2>1, <2>3, <2>4, Still_Done DEF DoneInv
<1>6. CASE InsertInfo(h)
  <2>1. PICK d \in Comment : d = req[h].at /\ req[h].phase = "info"
    BY <1>1, <1>6 DEF InsertInfo, In, Named
  <2>2. Statement(h) /\ Still
    BY <1>2, <1>6, <2>1, Still_Write, RowsAreDistinct DEF InsertInfo
  <2>3. req'[h].phase = "mark" /\ req'[h].done = req[h].done \cup {d}
    BY <1>1, <1>6, <2>1 DEF InsertInfo, Request
  <2>4. HoldsComment(h, d)
    BY <2>1 DEF PairInv, PhaseInv
  <2>5. /\ \A e \in req'[h].done : e \in Comment /\ HoldsComment(h, e)
        /\ \A e \in Comment : HoldsComment(h, e) => Is(e, "live") /\ e \in req'[h].done
    BY <1>1, <1>3, <2>1, <2>3, <2>4 DEF DoneInv
  <2> QED BY <2>1, <2>2, <2>3, <2>5, Still_Done
<1> QED BY <1>4, <1>5, <1>6

LEMMA Comment_Count ==
    ASSUME TypeInv, CountInv, NEW h \in Handler, NEW c \in Comment,
           MarkDeleted(h, c) \/ (Unmark(h) /\ c = req[h].target)
    PROVE  CountInv'
<1>1. req[h] \in Request /\ req \in [Handler -> Request] /\ req[h].done \subseteq Comment
  BY Request_Fields DEF ReqOK
<1>2. OnlyRequest(h) /\ UNCHANGED db /\ \E v : Write(h, CommentRow(c), v)
  BY <1>1 DEF OnlyRequest, MarkDeleted, Unmark
<1>3. /\ Statement(h) /\ lock'[CommentRow(c)] = h
      /\ \A r \in Row : r # CommentRow(c) => lock'[r] = lock[r]
  BY <1>2, Statement_Write, RowsAreDistinct
<1>4. /\ HoldsTopic(h)' <=> HoldsTopic(h)
      /\ \A d \in Comment : HoldsComment(h, d)' <=> HoldsComment(h, d) \/ d = c
  BY <1>3, RowsAreDistinct DEF HoldsTopic, HoldsComment
<1>5. LockedLast(h) /\ DoneInv(h)
  BY DEF CountInv, CountOK
<1>6. CASE MarkDeleted(h, c)
  <2>1. /\ req[h].phase = "mark" /\ req'[h].phase = "charge" /\ req'[h].at = c
        /\ req'[h].done = req[h].done /\ Is(c, "live")
    BY <1>1, <1>6 DEF MarkDeleted, In, Request
  <2>2. \A d \in Comment : Is(d, "live")' <=> Is(d, "live")
    BY <1>2 DEF Is
  <2>3. DoneInv(h)'
    BY <1>1, <1>4, <1>5, <2>1, <2>2 DEF DoneInv
  <2>4. CountOK(h)'
    BY <1>4, <1>5, <2>1, <2>3 DEF CountOK, LockedLast, Settled
  <2> QED BY <1>3, <2>4, Statement_Count
<1>7. CASE Unmark(h)
  <2>1. req[h].phase = "unmark" /\ req'[h].phase = "delinfo"
    BY <1>1, <1>7 DEF Unmark, In, Request
  <2>2. CountOK(h)'
    BY <1>4, <1>5, <2>1 DEF CountOK, LockedLast, Settled, DoneInv
  <2> QED BY <1>3, <2>2, Statement_Count
<1> QED BY <1>6, <1>7

\* A topic's row that h is about to lock is as it was committed.
LEMMA Topic_Fresh ==
    ASSUME TypeInv, CountInv, NEW h \in Handler, lock[TopicRow] \in {h, Nobody},
           req[h].phase \notin {"recount", "update", "commit"}
    PROVE  /\ wip[TopicRow] = db[TopicRow] /\ wip[TopicRow].stat1 \in Int
           /\ wip[TopicRow].stat1 <= Cardinality(Live)
<1>1. lock[TopicRow] = Nobody
  BY DEF CountInv, CountOK, LockedLast, HoldsTopic
<1>2. wip[TopicRow] = db[TopicRow] /\ wip[TopicRow] \in Counters
  BY <1>1, RowsAreDistinct DEF TypeInv, LocksOK, RowsOK
<1>3. wip[TopicRow].stat1 \in Int
  BY <1>2 DEF Counters
<1> QED BY <1>2, <1>3, CountNotOver_Live DEF CountInv

LEMMA Topic_Write ==
    ASSUME TypeInv, NEW h \in Handler, NEW v, UNCHANGED db, OnlyRequest(h),
           Write(h, TopicRow, v) \/ (Lock(h, TopicRow) /\ v = wip[TopicRow])
    PROVE  /\ Statement(h) /\ lock[TopicRow] \in {h, Nobody}
           /\ HoldsTopic(h)' /\ wip'[TopicRow] = v
           /\ \A c \in Comment : HoldsComment(h, c)' <=> HoldsComment(h, c)
           /\ LiveAfter(h)' = LiveAfter(h) /\ Live' = Live
<1>1. lock[TopicRow] \in {h, Nobody}
  BY DEF Write, Lock, CanWrite
<1>2. /\ Statement(h) /\ lock'[TopicRow] = h /\ wip'[TopicRow] = v
      /\ \A r \in Row : r # TopicRow => lock'[r] = lock[r] /\ wip'[r] = wip[r]
  <2>1. CASE Write(h, TopicRow, v)
    BY <2>1, Statement_Write, RowsAreDistinct
  <2>2. CASE Lock(h, TopicRow) /\ v = wip[TopicRow]
    BY <2>2, Statement_Lock, RowsAreDistinct
  <2> QED BY <2>1, <2>2
<1>3. \A c \in Comment : /\ HoldsComment(h, c)' <=> HoldsComment(h, c)
                         /\ wip'[CommentRow(c)] = wip[CommentRow(c)]
  BY <1>2, RowsAreDistinct DEF HoldsComment
<1>4. LiveAfter(h)' = LiveAfter(h) /\ Live' = Live
  BY <1>3 DEF LiveAfter, Live, Is
<1> QED BY <1>1, <1>2, <1>3, <1>4 DEF HoldsTopic

LEMMA Recount_Count ==
    ASSUME TypeInv, PairInv, CountInv, NEW h \in Handler,
           LockTopic(h) \/ CountComments(h) \/ UpdateCounters(h)
    PROVE  CountInv'
<1>1. req[h] \in Request /\ req \in [Handler -> Request] /\ req[h].count \in Nat
  BY Request_Fields DEF ReqOK
<1>2. OnlyRequest(h) /\ UNCHANGED db
  BY <1>1 DEF OnlyRequest, LockTopic, CountComments, UpdateCounters
<1>3. LockedLast(h) /\ DoneInv(h)
  BY DEF CountInv, CountOK
<1>4. CASE LockTopic(h)
  <2>1. Statement(h) /\ HoldsTopic(h)'
    BY <1>2, <1>4, Topic_Write DEF LockTopic
  <2>2. req'[h].phase = "recount"
    BY <1>1, <1>4 DEF LockTopic, Request
  <2>3. CountOK(h)'
    BY <2>1, <2>2 DEF CountOK, LockedLast, DoneInv, Settled
  <2> QED BY <2>1, <2>3, Statement_Count
<1>5. CASE CountComments(h)
  <2>1. /\ Statement(h) /\ HoldsTopic(h)' /\ Live' = Live
    <3>1. Statement(h) /\ UNCHANGED <<db, lock>> /\ req[h].phase = "recount"
      BY <1>2, <1>5, Statement_Read DEF CountComments, In
    <3> QED BY <1>3, <3>1 DEF LockedLast, HoldsTopic, Live, Is
  <2>2. req'[h].phase = "update" /\ req'[h].count = Cardinality(Live)
    BY <1>1, <1>5 DEF CountComments, Request, Live
  <2>3. CountOK(h)'
    BY <2>1, <2>2, Live_Counted DEF CountOK, LockedLast, DoneInv, Settled
  <2> QED BY <2>1, <2>3, Statement_Count
<1>6. CASE UpdateCounters(h)
  <2>1. req[h].phase = "update" /\ req'[h].phase = "commit"
    BY <1>1, <1>6 DEF UpdateCounters, In, Request
  <2>2. PICK n : Write(h, TopicRow, [stat1 |-> req[h].count, stat3 |-> n])
    BY <1>6 DEF UpdateCounters
  <2> DEFINE v == [stat1 |-> req[h].count, stat3 |-> n]
  <2>3. v.stat1 = req[h].count
    OBVIOUS
  <2>4. PICK w : w = v
    OBVIOUS
  <2> HIDE DEF v
  <2>5. /\ Statement(h) /\ HoldsTopic(h)' /\ wip'[TopicRow] = w
        /\ LiveAfter(h)' = LiveAfter(h)
    BY <1>2, <2>2, <2>4, Topic_Write DEF v
  <2>6. \A c \in Comment : ~HoldsComment(h, c)
    BY <2>1, Early_Holds DEF PairInv, PairOK, Early
  <2>7. LiveAfter(h) = Live
    BY <2>6 DEF LiveAfter, Live, Is
  <2>8. (wip[TopicRow].stat1)' <= Cardinality(LiveAfter(h)')
    BY <1>3, <2>1, <2>3, <2>4, <2>5, <2>7 DEF LockedLast
  <2>9. CountOK(h)'
    BY <2>1, <2>5, <2>8 DEF CountOK, LockedLast, DoneInv, Settled
  <2> QED BY <2>5, <2>9, Statement_Count
<1> QED BY <1>4, <1>5, <1>6

LEMMA TouchTopic_Count ==
    ASSUME TypeInv, PairInv, CountInv, NEW h \in Handler, TouchTopic(h)
    PROVE  CountInv'
<1>1. /\ req[h].phase = "touch" /\ req'[h].phase = "commit"
      /\ OnlyRequest(h) /\ UNCHANGED db /\ Lock(h, TopicRow)
  BY Request_Fields DEF TouchTopic, In, ReqOK, Request, OnlyRequest
<1>2. PICK v : v = wip[TopicRow]
  OBVIOUS
<1>3. /\ Statement(h) /\ lock[TopicRow] \in {h, Nobody} /\ HoldsTopic(h)'
      /\ wip'[TopicRow] = v /\ LiveAfter(h)' = LiveAfter(h)
  BY <1>1, <1>2, Topic_Write
<1>4. v.stat1 \in Int /\ v.stat1 <= Cardinality(Live)
  BY <1>1, <1>2, <1>3, Topic_Fresh
<1>5. Live \in SUBSET LiveAfter(h)
  <2>1. \A c \in Comment : HoldsComment(h, c) => wip[CommentRow(c)] = "live"
    BY <1>1 DEF PairInv, RowInv, Marked, Marking, Unmarked, MadeLive
  <2> QED BY <2>1 DEF Live, LiveAfter, Is
<1>6. Cardinality(Live) <= Cardinality(LiveAfter(h))
  BY <1>5, Live_Counted, FS_Subset
<1>7. (wip[TopicRow].stat1)' <= Cardinality(LiveAfter(h)')
  BY <1>3, <1>4, <1>6, Live_Counted
<1>8. CountOK(h)'
  BY <1>1, <1>3, <1>7 DEF CountOK, LockedLast, DoneInv, Settled
<1> QED BY <1>3, <1>8, Statement_Count

LEMMA LowerCounters_Count ==
    ASSUME TypeInv, PairInv, CountInv, NEW h \in Handler, LowerCounters(h)
    PROVE  CountInv'
<1>1. /\ req[h].phase = "mark" /\ req'[h].phase = "commit"
      /\ OnlyRequest(h) /\ UNCHANGED db
  BY Request_Fields DEF LowerCounters, In, ReqOK, Request, OnlyRequest
<1>2. PICK done \in SUBSET Comment : done = req[h].done
  BY Request_Fields
<1>3. \A c \in Comment : /\ HoldsComment(h, c) <=> c \in done
                         /\ c \in done => Is(c, "live")
  BY <1>1, <1>2 DEF CountInv, CountOK, DoneInv
<1>4. CASE done = {}
  <2>1. UNCHANGED <<wip, lock>>
    BY <1>2, <1>4 DEF LowerCounters
  <2>2. Statement(h) /\ ~HoldsTopic(h)' /\ \A c \in Comment : ~HoldsComment(h, c)'
    BY <1>1, <1>3, <1>4, <2>1, Statement_Read
       DEF CountInv, CountOK, LockedLast, HoldsTopic, HoldsComment
  <2>3. CountOK(h)'
    BY <1>1, <2>2 DEF CountOK, LockedLast, DoneInv, Settled
  <2> QED BY <2>2, <2>3, Statement_Count
<1>5. CASE done # {}
  <2>1. PICK v : v = Lowered(wip[TopicRow], Cardinality(done))
    OBVIOUS
  <2>2. Write(h, TopicRow, v)
    BY <1>2, <1>5, <2>1 DEF LowerCounters
  <2>3. /\ Statement(h) /\ lock[TopicRow] \in {h, Nobody} /\ HoldsTopic(h)'
        /\ wip'[TopicRow] = v /\ LiveAfter(h)' = LiveAfter(h)
    BY <1>1, <2>2, Topic_Write
  <2>4. /\ v.stat1 = wip[TopicRow].stat1 - Cardinality(done)
        /\ wip[TopicRow].stat1 \in Int /\ wip[TopicRow].stat1 <= Cardinality(Live)
    BY <1>1, <2>1, <2>3, Topic_Fresh DEF Lowered
  <2>5. LiveAfter(h) = Live \ done
    <3>1. \A c \in Comment : HoldsComment(h, c) => wip[CommentRow(c)] = "deleted"
      BY <1>1 DEF PairInv, RowInv, Marked, Marking, Unmarked, MadeLive
    <3> QED BY <1>3, <3>1 DEF Live, LiveAfter, Is
  <2>6. Cardinality(Live \ done) = Cardinality(Live) - Cardinality(done)
    <3>1. Live \cap done = done
      BY <1>3 DEF Live
    <3> QED BY <3>1, Live_Counted, FS_Difference
  <2>7. Cardinality(done) \in Nat
    BY Live_Finite
  <2>8. (wip[TopicRow].stat1)' <= Cardinality(LiveAfter(h)')
    BY <2>3, <2>4, <2>5, <2>6, <2>7, Live_Counted
  <2>9. CountOK(h)'
    BY <1>1, <2>3, <2>8 DEF CountOK, LockedLast, DoneInv, Settled
  <2> QED BY <2>3, <2>9, Statement_Count
<1> QED BY <1>4, <1>5

LEMMA InsertComment_Count ==
    ASSUME CommentInv, CountInv, NEW h \in Handler, InsertComment(h)
    PROVE  CountInv'
<1>0. TypeInv /\ PairInv /\ TargetInv(h)
  BY DEF CommentInv, ReplyInv
<1>1. PICK c \in Comment : c = req[h].target
  BY <1>0, InsertComment_Facts
<1>2. /\ req[h].phase = "insert" /\ Statement(h) /\ req'[h].phase = "commit"
      /\ lock[TopicRow] \in {h, Nobody} /\ lock'[TopicRow] = h
      /\ lock'[CommentRow(c)] = h /\ wip'[CommentRow(c)] = "live"
      /\ wip'[TopicRow].stat1 = wip[TopicRow].stat1 + 1
      /\ \A r \in Row : r # CommentRow(c) /\ r # TopicRow
                          => lock'[r] = lock[r] /\ wip'[r] = wip[r]
  BY <1>0, <1>1, InsertComment_Facts
<1>3. c \notin Live
  BY <1>0, <1>1, <1>2 DEF TargetInv, Live, Is
<1>4. LiveAfter(h)' = Live \cup {c}
  <2>1. \A d \in Comment : HoldsComment(h, d)' <=> d = c
    BY <1>0, <1>2, Early_Holds, RowsAreDistinct DEF PairInv, PairOK, Early, HoldsComment
  <2>2. UNCHANGED db
    BY <1>2 DEF Statement
  <2> QED BY <1>2, <2>1, <2>2 DEF LiveAfter, Live, Is
<1>5. wip[TopicRow].stat1 \in Int /\ wip[TopicRow].stat1 <= Cardinality(Live)
  BY <1>0, <1>2, Topic_Fresh
<1>6. Cardinality(Live \cup {c}) = Cardinality(Live) + 1
  BY <1>3, Live_Counted, FS_AddElement
<1>7. (wip[TopicRow].stat1)' <= Cardinality(LiveAfter(h)')
  BY <1>2, <1>4, <1>5, <1>6, Live_Counted
<1>8. CountOK(h)'
  BY <1>2, <1>7 DEF CountOK, LockedLast, DoneInv, Settled, HoldsTopic
<1> QED BY <1>0, <1>2, <1>8, Statement_Count

LEMMA Idle_Count ==
    ASSUME TypeInv, NEW h \in Handler, EndTransaction(h)
    PROVE  CountOK(h)'
<1>1. req'[h].phase = "idle"
  BY End_Facts DEF NoRequest
<1>2. ~HoldsTopic(h)'
  BY End_Facts, RowsAreDistinct, RequestAssumption DEF HoldsTopic
<1> QED BY <1>1, <1>2 DEF CountOK, LockedLast, DoneInv, Settled

LEMMA Abort_Count ==
    ASSUME TypeInv, CountInv, NEW h \in Handler, Abort(h)
    PROVE  CountInv'
<1>1. EndTransaction(h) /\ UNCHANGED db /\ wip' = Merge(h, db, wip)
  BY DEF Abort
<1>2. CountNotOver'
  BY <1>1 DEF CountInv, CountNotOver, Is
<1>3. ASSUME NEW g \in Handler, g # h PROVE CountOK(g)'
  <2>1. req'[g] = req[g] /\ \A r \in Row : lock[r] = g <=> lock'[r] = g
    BY <1>1, <1>3, End_Facts, RequestAssumption DEF OnlyRequest
  <2>2. \A r \in Row : lock[r] = g => wip'[r] = wip[r] /\ db'[r] = db[r]
    BY <1>1, <1>3 DEF Merge
  <2> QED BY <1>1, <2>1, <2>2, Others_Count DEF CountInv
<1> QED BY <1>1, <1>2, <1>3, Idle_Count DEF CountInv

\* Who commits a change to a comment holds the topic's row, so nobody else is
\* about to commit a counter.
LEMMA Commit_Count ==
    ASSUME TypeInv, CountInv, NEW h \in Handler, Commit(h)
    PROVE  CountInv'
<1>1. /\ EndTransaction(h) /\ UNCHANGED wip /\ db' = Merge(h, wip, db)
      /\ req[h].phase = "commit" /\ Settled(h)
  BY DEF Commit, In, CountInv, CountOK
<1>2. Live' = LiveAfter(h)
  <2>1. \A c \in Comment : db'[CommentRow(c)] = IF HoldsComment(h, c) THEN wip[CommentRow(c)]
                                                ELSE db[CommentRow(c)]
    BY <1>1, RowsAreDistinct DEF Merge, HoldsComment
  <2> QED BY <2>1 DEF Live, LiveAfter, Is
<1>3. db'[TopicRow] = IF HoldsTopic(h) THEN wip[TopicRow] ELSE db[TopicRow]
  BY <1>1, RowsAreDistinct DEF Merge, HoldsTopic
<1>4. ~HoldsTopic(h) => \A c \in Comment : db'[CommentRow(c)] = db[CommentRow(c)]
  BY <1>1, RowsAreDistinct DEF Settled, Merge, HoldsComment
<1>5. CountNotOver'
  <2>1. (db[TopicRow].stat1 <= Cardinality(Live))'
    <3>1. CASE HoldsTopic(h)
      BY <1>1, <1>2, <1>3, <3>1 DEF Settled
    <3>2. CASE ~HoldsTopic(h)
      <4>1. Live' = Live
        BY <1>4, <3>2 DEF Live, Is
      <4>2. db[TopicRow].stat1 <= Cardinality(Live)
        BY CountNotOver_Live DEF CountInv
      <4> QED BY <1>3, <3>2, <4>1, <4>2
    <3> QED BY <3>1, <3>2
  <2> QED BY <2>1 DEF CountNotOver, Live
<1>6. ASSUME NEW g \in Handler, g # h PROVE CountOK(g)'
  <2>1. req'[g] = req[g] /\ \A r \in Row : lock[r] = g <=> lock'[r] = g
    BY <1>1, <1>6, End_Facts, RequestAssumption DEF OnlyRequest
  <2>2. \A r \in Row : lock[r] = g => wip'[r] = wip[r] /\ db'[r] = db[r]
    BY <1>1, <1>6 DEF Merge
  <2>3. HoldsTopic(g) => \A c \in Comment : db'[CommentRow(c)] = db[CommentRow(c)]
    BY <1>4, <1>6 DEF HoldsTopic
  <2> QED BY <2>1, <2>2, <2>3, Others_Count DEF CountInv
<1> QED BY <1>1, <1>5, <1>6, Idle_Count DEF CountInv

LEMMA Init_Count == Init => CountInv
<1> SUFFICES ASSUME Init PROVE CountInv
  OBVIOUS
<1>1. \A h \in Handler : req[h].phase = "idle" /\ ~HoldsTopic(h)
  BY RowsAreDistinct, RequestAssumption DEF Init, NoRequest, HoldsTopic
<1>2. \A h \in Handler : CountOK(h)
  BY <1>1 DEF CountOK, LockedLast, DoneInv, Settled
<1>3. PICK live \in SUBSET Comment :
        db = [r \in Row |->
               CASE r[1] = "comment"  -> IF r[2] \in live THEN "live" ELSE "absent"
                 [] r[1] = "del_info" -> NoInfo
                 [] r[1] = "user"     -> 0
                 [] r[1] = "topic"    -> [stat1 |-> Cardinality(live),
                                          stat3 |-> Cardinality(live)]]
  BY DEF Init
<1>4. \A c \in Comment : db[CommentRow(c)] = IF c \in live THEN "live" ELSE "absent"
  BY <1>3, RowsAreDistinct DEF CommentRow
<1>5. db[TopicRow] = [stat1 |-> Cardinality(live), stat3 |-> Cardinality(live)]
  BY <1>3, RowsAreDistinct DEF TopicRow
<1>6. Live = live /\ db[TopicRow].stat1 = Cardinality(live)
  BY <1>4, <1>5 DEF Live, Is
<1>7. CountNotOver
  <2>1. Cardinality(Live) \in Nat
    BY Live_Counted
  <2> QED BY <1>6, <2>1, CountNotOver_Live
<1> QED BY <1>2, <1>7 DEF CountInv

LEMMA Stutter_Count ==
    ASSUME TypeInv, CountInv, UNCHANGED vars
    PROVE  CountInv'
<1>1. CountNotOver'
  BY DEF CountInv, CountNotOver, Is, vars
<1>2. ASSUME NEW g \in Handler PROVE CountOK(g)'
  BY Others_Count DEF CountInv, vars
<1> QED BY <1>1, <1>2 DEF CountInv

LEMMA Step_Count == CommentInv /\ CountInv /\ [Next]_vars => CountInv'
<1> SUFFICES ASSUME CommentInv, CountInv, [Next]_vars PROVE CountInv'
  OBVIOUS
<1>1. TypeInv /\ PairInv
  BY DEF CommentInv
<1>2. CASE UNCHANGED vars
  BY <1>1, <1>2, Stutter_Count
<1>3. ASSUME NEW h \in Handler, NEW c, NEW u, NEW p, NEW b,
             Delete(h, u, c, p, b) \/ Undelete(h, u, c) \/ Reply(h, c) \/ StatUpdate(h)
      PROVE  CountInv'
  BY <1>1, <1>3, Begins_Count
<1>4. ASSUME NEW h \in Handler, NEW c \in Comment, MarkDeleted(h, c) \/ PassOverDeleted(h, c)
      PROVE  CountInv'
  BY <1>1, <1>4, Comment_Count, Done_Count
<1>5. ASSUME NEW h \in Handler, Unmark(h)
      PROVE  CountInv'
  <2>1. PICK c \in Comment : c = req[h].target
    BY <1>1, <1>5, Request_Fields DEF Unmark, In, Named
  <2> QED BY <1>1, <1>5, <2>1, Comment_Count
<1>6. ASSUME NEW h \in Handler,
             \/ CountReplies(h) \/ ReadSubtree(h) \/ ChargeAuthor(h) \/ InsertInfo(h)
             \/ ReadBonus(h) \/ Refund(h) \/ DeleteInfo(h) \/ ShareParent(h)
      PROVE  CountInv'
  BY <1>1, <1>6, Deletion_Count, Done_Count, Still_Statements_Count
<1>7. ASSUME NEW h \in Handler,
             \/ LowerCounters(h) \/ TouchTopic(h) \/ InsertComment(h) \/ LockTopic(h)
             \/ CountComments(h) \/ UpdateCounters(h) \/ Commit(h) \/ Abort(h)
      PROVE  CountInv'
  BY <1>1, <1>7, LowerCounters_Count, TouchTopic_Count, InsertComment_Count, Recount_Count,
     Commit_Count, Abort_Count
<1> QED BY <1>2, <1>3, <1>4, <1>5, <1>6, <1>7 DEF Next

\* However many deletions, restorations, replies and recounts of one topic overlap, no
\* author's score is ever above what the deletions in force leave of it, and the topic
\* never counts more comments than are live: del_info is locked from the reading of
\* the penalty to its refund (comment_deletion_repository.rs:433-454), and nobody
\* commits a change of a comment without the topic's row.
THEOREM NothingIsOvercounted == Spec => []NeverOvercounted
<1>1. CommentInv /\ ScoreInv /\ CountInv => NeverOvercounted
  <2> SUFFICES ASSUME CommentInv, ScoreInv, CountInv PROVE NeverOvercounted
    OBVIOUS
  <2>1. TypeInv /\ LocksOK
    BY DEF CommentInv, TypeInv
  <2>2. ASSUME NEW u \in User PROVE db[UserRow(u)] <= -Owed(u)
    <3>1. Owed(u) = Sum(Comment, Charges(u))
      BY <2>1, Owed_IsSum
    <3>2. Sum(Comment, Charges(u)) \in Int /\ db[UserRow(u)] \in Int
      <4>1. IsFiniteSet(Comment) /\ \A c \in Comment : Charges(u)[c] \in Int
        BY <2>1, Charge_Type, CommentAssumption DEF Charges
      <4> QED BY <2>1, <4>1, SumIsInteger DEF LocksOK, RowsOK
    <3>3. db[UserRow(u)] + Sum(Comment, Charges(u)) <= 0
      BY DEF ScoreInv, Solvent
    <3> QED BY <3>1, <3>2, <3>3
  <2> QED BY <2>2 DEF NeverOvercounted, NeverOverpaid, CountInv
<1> QED BY <1>1, Init_Inv, Step_Inv, Init_Score, Step_Score, Init_Count, Step_Count, PTL DEF Spec
=============================================================================
