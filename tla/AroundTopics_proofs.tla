---------------------------- MODULE AroundTopics_proofs -------------------------
(***************************************************************************)
(* What the lists, the limits on posting and the polls promise.            *)
(* - Lists, for any sections, intervals and viewers: the promises follow   *)
(*   from what every row keeps to, that a topic is confirmed exactly when  *)
(*   it has a date of confirmation, and then is no draft.                  *)
(* - Posting, for any thresholds and any number of requests and addresses: *)
(*   from what an empty cache says of those who come, and from the room    *)
(*   that whoever was not refused nor overtaken still has.                 *)
(* - Polls, for any users, requests and edits: from what a transaction has *)
(*   inserted, which no other votes for and no edit deletes.               *)
(* - UnreadEvents, for any users, requests and events: from how far each   *)
(*   transaction has come, and, of one that nothing overlaps, from what a  *)
(*   number still lacks of its rows.                                       *)
(* - Tags, for any topics, names and requests: from what each transaction  *)
(*   holds uncommitted, which no other makes, renames or deletes, from     *)
(*   what it has counted and who has told it of other commits since, and   *)
(*   from who is about to queue a topic.                                   *)
(***************************************************************************)
EXTENDS AroundTopics, Sequences, FiniteSetTheorems, TLAPS

-----------------------------------------------------------------------------
(* Lists *)

Row == [group : Group, draft : BOOLEAN, deleted : BOOLEAN, sticky : BOOLEAN,
        moderate : BOOLEAN, commit : {Never} \cup (0 .. now), post : 0 .. now,
        deldate : {Never} \cup (0 .. now), warned : BOOLEAN]

\* What the queries rely on: each asks for one of two columns that agree.
RowSound ==
    /\ t.moderate <=> t.commit # Never
    /\ t.moderate => ~t.draft
    /\ t.deleted <=> t.deldate # Never

ListInv == ListTypeOK /\ IsFiniteSet(open) /\ RowSound

-----------------------------------------------------------------------------
LEMMA InitInv == ASSUME Init PROVE ListInv
<1>1. open = {} /\ IsFiniteSet(open) /\ Cardinality(open) = 0
  BY FS_EmptySet DEF Init
<1>2. MaxTime \in Nat /\ MaxOpen \in Nat
  BY SectionsAreKnown
<1>3. PICK g \in Group, d \in BOOLEAN :
        t = [group |-> g, draft |-> d, deleted |-> FALSE, sticky |-> FALSE, moderate |-> FALSE,
             commit |-> Never, post |-> 0, deldate |-> Never, warned |-> FALSE]
  BY DEF Init
<1>4. now = 0
  BY DEF Init
<1>5. t \in Row
  BY <1>3, <1>4 DEF Row
<1>6. RowSound
  BY <1>3 DEF RowSound
<1> QED
  BY <1>1, <1>2, <1>4, <1>5, <1>6 DEF ListInv, ListTypeOK, Row

\* A request that ends leaves a finite set of others.
LEMMA CloseOpen ==
    ASSUME ListInv, NEW r, Close(r)
    PROVE  /\ open' \subseteq Request /\ IsFiniteSet(open') /\ Cardinality(open') <= MaxOpen
           /\ now' = now /\ r \in Request
<1>1. open' = open \ {r} /\ r \in open /\ now' = now
  BY DEF Close
<1>2. Cardinality(open') = Cardinality(open) - 1 /\ IsFiniteSet(open') /\ Cardinality(open) \in Nat
  BY <1>1, FS_RemoveElement, FS_CardinalityType DEF ListInv
<1> QED
  BY <1>1, <1>2, SectionsAreKnown DEF ListInv, ListTypeOK

\* An update of one row keeps it a row, and its columns in agreement.
LEMMA UpdateInv ==
    ASSUME ListInv, NEW r, Close(r), t' \in Row, RowSound'
    PROVE  ListInv'
<1>1. Row' = Row
  BY CloseOpen DEF Row
<1> QED
  BY <1>1, CloseOpen DEF ListInv, ListTypeOK, Row

LEMMA PublishedRow ==
    ASSUME ListInv
    PROVE  /\ Published(t) \in Row /\ ~Published(t).draft
           /\ \A f \in {"deleted", "moderate", "commit", "deldate"} : Published(t)[f] = t[f]
<1>1. now \in Nat /\ t \in Row
  BY DEF ListInv, ListTypeOK, Row
<1>2. CASE t.draft
  <2> DEFINE u == [t EXCEPT !.draft = FALSE]
  <2>1. u \in Row /\ ~u.draft
    BY <1>1 DEF Row
  <2>2. \A f \in {"deleted", "moderate", "commit", "deldate"} : u[f] = t[f]
    BY <1>1 DEF Row
  <2>3. Published(t) = [u EXCEPT !.post = now]
    BY <1>1, <1>2 DEF Published, Row
  <2> HIDE DEF u
  <2>4. Published(t) \in Row /\ ~Published(t).draft
    BY <1>1, <2>1, <2>3 DEF Row
  <2>5. \A f \in {"deleted", "moderate", "commit", "deldate"} : Published(t)[f] = u[f]
    BY <2>1, <2>3 DEF Row
  <2> QED
    BY <2>2, <2>4, <2>5
<1>3. CASE ~t.draft
  BY <1>1, <1>3 DEF Published, Row
<1> QED
  BY <1>2, <1>3

LEMMA StepBegin ==
    ASSUME ListInv, NEW q \in Request, Begin(q)
    PROVE  ListInv'
<1>1. open' = open \cup {q} /\ q \notin open /\ Cardinality(open) < MaxOpen /\ t' = t /\ now' = now
  BY DEF Begin
<1>2. /\ IsFiniteSet(open') /\ Cardinality(open') = Cardinality(open) + 1
      /\ Cardinality(open) \in Nat
  BY <1>1, FS_AddElement, FS_CardinalityType DEF ListInv
<1>3. Cardinality(open') <= MaxOpen
  BY <1>1, <1>2, SectionsAreKnown
<1> QED
  BY <1>1, <1>2, <1>3 DEF ListInv, ListTypeOK, RowSound

\* A request of any kind that ends.
LEMMA StepPublish ==
    ASSUME ListInv, Publish
    PROVE  ListInv'
<1>1. PICK r \in open : Close(r) /\ t' = Published(t)
  BY DEF Publish
<1>2. RowSound'
  BY <1>1, PublishedRow DEF ListInv, RowSound
<1> QED
  BY <1>1, <1>2, PublishedRow, UpdateInv

LEMMA StepConfirm ==
    ASSUME ListInv, Confirm
    PROVE  ListInv'
<1>1. PICK r \in open : Close(r) /\ t' = Confirmed(t)
  BY DEF Confirm
<1> DEFINE u == Published(t)
<1>2. u \in Row /\ ~u.draft /\ u.deleted = t.deleted /\ u.deldate = t.deldate
  BY PublishedRow
<1>3. t' = [u EXCEPT !.moderate = TRUE, !.commit = now] /\ now \in Nat
  BY <1>1 DEF Confirmed, ListInv, ListTypeOK
<1> HIDE DEF u
<1>4. t' \in Row
  <2> DEFINE w == [u EXCEPT !.moderate = TRUE]
  <2>1. w \in Row
    BY <1>2 DEF Row
  <2>2. t' = [w EXCEPT !.commit = now]
    BY <1>2, <1>3 DEF Row
  <2> HIDE DEF w
  <2> QED
    BY <1>3, <2>1, <2>2 DEF Row
<1>5. RowSound'
  BY <1>2, <1>3 DEF ListInv, RowSound, Row, Never
<1> QED
  BY <1>1, <1>4, <1>5, UpdateInv

LEMMA StepUncommit ==
    ASSUME ListInv, Uncommit
    PROVE  ListInv'
<1>1. PICK r \in open : Close(r) /\ t' = [t EXCEPT !.moderate = FALSE, !.commit = Never]
  BY DEF Uncommit
<1>2. t \in Row
  BY DEF ListInv, ListTypeOK, Row
<1>3. t' \in Row
  BY <1>1, <1>2 DEF Row
<1>4. RowSound'
  BY <1>1, <1>2 DEF ListInv, RowSound, Row
<1> QED
  BY <1>1, <1>3, <1>4, UpdateInv

LEMMA StepMove ==
    ASSUME ListInv, Move
    PROVE  ListInv'
<1>1. PICK r \in open : r.op = "move" /\ Close(r) /\ t' = [t EXCEPT !.group = r.to]
  BY DEF Move
<1>2. t \in Row
  BY DEF ListInv, ListTypeOK, Row
<1>3. r.to \in Group
  BY <1>1, CloseOpen DEF Request
<1> DEFINE g == r.to
<1> HIDE DEF g
<1>4. t' \in Row
  <2>1. g \in Group /\ t' = [t EXCEPT !.group = g]
    BY <1>1, <1>3 DEF g
  <2> QED
    BY <1>2, <2>1 DEF Row
<1>5. RowSound'
  BY <1>1, <1>2 DEF ListInv, RowSound, Row
<1> QED
  BY <1>1, <1>4, <1>5, UpdateInv

LEMMA StepDelete ==
    ASSUME ListInv, Delete
    PROVE  ListInv'
<1>1. PICK r \in open : /\ Close(r)
                        /\ t' = IF t.deleted THEN t
                                ELSE [t EXCEPT !.deleted = TRUE, !.sticky = FALSE, !.deldate = now]
  BY DEF Delete
<1>2. t \in Row /\ now \in Nat
  BY DEF ListInv, ListTypeOK, Row
<1>3. t' \in Row
  <2>1. CASE t.deleted
    BY <1>1, <1>2, <2>1
  <2>2. CASE ~t.deleted
    <3> DEFINE u == [t EXCEPT !.deleted = TRUE]
               w == [u EXCEPT !.sticky = FALSE]
    <3>1. u \in Row
      BY <1>2 DEF Row
    <3>2. w \in Row
      <4> HIDE DEF u
      <4> QED
        BY <3>1 DEF Row
    <3>3. t' = [w EXCEPT !.deldate = now]
      BY <1>1, <1>2, <2>2 DEF Row
    <3> HIDE DEF w
    <3> QED
      BY <1>2, <3>2, <3>3 DEF Row
  <2> QED
    BY <2>1, <2>2
<1>4. RowSound'
  BY <1>1, <1>2 DEF ListInv, RowSound, Row, Never
<1> QED
  BY <1>1, <1>3, <1>4, UpdateInv

LEMMA StepUndelete ==
    ASSUME ListInv, Undelete
    PROVE  ListInv'
<1>1. PICK r \in open : Close(r) /\ t' = [t EXCEPT !.deleted = FALSE, !.deldate = Never]
  BY DEF Undelete
<1>2. t \in Row
  BY DEF ListInv, ListTypeOK, Row
<1>3. t' \in Row
  BY <1>1, <1>2 DEF Row
<1>4. RowSound'
  BY <1>1, <1>2 DEF ListInv, RowSound, Row
<1> QED
  BY <1>1, <1>3, <1>4, UpdateInv

LEMMA StepPin ==
    ASSUME ListInv, Pin
    PROVE  ListInv'
<1>1. PICK r \in open : Close(r) /\ t' = [t EXCEPT !.sticky = (r.op = "pin")]
  BY DEF Pin
<1> DEFINE b == r.op = "pin"
<1>2. b \in BOOLEAN /\ t' = [t EXCEPT !.sticky = b]
  BY <1>1
<1> HIDE DEF b
<1>3. t \in Row
  BY DEF ListInv, ListTypeOK, Row
<1>4. t' \in Row
  BY <1>2, <1>3 DEF Row
<1>5. RowSound'
  BY <1>2, <1>3 DEF ListInv, RowSound, Row
<1> QED
  BY <1>1, <1>4, <1>5, UpdateInv

LEMMA StepWarn ==
    ASSUME ListInv, Warn
    PROVE  ListInv'
<1>1. PICK r \in open : Close(r) /\ t' = [t EXCEPT !.warned = (r.op = "warn")]
  BY DEF Warn
<1> DEFINE b == r.op = "warn"
<1>2. b \in BOOLEAN /\ t' = [t EXCEPT !.warned = b]
  BY <1>1
<1> HIDE DEF b
<1>3. t \in Row
  BY DEF ListInv, ListTypeOK, Row
<1>4. t' \in Row
  BY <1>2, <1>3 DEF Row
<1>5. RowSound'
  BY <1>2, <1>3 DEF ListInv, RowSound, Row
<1> QED
  BY <1>1, <1>4, <1>5, UpdateInv

LEMMA StepTick ==
    ASSUME ListInv, Tick
    PROVE  ListInv'
<1>1. now' = now + 1 /\ now < MaxTime /\ t' = t /\ open' = open /\ now \in Nat
  BY DEF Tick, ListInv, ListTypeOK
<1>2. t \in Row
  BY DEF ListInv, ListTypeOK, Row
<1>3. t' \in Row' /\ now' \in 0 .. MaxTime
  BY <1>1, <1>2, SectionsAreKnown DEF Row
<1> QED
  BY <1>1, <1>3 DEF ListInv, ListTypeOK, RowSound, Row

\* Every state of the topic keeps its columns in agreement.
LEMMA InvHolds == Spec => []ListInv
<1>1. Init => ListInv
  BY InitInv
<1>2. ListInv /\ [Next]_listvars => ListInv'
  <2> SUFFICES ASSUME ListInv, [Next]_listvars PROVE ListInv'
    OBVIOUS
  <2>1. CASE UNCHANGED listvars
    BY <2>1 DEF listvars, ListInv, ListTypeOK, RowSound
  <2>2. CASE \E r \in Request : Begin(r)
    BY <2>2, StepBegin
  <2>3. CASE Publish
    BY <2>3, StepPublish
  <2>4. CASE Confirm
    BY <2>4, StepConfirm
  <2>5. CASE Uncommit
    BY <2>5, StepUncommit
  <2>6. CASE Move
    BY <2>6, StepMove
  <2>7. CASE Delete
    BY <2>7, StepDelete
  <2>8. CASE Undelete
    BY <2>8, StepUndelete
  <2>9. CASE Pin
    BY <2>9, StepPin
  <2>10. CASE Warn
    BY <2>10, StepWarn
  <2>11. CASE Tick
    BY <2>11, StepTick
  <2> QED
    BY <2>1, <2>2, <2>3, <2>4, <2>5, <2>6, <2>7, <2>8, <2>9, <2>10, <2>11 DEF Next
<1> QED
  BY <1>1, <1>2, PTL DEF Spec

-----------------------------------------------------------------------------
(* The promises, from the invariant *)

LEMMA RowTypes ==
    ASSUME ListInv
    PROVE  /\ now \in Nat /\ t.post \in Int /\ Age(t.post) \in Int
           /\ Quarter \in Nat /\ HalfYear \in Nat
           /\ t.group \in Group /\ t.group # "all"
<1>1. now \in Nat /\ t.post \in 0 .. now /\ t.group \in Group
  BY DEF ListInv, ListTypeOK
<1> QED
  BY <1>1, SectionsAreKnown DEF Age

\* Nobody has to open a topic to know that it stands and is confirmed.
LEMMA StandsOnLists ==
    ASSUME ListInv, NEW v \in Viewer
    PROVE  /\ FrontPage(v) \/ Rss(v) \/ TagFeed(v) \/ TagForum(v) \/ Favourites(v) =>
                Standing /\ Unhidden(v)
           /\ Channel => Standing /\ ~t.warned
           /\ \A b \in BOOLEAN :
                Tracker(v, b) \/ GroupMain(v, b, FALSE, TRUE) \/ GroupSticky(v, b) =>
                  Standing /\ Unhidden(v)
           /\ Feed(Section, t.group) \/ UserFeed \/ Archive \/ Neighbour(v) \/ Waiting
              \/ TagPage(v) \/ GalleryBox \/ ArticlesBox => Standing
<1>1. FrontPage(v) \/ Rss(v) \/ TagFeed(v) \/ TagForum(v) \/ Favourites(v) => Standing /\ Unhidden(v)
  BY Zenon DEF FrontPage, Rss, TagFeed, TagForum, Favourites
<1>2. Channel => Standing /\ ~t.warned
  BY DEF Channel
<1>3. ASSUME NEW b \in BOOLEAN, Tracker(v, b) \/ GroupMain(v, b, FALSE, TRUE) \/ GroupSticky(v, b)
      PROVE  Standing /\ Unhidden(v)
  BY <1>3, Zenon DEF Tracker, GroupMain, GroupSticky, Standing
<1>4. t.moderate => ~t.draft
  BY DEF ListInv, RowSound
<1>5. Feed(Section, t.group) \/ UserFeed \/ Archive \/ Neighbour(v) => Standing
  BY Zenon DEF Feed, UserFeed, Archive, Neighbour
<1>6. Waiting \/ TagPage(v) \/ GalleryBox \/ ArticlesBox => Standing
  BY <1>4, Zenon DEF Waiting, Awaiting, TagPage, GalleryBox, ArticlesBox, Standing
<1> QED
  BY <1>1, <1>2, <1>3, <1>5, <1>6, Zenon

LEMMA ListedFromInv ==
    ASSUME ListInv
    PROVE  ListedIsViewable
<1> SUFFICES ASSUME NEW v \in Viewer, NEW m \in BOOLEAN, ~Viewable(v, m)
             PROVE  /\ ~(FrontPage(v) \/ Rss(v) \/ TagFeed(v) \/ TagForum(v) \/ Favourites(v) \/ Channel)
                    /\ \A b \in BOOLEAN : ~Tracker(v, b) /\ ~GroupMain(v, b, FALSE, TRUE) /\ ~GroupSticky(v, b)
                    /\ Feed(Section, t.group) \/ UserFeed \/ Archive \/ Neighbour(v) \/ Waiting
                       \/ TagPage(v) \/ GalleryBox \/ ArticlesBox => ~v.auth /\ t.warned
                    /\ Tracked(v) \/ TopBox => t.draft
                    /\ Drafts(v) => Expired
  BY Zenon DEF ListedIsViewable
<1>1. Standing => ~v.auth /\ t.warned
  BY Zenon DEF Viewable, Standing
<1>2. ~(Standing /\ Unhidden(v)) /\ ~(Standing /\ ~t.warned)
  BY <1>1, Zenon DEF Unhidden
<1>3. Tracked(v) \/ TopBox => t.draft
  BY <1>1, Zenon DEF Tracked, TopBox, Standing
<1>4. v.author => v.auth
  BY ViewersAreUsers, Zenon
<1>5. Drafts(v) => Expired
  BY <1>4, Zenon DEF Drafts, SelfOrModerator, Viewable
<1> QED
  BY <1>1, <1>2, <1>3, <1>5, StandsOnLists, Zenon

LEMMA NothingLostFromInv ==
    ASSUME ListInv
    PROVE  NothingIsLost
<1>1. (t.moderate <=> t.commit # Never) /\ (t.deleted <=> t.deldate # Never)
  BY DEF ListInv, RowSound
<1>2. t.group # "all" /\ Quarter \in Int /\ HalfYear \in Int /\ Age(t.post) \in Int
  BY RowTypes
<1>3. ASSUME Standing
      PROVE  /\ Feed(Section, t.group) <=> Committed
             /\ Awaiting <=> ~Committed
             /\ Archive <=> Committed
  BY <1>1, <1>2, <1>3, Zenon DEF Feed, Committed, Awaiting, Archive, Approved
<1>4. Awaiting => Waiting \/ Age(t.post) > Quarter
  BY <1>2 DEF Waiting
<1>5. Feed(Section, t.group) => Feed(Section, "all") \/ (Section = Forum /\ Age(t.post) >= HalfYear)
  <2>1. Age(t.post) < HalfYear \/ Age(t.post) >= HalfYear
    BY <1>2
  <2> QED
    BY <2>1, Zenon DEF Feed
<1>6. ASSUME ~Standing, NEW v \in Viewer, v.author \/ (v.moderator /\ Heeded(v))
      PROVE  Drafts(v) # DeletedTopics(v)
  <2>1. SelfOrModerator(v)
    BY <1>6 DEF SelfOrModerator
  <2>2. Drafts(v) <=> ~t.deleted
    BY <1>6, <2>1, Zenon DEF Drafts, Standing
  <2>3. DeletedTopics(v) <=> t.deleted
    BY <1>1, <2>1, Zenon DEF DeletedTopics
  <2>4. Drafts(v) \in BOOLEAN /\ DeletedTopics(v) \in BOOLEAN
    BY DEF Drafts, DeletedTopics
  <2> QED
    BY <2>2, <2>3, <2>4
<1>7. Standing => Feed(Section, t.group) # Awaiting /\ Feed(Section, t.group) = Archive
  <2>1. Feed(Section, t.group) \in BOOLEAN /\ Awaiting \in BOOLEAN /\ Archive \in BOOLEAN
    BY DEF Feed, Awaiting, Archive
  <2> QED
    BY <1>3, <2>1
<1> QED
  BY <1>4, <1>5, <1>6, <1>7, Zenon DEF NothingIsLost

LEMMA OnceFromInv ==
    ASSUME ListInv
    PROVE  OnceOnGroupPage
<1> SUFFICES ASSUME Section = Forum, NEW v \in Viewer, NEW lastmod \in BOOLEAN,
                    NEW del \in BOOLEAN, NEW ign \in BOOLEAN
             PROVE  /\ ~(GroupMain(v, lastmod, del, ign) /\ GroupSticky(v, lastmod))
                    /\ Standing /\ Unhidden(v) /\ Heeded(v) /\ (t.sticky \/ Age(t.post) < HalfYear) =>
                         GroupMain(v, lastmod, del, ign) \/ GroupSticky(v, lastmod)
  BY Zenon DEF OnceOnGroupPage
<1>1. Approved
  BY SectionsAreKnown, Zenon DEF Approved, Premod
<1>2. ~(GroupMain(v, lastmod, del, ign) /\ GroupSticky(v, lastmod))
  BY Zenon DEF GroupMain, GroupSticky
<1>3. ASSUME Standing, Unhidden(v), Heeded(v), t.sticky \/ Age(t.post) < HalfYear
      PROVE  GroupMain(v, lastmod, del, ign) \/ GroupSticky(v, lastmod)
  BY <1>1, <1>3, Zenon DEF GroupMain, GroupSticky, Standing
<1> QED
  BY <1>2, <1>3, Zenon

LEMMA DeletedFromInv ==
    ASSUME ListInv
    PROVE  DeletedIsFound
<1> SUFFICES ASSUME t.deleted, Section = Forum, ~t.draft, ~t.sticky, Age(t.post) < HalfYear,
                    NEW v \in Viewer, NEW m \in BOOLEAN,
                    ~v.author, ~v.moderator, Viewable(v, m)
             PROVE  GroupMain(v, FALSE, TRUE, TRUE)
  BY Zenon DEF DeletedIsFound
<1>1. Approved
  BY SectionsAreKnown, Zenon DEF Approved, Premod
<1>2. v.auth /\ ~v.restricted /\ v.score >= VIEW_DELETED_SCORE
  BY Zenon DEF Viewable, SeesDeleted
<1>3. v.score \in Nat
  BY ViewersAreUsers DEF ViewerType
<1>4. v.score >= CAN_VIEW_ALL_DELETED_SCORE
  BY <1>2, <1>3 DEF VIEW_DELETED_SCORE, CAN_VIEW_ALL_DELETED_SCORE
<1>5. MayShowDeleted(v) /\ Unhidden(v)
  BY <1>2, <1>4, Zenon DEF MayShowDeleted, Unhidden
<1> QED
  BY <1>1, <1>5, Zenon DEF GroupMain

LEMMA CountsFromInv ==
    ASSUME ListInv
    PROVE  CountsMatch
<1>1. WaitingCount = WaitingOnPage \/ Age(t.post) = Quarter
  <2>1. Age(t.post) \in Int /\ Quarter \in Int
    BY RowTypes
  <2>2. (Age(t.post) <= Quarter <=> Age(t.post) < Quarter) \/ Age(t.post) = Quarter
    BY <2>1
  <2> QED
    BY <2>2, Zenon DEF WaitingCount, WaitingOnPage
<1>2. ArchiveCount = (IF Archive THEN 1 ELSE 0) \/ (t.draft /\ ~Premod)
  <2>1. t.moderate => ~t.draft
    BY DEF ListInv, RowSound
  <2> QED
    BY <2>1 DEF ArchiveCount, Archive, Standing, Approved
<1>3. ASSUME NEW v \in Viewer, v.author
      PROVE  /\ FrontDrafts = (IF Drafts(v) THEN 1 ELSE 0)
             /\ CountDrafts = FrontDrafts \/ t.deleted
  <2>1. Drafts(v) <=> t.draft /\ ~t.deleted
    BY <1>3, Zenon DEF Drafts, SelfOrModerator
  <2>2. CASE t.deleted
    BY <2>1, <2>2, Zenon DEF FrontDrafts
  <2>3. CASE ~t.deleted
    BY <2>1, <2>3, Zenon DEF FrontDrafts, CountDrafts
  <2> QED
    BY <2>2, <2>3
<1> QED
  BY <1>1, <1>2, <1>3, Zenon DEF CountsMatch

\* Lists show what may be opened, all of it, once, and are counted rightly: every
\* query of a list and the rule of who may open a topic, whatever requests did.
THEOREM ListsAgree == Spec => []ListsConsistent
<1>1. ListInv => ListsConsistent
  <2> SUFFICES ASSUME ListInv PROVE ListsConsistent
    OBVIOUS
  <2> QED
    BY ListedFromInv, NothingLostFromInv, OnceFromInv, DeletedFromInv, CountsFromInv
    DEF ListsConsistent, ListInv
<1> QED
  BY <1>1, InvHolds, PTL
-----------------------------------------------------------------------------
(* Posting *)

TopicRow ==
    {x \in [at : Nat, state : {"none", "draft", "posted", "withdrawn", "deleted"},
            section : Sections \cup {"nowhere"}] : x.state # "none" => x.section \in Sections}
PostRequest == [pc : {"idle", "stamp", "gate", "insert"}, kind : Ps!Kind,
            from : Address \cup {"nowhere"}, section : Sections \cup {"nowhere"},
            topic : 0 .. MaxTopics, draft : BOOLEAN, refused : BOOLEAN, wait : {Short, Long}, stamp : Nat, late : BOOLEAN]
Passage == [stamp : {Ps!Never} \cup Nat, due : Int, late : BOOLEAN]

PostTyped ==
    /\ clock \in 0 .. MaxClock /\ asked \in 0 .. MaxRequests
    /\ topics \in [1 .. MaxTopics -> TopicRow] /\ req \in [Req -> PostRequest]
    /\ passed \in [Ps!Gate -> Passage] /\ excess \subseteq 1 .. MaxTopics
    /\ DOMAIN entries = Ps!Gate

\* Whoever waits at a gate waits at one that exists, since an instant that has been;
\* a topic is meant for a section.
RequestSound(r) ==
    /\ req[r].pc # "idle" /\ req[r].kind = "AddTopic" => req[r].section \in Sections
    /\ req[r].pc \in {"stamp", "gate"} => req[r].from \in Address
    /\ req[r].pc = "gate" => req[r].stamp <= clock
    /\ req[r].pc = "insert" => /\ req[r].kind = "AddTopic"
                               /\ req[r].topic = 0 /\ ~req[r].draft => ~req[r].refused

\* The cache holds the instant of the last who passed, or none; if it holds none
\* though nothing was removed out of turn, that instant is too old for all who come.
GateSound(g) ==
    /\ entries[g] \in {{}, {passed[g].stamp}} /\ passed[g].stamp <= clock
    /\ passed[g].stamp = Ps!Never => entries[g] = {}
    /\ entries[g] = {} /\ passed[g].stamp # Ps!Never /\ g \notin dropped =>
        /\ clock >= passed[g].stamp + Memory
        /\ \A q \in Req : Ps!Waits(q, g) => req[q].stamp >= passed[g].stamp + Memory

\* Whoever was told that the limit is not reached, and has not been overtaken since.
Ready(r) ==
    req[r].pc # "idle" /\ ~req[r].refused /\ ~req[r].late /\ req[r].kind = "AddTopic"
RowsOf(table, at, s) ==
    {n \in 1 .. MaxTopics : /\ table[n].state \in {"posted", "deleted"}
                            /\ table[n].at >= at - Day /\ table[n].section = s}
Before(s) == RowsOf(topics, clock, s) \ excess
Since(s)  == RowsOf(topics', clock', s) \ excess'
Room(s) == Cardinality(Before(s)) < Limit
RoomLeft == \A r \in Req : Ready(r) => Room(req[r].section)

PostInv ==
    /\ PostTyped /\ \A r \in Req : RequestSound(r)
    /\ \A g \in Ps!Gate : GateSound(g)
    /\ RoomLeft /\ Ps!DailyLimit /\ Ps!Apart

\* What a step may make of a request that is not the one that passes the gate.
Steps(q) ==
    /\ req'[q] \in PostRequest /\ RequestSound(q)'
    /\ \A h : Ps!Waits(q, h)' => \/ Ps!Waits(q, h) /\ req'[q].stamp = req[q].stamp
                                 \/ req'[q].stamp = clock
    /\ Ready(q)' => \/ Ready(q) /\ req'[q].section = req[q].section
                    \/ Room(req'[q].section)

LEMMA PsCounts == \A T : Ps!Cardinality(T) = Cardinality(T)
  BY Zenon DEF Cardinality, Ps!Cardinality

\* What counts to the limit, before a step and after it.
LEMMA LimitIs ==
    /\ Ps!DailyLimit <=> \A s \in Sections : Cardinality(Before(s)) <= Limit
    /\ Ps!DailyLimit' <=> \A s \in Sections : Cardinality(Since(s)) <= Limit
    /\ RoomLeft' <=> \A r \in Req : Ready(r)' => Cardinality(Since(req'[r].section)) < Limit
    /\ \A s : Before(s) \subseteq 1 .. MaxTopics /\ Since(s) \subseteq 1 .. MaxTopics
<1>1. \A s : Ps!Counted(s) \ excess = Before(s)
  BY DEF Ps!Counted, Before, RowsOf
<1>2. Ps!DailyLimit <=> \A s \in Sections : Cardinality(Before(s)) <= Limit
  BY <1>1, PsCounts DEF Ps!DailyLimit
<1>3. Ps!DailyLimit' <=> \A s \in Sections : Cardinality(Since(s)) <= Limit
  BY PsCounts DEF Ps!DailyLimit, Ps!Counted, Since, RowsOf
<1>4. RoomLeft' <=> \A r \in Req : Ready(r)' => Cardinality(Since(req'[r].section)) < Limit
  BY DEF RoomLeft, Room, Before, Since, RowsOf
<1>5. \A s : Before(s) \subseteq 1 .. MaxTopics /\ Since(s) \subseteq 1 .. MaxTopics
  BY DEF Before, Since, RowsOf
<1> QED
  BY <1>2, <1>3, <1>4, <1>5

LEMMA TopicsAreFinite ==
    ASSUME Ps!PostingConstants, NEW S, S \subseteq 1 .. MaxTopics
    PROVE  /\ IsFiniteSet(S) /\ Cardinality(S) \in Nat
           /\ \A T : T \subseteq S => IsFiniteSet(T) /\ Cardinality(T) <= Cardinality(S)
<1>1. MaxTopics \in Nat
  BY DEF Ps!PostingConstants
<1>2. IsFiniteSet(1 .. MaxTopics)
  BY <1>1, FS_Interval
<1>3. IsFiniteSet(S)
  BY <1>2, FS_Subset
<1> QED
  BY <1>3, FS_Subset, FS_CardinalityType

LEMMA IdleIs ==
    ASSUME Ps!PostingConstants
    PROVE  /\ Ps!Idle \in PostRequest
           /\ Ps!Idle.pc = "idle" /\ Ps!Idle.kind = "AddTopic" /\ Ps!Idle.topic = 0
           /\ Ps!Idle.section = "nowhere" /\ Ps!Idle.draft = FALSE /\ Ps!Idle.refused = FALSE /\ Ps!Idle.late = FALSE
  BY DEF Ps!Idle, PostRequest, Ps!PostingConstants, Ps!Kind

LEMMA SingleUpdates ==
    ASSUME NEW x \in PostRequest
    PROVE  /\ \A v \in {"idle", "stamp", "gate", "insert"} : [x EXCEPT !.pc = v] \in PostRequest
           /\ \A v \in Ps!Kind : [x EXCEPT !.kind = v] \in PostRequest
           /\ \A v \in Address : [x EXCEPT !.from = v] \in PostRequest
           /\ \A v \in Sections : [x EXCEPT !.section = v] \in PostRequest
           /\ \A v \in 0 .. MaxTopics : [x EXCEPT !.topic = v] \in PostRequest
           /\ \A v \in BOOLEAN : [x EXCEPT !.draft = v] \in PostRequest
           /\ \A v \in BOOLEAN : [x EXCEPT !.refused = v] \in PostRequest
           /\ \A v \in {Short, Long} : [x EXCEPT !.wait = v] \in PostRequest
           /\ \A v \in Nat : [x EXCEPT !.stamp = v] \in PostRequest
           /\ [x EXCEPT !.late = TRUE] \in PostRequest
  BY DEF PostRequest

-----------------------------------------------------------------------------
LEMMA InitPosting == ASSUME Ps!PostingConstants, Ps!Init PROVE PostInv
<1>1. /\ clock = Day /\ entries = [g \in Ps!Gate |-> {}] /\ asked = 0
      /\ topics = [n \in 1 .. MaxTopics |-> [at |-> 0, state |-> "none", section |-> "nowhere"]]
      /\ req = [r \in Req |-> Ps!Idle]
      /\ passed = [g \in Ps!Gate |-> [stamp |-> Ps!Never, due |-> Ps!Never, late |-> FALSE]]
      /\ excess = {}
  BY DEF Ps!Init, Ps!Nothing, Ps!Row, Ps!NoPassage
<1>2. Day \in Nat /\ MaxClock \in Nat /\ Day <= MaxClock /\ MaxRequests \in Nat /\ Limit \in Nat
  BY DEF Ps!PostingConstants
<1>3. \A r \in Req : req[r] \in PostRequest /\ req[r].pc = "idle"
  BY <1>1, IdleIs
<1>4. PostTyped
  <2>1. topics \in [1 .. MaxTopics -> TopicRow]
    BY <1>1 DEF TopicRow
  <2>2. passed \in [Ps!Gate -> Passage]
    BY <1>1 DEF Passage, Ps!Never
  <2>3. req \in [Req -> PostRequest]
    BY <1>1, <1>3
  <2>4. DOMAIN entries = Ps!Gate /\ excess \subseteq 1 .. MaxTopics
    BY <1>1
  <2>5. clock \in 0 .. MaxClock /\ asked \in 0 .. MaxRequests
    BY <1>1, <1>2
  <2> QED
    BY <2>1, <2>2, <2>3, <2>4, <2>5 DEF PostTyped
<1>5. \A r \in Req : RequestSound(r)
  BY <1>3 DEF RequestSound
<1>6. \A g \in Ps!Gate : GateSound(g)
  <2> SUFFICES ASSUME NEW g \in Ps!Gate PROVE GateSound(g)
    OBVIOUS
  <2>1. entries[g] = {} /\ passed[g].stamp = Ps!Never /\ Ps!Never <= clock
    BY <1>1, <1>2 DEF Ps!Never
  <2> QED
    BY <2>1 DEF GateSound
<1>7. RoomLeft
  BY <1>3 DEF RoomLeft, Ready
<1>8. Ps!DailyLimit
  <2>1. \A s : Before(s) = {}
    BY <1>1 DEF Before, RowsOf
  <2>2. \A s : Cardinality(Before(s)) = 0
    BY <2>1, FS_EmptySet
  <2> QED
    BY <1>2, <2>2, LimitIs
<1>9. Ps!Apart
  BY <1>1 DEF Ps!Apart, Ps!Never
<1> QED
  BY <1>4, <1>5, <1>6, <1>7, <1>8, <1>9 DEF PostInv

\* What is taken away does not exceed what did not.
LEMMA FewerFit ==
    ASSUME Ps!PostingConstants, NEW s, Since(s) \subseteq Before(s)
    PROVE  /\ Cardinality(Before(s)) <= Limit => Cardinality(Since(s)) <= Limit
           /\ Cardinality(Before(s)) < Limit => Cardinality(Since(s)) < Limit
<1>1. Before(s) \subseteq 1 .. MaxTopics /\ Since(s) \subseteq 1 .. MaxTopics
  BY LimitIs
<1>2. /\ Cardinality(Before(s)) \in Nat /\ Cardinality(Since(s)) \in Nat
      /\ Cardinality(Since(s)) <= Cardinality(Before(s))
  BY <1>1, TopicsAreFinite
<1>3. Limit \in Nat
  BY DEF Ps!PostingConstants
<1> QED
  BY <1>2, <1>3

\* Whoever comes to a gate later is stamped later.
LEMMA GatesStay ==
    ASSUME Ps!PostingConstants, PostInv, \A q \in Req : Steps(q),
           UNCHANGED <<entries, passed, dropped>>,
           clock' \in 0 .. MaxClock, clock <= clock'
    PROVE  (\A g \in Ps!Gate : GateSound(g)') /\ Ps!Apart'
<1>1. Ps!Apart'
  BY DEF PostInv, Ps!Apart, Ps!Gate
<1>2. ASSUME NEW g \in Ps!Gate PROVE GateSound(g)'
  <2>1. GateSound(g) /\ passed[g].stamp \in {Ps!Never} \cup Nat
    BY DEF PostInv, PostTyped, Passage
  <2>2. clock \in Nat /\ clock' \in Nat /\ Memory \in Nat
    BY DEF PostInv, PostTyped, Ps!PostingConstants
  <2>3. \A q \in Req : Ps!Waits(q, g)' => \/ Ps!Waits(q, g) /\ req'[q].stamp = req[q].stamp
                                          \/ req'[q].stamp = clock
    BY DEF Steps
  <2>4. passed[g].stamp <= clock'
    BY <2>1, <2>2 DEF GateSound, Ps!Never
  <2>5. ASSUME entries[g] = {}, passed[g].stamp # Ps!Never, g \notin dropped
        PROVE  /\ clock' >= passed[g].stamp + Memory
               /\ \A q \in Req : Ps!Waits(q, g)' => req'[q].stamp >= passed[g].stamp + Memory
    <3>1. clock >= passed[g].stamp + Memory
          /\ \A q \in Req : Ps!Waits(q, g) => req[q].stamp >= passed[g].stamp + Memory
      BY <2>1, <2>5 DEF GateSound
    <3>2. \A q \in Req : Ps!Waits(q, g)' => req'[q].stamp >= passed[g].stamp + Memory
      BY <2>3, <3>1
    <3> QED
      BY <2>1, <2>2, <2>5, <3>1, <3>2
  <2> QED
    BY <2>1, <2>4, <2>5 DEF GateSound
<1> QED
  BY <1>1, <1>2

\* What a step only takes away from what counts leaves the limit kept.
LEMMA LimitStays ==
    ASSUME Ps!PostingConstants, PostInv, \A q \in Req : Steps(q),
           \A s \in Sections : Since(s) \subseteq Before(s)
    PROVE  RoomLeft' /\ Ps!DailyLimit'
<1>1. ASSUME NEW r \in Req, Ready(r)' PROVE Cardinality(Since(req'[r].section)) < Limit
  <2>1. req'[r].section \in Sections
    BY <1>1 DEF Steps, RequestSound, Ready
  <2>2. Room(req'[r].section)
    <3>1. Ready(r) => Room(req[r].section)
      BY DEF PostInv, RoomLeft
    <3> QED
      BY <1>1, <3>1 DEF Steps
  <2> QED
    BY <2>1, <2>2, FewerFit DEF Room
<1>2. \A s \in Sections : Cardinality(Before(s)) <= Limit
  BY LimitIs DEF PostInv
<1>3. \A s \in Sections : Cardinality(Since(s)) <= Limit
  BY <1>2, FewerFit
<1> QED
  BY <1>1, <1>3, LimitIs

LEMMA Unmoved ==
    ASSUME PostInv, NEW q \in Req, req'[q] = req[q], clock <= clock', clock' \in 0 .. MaxClock
    PROVE  Steps(q)
<1>1. req[q] \in PostRequest /\ RequestSound(q) /\ clock \in Nat
  BY DEF PostInv, PostTyped
<1>2. req[q].stamp \in Nat
  BY <1>1 DEF PostRequest
<1>3. RequestSound(q)'
  BY <1>1, <1>2 DEF RequestSound
<1> QED
  BY <1>1, <1>3 DEF Steps, Ready, Ps!Waits

LEMMA Ended ==
    ASSUME Ps!PostingConstants, NEW q \in Req, req'[q] = Ps!Idle
    PROVE  Steps(q) /\ ~Ready(q)'
  BY IdleIs DEF Steps, Ready, Ps!Waits, RequestSound

LEMMA Late ==
    ASSUME PostInv, NEW q \in Req, req'[q] = [req[q] EXCEPT !.late = TRUE], clock' = clock
    PROVE  Steps(q) /\ ~Ready(q)'
<1>1. req[q] \in PostRequest /\ RequestSound(q)
  BY DEF PostInv, PostTyped
<1>2. /\ req'[q].late = TRUE /\ req'[q].pc = req[q].pc /\ req'[q].kind = req[q].kind
      /\ req'[q].from = req[q].from /\ req'[q].stamp = req[q].stamp
      /\ req'[q].topic = req[q].topic /\ req'[q].draft = req[q].draft
      /\ req'[q].refused = req[q].refused /\ req'[q].section = req[q].section
  BY <1>1 DEF PostRequest
<1>3. req'[q] \in PostRequest
  BY <1>1, SingleUpdates
<1>4. RequestSound(q)'
  BY <1>1, <1>2 DEF RequestSound
<1> QED
  BY <1>2, <1>3, <1>4 DEF Steps, Ready, Ps!Waits

-----------------------------------------------------------------------------
\* A step that asks no protector and lets nothing new count.
LEMMA CalmStep ==
    ASSUME Ps!PostingConstants, PostInv, \A q \in Req : Steps(q),
           UNCHANGED <<entries, passed, dropped>>, clock' \in 0 .. MaxClock, clock <= clock',
           asked' \in 0 .. MaxRequests, topics' \in [1 .. MaxTopics -> TopicRow],
           DOMAIN req' = Req, req' = [q \in Req |-> req'[q]], excess' \subseteq 1 .. MaxTopics,
           \A s \in Sections : Since(s) \subseteq Before(s)
    PROVE  PostInv'
<1>1. req' \in [Req -> PostRequest]
  BY DEF Steps
<1>2. PostTyped'
  BY <1>1 DEF PostInv, PostTyped, Ps!Gate
<1>3. \A r \in Req : RequestSound(r)'
  BY DEF Steps
<1>4. (\A g \in Ps!Gate : GateSound(g)') /\ Ps!Apart'
  BY GatesStay
<1>5. RoomLeft' /\ Ps!DailyLimit'
  BY LimitStays
<1> QED
  BY <1>2, <1>3, <1>4, <1>5 DEF PostInv, Ps!Gate

\* Nothing counts that did not, where the clock and the rows stay.
LEMMA CountedStays ==
    ASSUME UNCHANGED <<clock, topics, excess>>
    PROVE  \A s : Since(s) = Before(s)
  BY DEF Since, Before

LEMMA TickPosting == ASSUME Ps!PostingConstants, PostInv, Ps!Tick PROVE PostInv'
<1>1. clock < MaxClock /\ clock' = clock + 1
      /\ UNCHANGED <<entries, topics, req, asked, passed, dropped, excess>>
  BY DEF Ps!Tick, Ps!hist
<1>2. clock \in Nat /\ MaxClock \in Nat /\ Day \in Nat /\ topics \in [1 .. MaxTopics -> TopicRow]
  BY DEF PostInv, PostTyped, Ps!PostingConstants
<1>3. clock' \in 0 .. MaxClock /\ clock <= clock'
  BY <1>1, <1>2
<1>4. \A q \in Req : Steps(q)
  BY <1>1, <1>3, Unmoved
<1>5. \A s \in Sections : Since(s) \subseteq Before(s)
  <2> SUFFICES ASSUME NEW n \in 1 .. MaxTopics, topics[n].at >= clock' - Day
               PROVE  topics[n].at >= clock - Day
    BY <1>1 DEF Since, Before, RowsOf
  <2>1. topics[n].at \in Nat
    BY <1>2 DEF TopicRow
  <2> QED
    BY <1>1, <1>2, <2>1
<1> QED
  BY <1>1, <1>3, <1>4, <1>5, CalmStep DEF PostInv, PostTyped

\* A request that begins: what it looks at has room for it, or refuses it.
LEMMA BeginPosting ==
    ASSUME Ps!PostingConstants, PostInv, NEW r \in Req, NEW x,
           req' = [req EXCEPT ![r] = x], asked < MaxRequests, asked' = asked + 1,
           UNCHANGED <<clock, entries, topics, passed, dropped, excess>>,
           x \in PostRequest, x.pc \in {"stamp", "insert"},
           x.pc = "stamp" => x.from \in Address,
           x.pc = "insert" => x.kind = "AddTopic" /\ x.topic # 0,
           x.kind = "AddTopic" => x.section \in Sections,
           x.kind = "AddTopic" /\ ~x.refused => ~Ps!Reached(x.section)
    PROVE  PostInv'
<1>1. req'[r] = x /\ \A q \in Req \ {r} : req'[q] = req[q]
  BY DEF PostInv, PostTyped
<1>2. clock \in 0 .. MaxClock /\ clock <= clock
  BY DEF PostInv, PostTyped
<1>3. ASSUME NEW s, ~Ps!Reached(s) PROVE Room(s)
  <2>1. Ps!Counted(s) \subseteq 1 .. MaxTopics /\ Before(s) \subseteq Ps!Counted(s)
    BY DEF Ps!Counted, Before, RowsOf
  <2>2. /\ Cardinality(Ps!Counted(s)) \in Nat /\ Cardinality(Before(s)) \in Nat
        /\ Cardinality(Before(s)) <= Cardinality(Ps!Counted(s))
    BY <2>1, TopicsAreFinite
  <2> QED
    BY <1>3, <2>2, PsCounts DEF Ps!Reached, Room, Ps!PostingConstants
<1>4. Steps(r)
  <2>1. RequestSound(r)'
    BY <1>1 DEF RequestSound
  <2> QED
    BY <1>1, <1>3, <2>1 DEF Steps, Ready, Ps!Waits
<1>5. \A q \in Req : Steps(q)
  BY <1>1, <1>2, <1>4, Unmoved
<1>6. asked' \in 0 .. MaxRequests
  BY DEF PostInv, PostTyped, Ps!PostingConstants
<1> QED
  BY <1>1, <1>2, <1>5, <1>6, CalmStep, CountedStays DEF PostInv, PostTyped

LEMMA LookPosting ==
    ASSUME Ps!PostingConstants, PostInv, NEW r \in Req, NEW a \in Address, NEW s \in Sections,
           NEW d \in BOOLEAN, Ps!Look(r, a, s, d)
    PROVE  PostInv'
<1> DEFINE full == Ps!Reached(s)
           x == [Ps!Idle EXCEPT !.pc = "stamp", !.from = a, !.section = s, !.draft = d,
                                !.refused = full]
<1>1. x = [[[[[Ps!Idle EXCEPT !.pc = "stamp"] EXCEPT !.from = a] EXCEPT !.section = s]
           EXCEPT !.draft = d] EXCEPT !.refused = full]
  BY Zenon
<1>2. full \in BOOLEAN
  BY DEF Ps!Reached
<1>3. req' = [req EXCEPT ![r] = x] /\ asked < MaxRequests /\ asked' = asked + 1
      /\ UNCHANGED <<clock, entries, topics, passed, dropped, excess>>
  BY DEF Ps!Look, Ps!hist
<1> HIDE DEF full
<1>4. x \in PostRequest
  BY <1>1, <1>2, IdleIs, SingleUpdates
<1>5. x.pc = "stamp" /\ x.from = a /\ x.section = s /\ x.refused = full
  BY IdleIs DEF PostRequest
<1> HIDE DEF x
<1>6. ~x.refused => ~Ps!Reached(x.section)
  BY <1>5 DEF full
<1> QED
  BY <1>3, <1>4, <1>5, <1>6, BeginPosting

LEMMA LookAtDraftPosting ==
    ASSUME Ps!PostingConstants, PostInv, NEW r \in Req, NEW n \in 1 .. MaxTopics,
           Ps!LookAtDraft(r, n)
    PROVE  PostInv'
<1> DEFINE s == topics[n].section
           full == Ps!Reached(s)
           x == [Ps!Idle EXCEPT !.pc = "insert", !.topic = n, !.section = s, !.refused = full]
<1>1. x = [[[[Ps!Idle EXCEPT !.pc = "insert"] EXCEPT !.topic = n] EXCEPT !.section = s]
           EXCEPT !.refused = full]
  BY Zenon
<1>2. full \in BOOLEAN
  BY DEF Ps!Reached
<1>3. MaxTopics \in Nat /\ n \in 0 .. MaxTopics /\ n # 0
  BY DEF Ps!PostingConstants
<1>4. req' = [req EXCEPT ![r] = x] /\ asked < MaxRequests /\ asked' = asked + 1
      /\ UNCHANGED <<clock, entries, topics, passed, dropped, excess>>
  BY DEF Ps!LookAtDraft, Ps!hist
<1>5. s \in Sections
  <2>1. topics[n] \in TopicRow /\ topics[n].state = "draft"
    BY DEF PostInv, PostTyped, Ps!LookAtDraft
  <2> QED
    BY <2>1 DEF TopicRow
<1> HIDE DEF full, s
<1>6. x \in PostRequest
  BY <1>1, <1>2, <1>3, <1>5, IdleIs, SingleUpdates
<1>7. x.pc = "insert" /\ x.topic = n /\ x.kind = "AddTopic" /\ x.section = s /\ x.refused = full
  BY IdleIs DEF PostRequest
<1> HIDE DEF x
<1>8. ~x.refused => ~Ps!Reached(x.section)
  BY <1>7 DEF full
<1> QED
  BY <1>3, <1>4, <1>5, <1>6, <1>7, <1>8, BeginPosting

LEMMA LookAtCommentPosting ==
    ASSUME Ps!PostingConstants, PostInv, NEW r \in Req, NEW a \in Address,
           Ps!LookAtComment(r, a)
    PROVE  PostInv'
<1> DEFINE x == [Ps!Idle EXCEPT !.pc = "stamp", !.kind = "AddComment", !.from = a]
<1>1. x = [[[Ps!Idle EXCEPT !.pc = "stamp"] EXCEPT !.kind = "AddComment"] EXCEPT !.from = a]
  BY Zenon
<1>2. x \in PostRequest
  BY <1>1, IdleIs, SingleUpdates DEF Ps!Kind
<1>3. x.pc = "stamp" /\ x.kind = "AddComment" /\ x.from = a
  BY IdleIs DEF PostRequest
<1>4. req' = [req EXCEPT ![r] = x] /\ asked < MaxRequests /\ asked' = asked + 1
      /\ UNCHANGED <<clock, entries, topics, passed, dropped, excess>>
  BY DEF Ps!LookAtComment, Ps!hist
<1> HIDE DEF x
<1> QED
  BY <1>2, <1>3, <1>4, BeginPosting

\* The instant of a request is that of the clock.
LEMMA StampPosting ==
    ASSUME Ps!PostingConstants, PostInv, NEW r \in Req, NEW w \in {Short, Long}, Ps!Stamp(r, w)
    PROVE  PostInv'
<1> DEFINE y == req[r]
           x == [y EXCEPT !.pc = "gate", !.wait = w, !.stamp = clock]
<1>1. y.pc = "stamp" /\ req' = [req EXCEPT ![r] = x]
      /\ UNCHANGED <<clock, entries, topics, asked, passed, dropped, excess>>
  BY DEF Ps!Stamp, Ps!hist
<1>2. y \in PostRequest /\ RequestSound(r) /\ clock \in Nat /\ clock \in 0 .. MaxClock
      /\ clock <= clock
  BY DEF PostInv, PostTyped
<1>3. y.from \in Address
  BY <1>1, <1>2 DEF RequestSound
<1> HIDE DEF y
<1>4. x = [[[y EXCEPT !.pc = "gate"] EXCEPT !.wait = w] EXCEPT !.stamp = clock]
  BY Zenon
<1>5. x \in PostRequest
  BY <1>2, <1>4, SingleUpdates
<1>6. /\ x.pc = "gate" /\ x.stamp = clock /\ x.from = y.from /\ x.kind = y.kind
      /\ x.refused = y.refused /\ x.late = y.late /\ x.section = y.section
  BY <1>2 DEF PostRequest
<1> HIDE DEF x
<1>7. req'[r] = x /\ \A q \in Req \ {r} : req'[q] = req[q]
  BY <1>1 DEF PostInv, PostTyped
<1>8. Steps(r)
  <2>1. RequestSound(r)'
    BY <1>1, <1>2, <1>3, <1>6, <1>7 DEF RequestSound, y
  <2>2. Ready(r)' => Ready(r) /\ req'[r].section = req[r].section
    BY <1>1, <1>6, <1>7 DEF Ready, y
  <2>3. \A h : Ps!Waits(r, h)' => req'[r].stamp = clock
    BY <1>6, <1>7
  <2> QED
    BY <1>5, <1>7, <2>1, <2>2, <2>3 DEF Steps
<1>9. \A q \in Req : Steps(q)
  BY <1>1, <1>2, <1>7, <1>8, Unmoved
<1> QED
  BY <1>1, <1>2, <1>9, CalmStep, CountedStays DEF PostInv, PostTyped

-----------------------------------------------------------------------------
\* The section under the mutex.  Whoever passes leaves his instant behind; what
\* is removed for it or for nothing is too old for all who come, or is noted.
LEMMA CacheKeeps ==
    ASSUME Ps!PostingConstants, PostInv, NEW r \in Req, req[r].pc = "gate",
           Ps!Cache(r), Ps!Record(r), clock' = clock, req'[r].pc # "gate",
           \A q \in Req \ {r} : req'[q] = req[q]
    PROVE  /\ \A g \in Ps!Gate : GateSound(g)'
           /\ Ps!Apart' /\ passed' \in [Ps!Gate -> Passage] /\ DOMAIN entries' = Ps!Gate
<1> DEFINE g == <<req[r].kind, req[r].from>>
           R == req[r].stamp
           W == req[r].wait
           before == passed[g].stamp
           out == \E at \in entries[g] : at > R
           fresh == [stamp |-> R,
                   due |-> IF before = Ps!Never THEN Ps!Never ELSE before + W,
                   late |-> before # Ps!Never /\ (g \in dropped \/ out)]
<1>1. /\ entries' = [h \in Ps!Gate |->
                        IF h = g /\ ~Ps!TooSoon(r) THEN {R}
                        ELSE IF h[1] = g[1] THEN {at \in entries[h] : Ps!Remembered(r, at)}
                        ELSE entries[h]]
      /\ Ps!TooSoon(r) => passed' = passed /\ dropped' = dropped \cup Ps!OutOfTurn(r)
      /\ ~Ps!TooSoon(r) => /\ passed' = [passed EXCEPT ![g] = fresh]
                           /\ dropped' = (dropped \cup Ps!OutOfTurn(r)) \ {g}
  BY Zenon DEF Ps!Cache, Ps!Record
<1>2. req[r] \in PostRequest /\ RequestSound(r) /\ \A h \in Ps!Gate : GateSound(h)
  BY DEF PostInv, PostTyped
<1>3. g \in Ps!Gate /\ g[1] = req[r].kind
  BY <1>2 DEF RequestSound, PostRequest, Ps!Gate
<1>4. /\ R \in Nat /\ R <= clock /\ W \in Nat /\ W <= Memory /\ Memory \in Nat /\ clock \in Nat
  <2>1. R \in Nat /\ W \in {Short, Long} /\ R <= clock
    BY <1>2 DEF RequestSound, PostRequest
  <2> QED
    BY <2>1 DEF Ps!PostingConstants, PostInv, PostTyped
<1>5. passed \in [Ps!Gate -> Passage]
  BY DEF PostInv, PostTyped
<1>6. \A h \in Ps!Gate : passed[h].stamp \in Int /\ (passed[h].stamp # Ps!Never => passed[h].stamp \in Nat)
  BY <1>5 DEF Passage, Ps!Never
<1>7. fresh \in Passage /\ fresh.stamp = R
      /\ fresh.due = (IF before = Ps!Never THEN Ps!Never ELSE before + W)
      /\ fresh.late = (before # Ps!Never /\ (g \in dropped \/ out))
  <2>1. (IF before = Ps!Never THEN Ps!Never ELSE before + W) \in Int
    BY <1>3, <1>4, <1>6 DEF Ps!Never
  <2>2. (before # Ps!Never /\ (g \in dropped \/ out)) \in BOOLEAN
    OBVIOUS
  <2> HIDE DEF before, out
  <2> QED
    BY <1>4, <2>1, <2>2 DEF Passage
<1> HIDE DEF fresh
<1>8. passed' \in [Ps!Gate -> Passage] /\ DOMAIN entries' = Ps!Gate
  BY <1>1, <1>5, <1>7
<1>9. \A q \in Req : \A h :
          Ps!Waits(q, h)' => q # r /\ Ps!Waits(q, h) /\ req'[q].stamp = req[q].stamp
  BY DEF Ps!Waits
<1>10. ASSUME NEW h \in Ps!Gate, h = g, ~Ps!TooSoon(r)
       PROVE  GateSound(h)' /\ (passed'[h].late \/ passed'[h].stamp >= passed'[h].due)
  <2>1. passed'[h] = fresh /\ entries'[h] = {R}
    BY <1>1, <1>3, <1>5, <1>10
  <2>2. R # Ps!Never
    BY <1>4 DEF Ps!Never
  <2>3. GateSound(h)'
    BY <1>4, <1>7, <2>1, <2>2 DEF GateSound
  <2>4. CASE before = Ps!Never \/ fresh.late
    BY <1>4, <1>7, <2>1, <2>3, <2>4 DEF Ps!Never
  <2>5. CASE before # Ps!Never /\ ~fresh.late
    <3>1. g \notin dropped /\ \A at \in entries[g] : ~(at > R)
      BY <1>7, <2>5
    <3>2. before \in Nat /\ GateSound(g) /\ Ps!Waits(r, g)
      BY <1>2, <1>3, <1>6, <2>5 DEF Ps!Waits
    <3>3. CASE entries[g] = {}
      <4>1. R >= before + Memory
        BY <2>5, <3>1, <3>2, <3>3 DEF GateSound
      <4> QED
        BY <1>4, <1>7, <2>1, <2>3, <2>5, <3>2, <4>1
    <3>4. CASE entries[g] = {before}
      <4>1. before <= R
        BY <1>4, <3>1, <3>2, <3>4
      <4>2. ~(R - before < Memory) \/ ~(before + W > R)
        BY <1>10, <3>4, <4>1 DEF Ps!TooSoon, Ps!Remembered
      <4> QED
        BY <1>4, <1>7, <2>1, <2>3, <2>5, <3>2, <4>1, <4>2
    <3> QED
      BY <3>2, <3>3, <3>4 DEF GateSound
  <2> QED
    BY <2>3, <2>4, <2>5
<1>11. ASSUME NEW h \in Ps!Gate, ~(h = g /\ ~Ps!TooSoon(r))
       PROVE  GateSound(h)' /\ (passed'[h].late \/ passed'[h].stamp >= passed'[h].due)
  <2> DEFINE s == passed[h].stamp
  <2>1. passed'[h] = passed[h]
    BY <1>1, <1>3, <1>5, <1>11
  <2>2. entries'[h] = IF h[1] = g[1] THEN {at \in entries[h] : Ps!Remembered(r, at)} ELSE entries[h]
    BY <1>1, <1>11
  <2>3. s \in Int /\ GateSound(h) /\ (s # Ps!Never => s \in Nat)
    BY <1>2, <1>6
  <2>4. entries'[h] \in {{}, {s}} /\ (s = Ps!Never => entries'[h] = {})
    BY <2>2, <2>3 DEF GateSound
  <2>5. ASSUME entries'[h] = {}, s # Ps!Never, h \notin dropped'
        PROVE  clock >= s + Memory /\ \A q \in Req : Ps!Waits(q, h) => req[q].stamp >= s + Memory
    <3>1. h \notin dropped /\ h \notin Ps!OutOfTurn(r)
      BY <1>1, <1>11, <2>5
    <3>2. CASE entries[h] = {}
      BY <2>3, <2>5, <3>1, <3>2 DEF GateSound
    <3>3. CASE entries[h] = {s}
      <4>1. h[1] = req[r].kind /\ ~Ps!Remembered(r, s)
        BY <1>3, <2>2, <2>5, <3>3
      <4>2. ~(s > R) /\ \A q \in Req : Ps!Waits(q, h) => ~(req[q].stamp < s + Memory)
        BY <3>1, <3>3, <4>1 DEF Ps!OutOfTurn
      <4>3. clock >= s + Memory
        BY <1>4, <2>3, <4>1, <4>2 DEF Ps!Remembered
      <4>4. \A q \in Req : req[q].stamp \in Nat
        BY DEF PostInv, PostTyped, PostRequest
      <4> QED
        BY <1>4, <2>3, <4>2, <4>3, <4>4
    <3> QED
      BY <2>3, <3>2, <3>3 DEF GateSound
  <2>6. GateSound(h)'
    BY <1>9, <2>1, <2>3, <2>4, <2>5 DEF GateSound
  <2>7. passed[h].late \/ passed[h].stamp >= passed[h].due
    BY DEF PostInv, Ps!Apart
  <2> QED
    BY <2>1, <2>6, <2>7
<1>12. \A h \in Ps!Gate : GateSound(h)' /\ (passed'[h].late \/ passed'[h].stamp >= passed'[h].due)
  BY <1>10, <1>11
<1> QED
  BY <1>8, <1>12 DEF Ps!Apart, Ps!Gate

LEMMA CheckPosting ==
    ASSUME Ps!PostingConstants, PostInv, NEW r \in Req, Ps!CheckTopic(r) \/ Ps!CheckComment(r)
    PROVE  PostInv'
<1>1. /\ req[r].pc = "gate" /\ Ps!Cache(r) /\ Ps!Record(r)
      /\ UNCHANGED <<clock, topics, asked, excess>>
  BY DEF Ps!CheckTopic, Ps!CheckComment
<1>2. req[r] \in PostRequest /\ RequestSound(r) /\ clock \in 0 .. MaxClock /\ clock <= clock
  BY DEF PostInv, PostTyped
<1>3. \/ req' = [req EXCEPT ![r] = Ps!Idle]
      \/ /\ req' = [req EXCEPT ![r].pc = "insert"]
         /\ req[r].kind = "AddTopic" /\ (req[r].draft \/ ~req[r].refused)
  BY DEF Ps!CheckTopic, Ps!CheckComment, Ps!Done, Ps!Goto
<1>4. \A q \in Req \ {r} : req'[q] = req[q]
  BY <1>3 DEF PostInv, PostTyped
<1>5. ASSUME req' = [req EXCEPT ![r] = Ps!Idle] PROVE Steps(r) /\ req'[r].pc # "gate"
  <2>1. req'[r] = Ps!Idle
    BY <1>5 DEF PostInv, PostTyped
  <2> QED
    BY <2>1, Ended, IdleIs
<1>6. ASSUME req' = [req EXCEPT ![r].pc = "insert"], req[r].kind = "AddTopic",
             req[r].draft \/ ~req[r].refused
      PROVE  Steps(r) /\ req'[r].pc # "gate"
  <2>1. req'[r] = [req[r] EXCEPT !.pc = "insert"]
    BY <1>6 DEF PostInv, PostTyped
  <2>2. req'[r] \in PostRequest
    BY <1>2, <2>1, SingleUpdates
  <2>3. /\ req'[r].pc = "insert" /\ req'[r].kind = req[r].kind /\ req'[r].draft = req[r].draft
        /\ req'[r].refused = req[r].refused /\ req'[r].late = req[r].late
        /\ req'[r].section = req[r].section
    BY <1>2, <2>1 DEF PostRequest
  <2>4. RequestSound(r)'
    BY <1>1, <1>2, <1>6, <2>3 DEF RequestSound
  <2>5. Ready(r)' => Ready(r) /\ req'[r].section = req[r].section
    BY <1>1, <2>3 DEF Ready
  <2> QED
    BY <2>2, <2>3, <2>4, <2>5 DEF Steps, Ps!Waits
<1>7. Steps(r) /\ req'[r].pc # "gate"
  BY <1>3, <1>5, <1>6
<1>8. \A q \in Req : Steps(q)
  BY <1>1, <1>2, <1>4, <1>7, Unmoved
<1>9. /\ \A g \in Ps!Gate : GateSound(g)'
      /\ Ps!Apart' /\ passed' \in [Ps!Gate -> Passage] /\ DOMAIN entries' = Ps!Gate
  BY <1>1, <1>4, <1>7, CacheKeeps
<1>10. RoomLeft' /\ Ps!DailyLimit'
  BY <1>1, <1>8, CountedStays, LimitStays
<1>11. req' \in [Req -> PostRequest]
  <2>1. DOMAIN req' = Req /\ req' = [q \in Req |-> req'[q]]
    BY <1>3 DEF PostInv, PostTyped
  <2> QED
    BY <1>8, <2>1 DEF Steps
<1>12. PostTyped'
  BY <1>1, <1>9, <1>11 DEF PostInv, PostTyped, Ps!Gate
<1>13. \A q \in Req : RequestSound(q)'
  BY <1>8 DEF Steps
<1> QED
  BY <1>9, <1>10, <1>12, <1>13 DEF PostInv, Ps!Gate

-----------------------------------------------------------------------------
\* Whoever inserts a topic overtakes all who are under way with one for its section.
LEMMA OvertakenAreLate ==
    ASSUME Ps!PostingConstants, PostInv, NEW r \in Req, Ps!Overtaken(r), clock' = clock
    PROVE  /\ \A q \in Req : Steps(q)
           /\ \A q \in Req : Ready(q)' => /\ Ready(q) /\ req'[q].section = req[q].section
                                          /\ req[q].section # req[r].section
           /\ DOMAIN req' = Req /\ req' = [q \in Req |-> req'[q]]
<1>1. req' = [q \in Req |-> IF q = r THEN Ps!Idle
                            ELSE IF req[q].section = req[r].section
                                 THEN [req[q] EXCEPT !.late = TRUE]
                            ELSE req[q]]
  BY DEF Ps!Overtaken
<1>2. clock \in 0 .. MaxClock /\ clock <= clock
  BY DEF PostInv, PostTyped
<1>3. ASSUME NEW q \in Req
      PROVE  Steps(q) /\ (Ready(q)' => /\ Ready(q) /\ req'[q].section = req[q].section
                                       /\ req[q].section # req[r].section)
  <2>1. CASE q = r
    BY <1>1, <2>1, Ended
  <2>2. CASE q # r /\ req[q].section = req[r].section
    BY <1>1, <2>2, Late
  <2>3. CASE q # r /\ req[q].section # req[r].section
    <3>1. req'[q] = req[q]
      BY <1>1, <2>3
    <3> QED
      BY <1>2, <2>3, <3>1, Unmoved DEF Ready
  <2> QED
    BY <2>1, <2>2, <2>3
<1> QED
  BY <1>1, <1>3

\* One more is counted where one more had room.
LEMMA OneMoreFits ==
    ASSUME Ps!PostingConstants, NEW s, NEW n \in 1 .. MaxTopics, Room(s),
           Since(s) \subseteq Before(s) \cup {n}
    PROVE  Cardinality(Since(s)) <= Limit
<1> DEFINE T == Before(s)
           S == Since(s)
<1>1. T \subseteq 1 .. MaxTopics /\ S \subseteq 1 .. MaxTopics /\ T \cup {n} \subseteq 1 .. MaxTopics
  BY LimitIs
<1>2. Cardinality(T) < Limit /\ Limit \in Nat /\ S \subseteq T \cup {n}
  BY DEF Room, Ps!PostingConstants
<1> HIDE DEF T, S
<1>3. IsFiniteSet(T) /\ Cardinality(T) \in Nat
  BY <1>1, TopicsAreFinite
<1>4. Cardinality(T \cup {n}) = IF n \in T THEN Cardinality(T) ELSE Cardinality(T) + 1
  BY <1>3, FS_AddElement
<1>5. /\ Cardinality(S) <= Cardinality(T \cup {n})
      /\ Cardinality(S) \in Nat /\ Cardinality(T \cup {n}) \in Nat
  BY <1>1, <1>2, TopicsAreFinite
<1>6. Cardinality(S) <= Limit
  BY <1>2, <1>3, <1>4, <1>5
<1> QED
  BY <1>6 DEF S

\* A topic that is posted has had room in its section, or is noted.
LEMMA PostedHasRoom ==
    ASSUME Ps!PostingConstants, PostInv, NEW r \in Req, NEW n \in 1 .. MaxTopics,
           NEW x \in TopicRow, req[r].pc = "insert", ~req[r].refused \/ x.state = "draft",
           topics' = [topics EXCEPT ![n] = x], Ps!Overtaken(r),
           excess' = (IF req[r].late \/ x.section # req[r].section
                      THEN excess \cup {n} ELSE excess),
           UNCHANGED <<clock, entries, asked, passed, dropped>>
    PROVE  PostInv'
<1> DEFINE noted == req[r].late \/ x.section # req[r].section
           home == req[r].section
<1>1. /\ \A q \in Req : Steps(q)
      /\ \A q \in Req : Ready(q)' => /\ Ready(q) /\ req'[q].section = req[q].section
                                     /\ req[q].section # home
      /\ DOMAIN req' = Req /\ req' = [q \in Req |-> req'[q]]
  BY OvertakenAreLate
<1>2. /\ clock \in 0 .. MaxClock /\ clock <= clock /\ asked \in 0 .. MaxRequests
      /\ topics \in [1 .. MaxTopics -> TopicRow] /\ excess \subseteq 1 .. MaxTopics
      /\ DOMAIN entries = Ps!Gate /\ passed \in [Ps!Gate -> Passage]
  BY DEF PostInv, PostTyped
<1>3. topics'[n] = x /\ \A m \in 1 .. MaxTopics : m # n => topics'[m] = topics[m]
  BY <1>2
<1>4. PostTyped'
  <2>1. req' \in [Req -> PostRequest]
    BY <1>1 DEF Steps
  <2>2. topics' \in [1 .. MaxTopics -> TopicRow]
    BY <1>2
  <2>3. excess' \subseteq 1 .. MaxTopics
    BY <1>2
  <2> QED
    BY <1>2, <2>1, <2>2, <2>3 DEF PostTyped, Ps!Gate
<1>5. \A q \in Req : RequestSound(q)'
  BY <1>1 DEF Steps
<1>6. (\A g \in Ps!Gate : GateSound(g)') /\ Ps!Apart'
  BY <1>1, <1>2, GatesStay
<1>7. excess' = (IF noted THEN excess \cup {n} ELSE excess)
  OBVIOUS
<1> HIDE DEF noted
<1>8. \A s : Since(s) \subseteq Before(s) \cup {n}
  BY <1>3, <1>7 DEF Since, Before, RowsOf
<1>9. ASSUME NEW s, x.state = "draft" \/ noted \/ x.section # s PROVE Since(s) \subseteq Before(s)
  <2>1. n \notin Since(s)
    BY <1>3, <1>7, <1>9 DEF Since, RowsOf
  <2> QED
    BY <1>8, <2>1
<1>10. RoomLeft' /\ Ps!DailyLimit'
  <2>1. CASE x.state = "draft" \/ noted
    BY <1>1, <1>9, <2>1, LimitStays
  <2>2. CASE ~(x.state = "draft" \/ noted)
    <3>1. req[r].kind = "AddTopic" /\ ~req[r].refused /\ ~req[r].late /\ x.section = home
      BY <2>2 DEF PostInv, RequestSound, noted
    <3>2. Room(home)
      BY <3>1 DEF PostInv, RoomLeft, Ready
    <3>3. \A s : s # home => Since(s) \subseteq Before(s)
      BY <1>9, <3>1
    <3>4. ASSUME NEW s \in Sections PROVE Cardinality(Since(s)) <= Limit
      <4>1. CASE s = home
        BY <1>8, <3>2, <4>1, OneMoreFits
      <4>2. CASE s # home
        <5>1. Cardinality(Before(s)) <= Limit
          BY LimitIs DEF PostInv
        <5> QED
          BY <3>3, <4>2, <5>1, FewerFit DEF Ps!PostingConstants
      <4> QED
        BY <4>1, <4>2
    <3>5. ASSUME NEW q \in Req, Ready(q)' PROVE Cardinality(Since(req'[q].section)) < Limit
      <4>1. Ready(q) /\ req'[q].section = req[q].section /\ req[q].section # home
        BY <1>1, <3>5
      <4>2. Room(req[q].section)
        BY <4>1 DEF PostInv, RoomLeft
      <4> DEFINE s == req[q].section
      <4>3. Since(s) \subseteq Before(s) /\ Cardinality(Before(s)) < Limit
        BY <3>3, <4>1, <4>2 DEF Room
      <4> HIDE DEF s
      <4>4. Cardinality(Since(s)) < Limit
        BY <4>3, FewerFit DEF Ps!PostingConstants
      <4> QED
        BY <4>1, <4>4 DEF s
    <3> QED
      BY <3>4, <3>5, LimitIs
  <2> QED
    BY <2>1, <2>2
<1> QED
  BY <1>4, <1>5, <1>6, <1>10 DEF PostInv, Ps!Gate

LEMMA InsertPosting ==
    ASSUME Ps!PostingConstants, PostInv, NEW r \in Req, Ps!Insert(r)
    PROVE  PostInv'
<1> DEFINE state == IF req[r].draft THEN "draft" ELSE "posted"
           x == [at |-> clock, state |-> state, section |-> req[r].section]
<1>1. PICK n \in 1 .. MaxTopics :
          /\ topics' = [topics EXCEPT ![n] = x]
          /\ excess' = (IF req[r].late THEN excess \cup {n} ELSE excess)
          /\ Ps!Overtaken(r)
  BY DEF Ps!Insert, Ps!Row
<1>2. req[r].pc = "insert" /\ req[r].topic = 0
      /\ UNCHANGED <<clock, entries, asked, passed, dropped>>
  BY DEF Ps!Insert, Ps!hist
<1>3. clock \in Nat /\ RequestSound(r)
  BY DEF PostInv, PostTyped
<1>4. req[r].section \in Sections /\ (~req[r].refused \/ state = "draft")
  BY <1>2, <1>3 DEF RequestSound
<1>5. state \in {"draft", "posted"}
  OBVIOUS
<1> HIDE DEF state
<1>6. x \in TopicRow /\ x.section = req[r].section /\ x.state = state
  BY <1>3, <1>4, <1>5 DEF TopicRow
<1> HIDE DEF x
<1> QED
  BY <1>1, <1>2, <1>4, <1>6, PostedHasRoom

LEMMA PublishPosting ==
    ASSUME Ps!PostingConstants, PostInv, NEW r \in Req, Ps!Publish(r)
    PROVE  PostInv'
<1> DEFINE n == req[r].topic
           fails == req[r].refused \/ topics[n].state # "draft"
           home == topics[n].section
           x == [at |-> clock, state |-> "posted", section |-> home]
<1>1. /\ req[r].pc = "insert" /\ n # 0 /\ UNCHANGED <<clock, entries, asked, passed, dropped>>
      /\ fails => Ps!Done(r) /\ UNCHANGED <<topics, excess>>
      /\ ~fails => /\ topics' = [topics EXCEPT ![n] = Ps!Row(clock, "posted", @.section)]
                   /\ excess' = (IF req[r].late \/ home # req[r].section
                                 THEN excess \cup {n} ELSE excess)
                   /\ Ps!Overtaken(r)
  BY DEF Ps!Publish, Ps!hist
<1>2. req[r] \in PostRequest /\ clock \in 0 .. MaxClock /\ clock <= clock
      /\ topics \in [1 .. MaxTopics -> TopicRow]
  BY DEF PostInv, PostTyped
<1>3. n \in 1 .. MaxTopics
  BY <1>1, <1>2 DEF PostRequest, Ps!PostingConstants
<1>4. CASE fails
  <2>1. req' = [req EXCEPT ![r] = Ps!Idle]
    BY <1>1, <1>4 DEF Ps!Done
  <2>2. req'[r] = Ps!Idle /\ \A q \in Req \ {r} : req'[q] = req[q]
    BY <2>1 DEF PostInv, PostTyped
  <2>3. \A q \in Req : Steps(q)
    BY <1>1, <1>2, <2>2, Ended, Unmoved
  <2> QED
    BY <1>1, <1>2, <1>4, <2>1, <2>3, CalmStep, CountedStays DEF PostInv, PostTyped
<1>5. CASE ~fails
  <2>1. home \in Sections
    BY <1>2, <1>3, <1>5 DEF TopicRow
  <2>2. topics' = [topics EXCEPT ![n] = x]
    BY <1>1, <1>5 DEF Ps!Row
  <2>3. ~req[r].refused
    BY <1>5
  <2> HIDE DEF home
  <2>4. x \in TopicRow /\ x.section = home
    BY <1>2, <2>1 DEF TopicRow
  <2> HIDE DEF x
  <2>5. excess' = (IF req[r].late \/ x.section # req[r].section THEN excess \cup {n} ELSE excess)
    BY <1>1, <1>5, <2>4 DEF home
  <2> QED
    BY <1>1, <1>3, <1>5, <2>2, <2>3, <2>4, <2>5, PostedHasRoom
<1> QED
  BY <1>4, <1>5

\* The pages that change a topic which is there: those that let it count note it.
LEMMA ChangePosting ==
    ASSUME Ps!PostingConstants, PostInv, NEW n \in 1 .. MaxTopics, NEW x \in TopicRow,
           topics' = [topics EXCEPT ![n] = x],
           \/ n \in excess' \/ x.state = "draft"
           \/ /\ topics[n].state \in {"posted", "deleted"}
              /\ x.at = topics[n].at /\ x.section = topics[n].section,
           excess' \in {excess, excess \cup {n}},
           UNCHANGED <<clock, entries, req, asked, passed, dropped>>
    PROVE  PostInv'
<1>1. clock \in 0 .. MaxClock /\ clock <= clock /\ topics \in [1 .. MaxTopics -> TopicRow]
      /\ req \in [Req -> PostRequest] /\ asked \in 0 .. MaxRequests /\ excess \subseteq 1 .. MaxTopics
  BY DEF PostInv, PostTyped
<1>2. \A q \in Req : Steps(q)
  BY <1>1, Unmoved
<1>3. topics'[n] = x /\ \A m \in 1 .. MaxTopics : m # n => topics'[m] = topics[m]
  BY <1>1
<1>4. topics' \in [1 .. MaxTopics -> TopicRow]
  BY <1>1
<1>5. \A s : Since(s) \subseteq Before(s)
  BY <1>3 DEF Since, Before, RowsOf
<1> QED
  BY <1>1, <1>2, <1>4, <1>5, CalmStep

LEMMA EditorPublishesPosting ==
    ASSUME Ps!PostingConstants, PostInv, NEW n \in 1 .. MaxTopics, Ps!EditorPublishes(n)
    PROVE  PostInv'
<1> DEFINE home == topics[n].section
           x == [at |-> clock, state |-> "posted", section |-> home]
<1>1. topics' = [topics EXCEPT ![n] = x]
  BY DEF Ps!EditorPublishes, Ps!Row
<1>2. topics[n].state = "draft" /\ excess' = excess \cup {n}
      /\ UNCHANGED <<clock, entries, req, asked, passed, dropped>>
  BY DEF Ps!EditorPublishes, Ps!hist
<1>3. clock \in Nat /\ home \in Sections
  BY <1>2 DEF PostInv, PostTyped, TopicRow
<1> HIDE DEF home
<1>4. x \in TopicRow
  BY <1>3 DEF TopicRow
<1> HIDE DEF x
<1> QED
  BY <1>1, <1>2, <1>4, ChangePosting

LEMMA MovePosting ==
    ASSUME Ps!PostingConstants, PostInv, NEW n \in 1 .. MaxTopics, NEW s \in Sections, Ps!Move(n, s)
    PROVE  PostInv'
<1> DEFINE x == [topics[n] EXCEPT !.section = s]
<1>1. topics' = [topics EXCEPT ![n] = x]
  BY DEF Ps!Move
<1>2. /\ excess' = (IF topics[n].state = "draft" THEN excess ELSE excess \cup {n})
      /\ UNCHANGED <<clock, entries, req, asked, passed, dropped>>
  BY DEF Ps!Move, Ps!hist
<1>3. topics[n] \in TopicRow
  BY DEF PostInv, PostTyped
<1>4. x \in TopicRow /\ x.state = topics[n].state
  BY <1>3 DEF TopicRow
<1> HIDE DEF x
<1> QED
  BY <1>1, <1>2, <1>4, ChangePosting

LEMMA DeletePosting ==
    ASSUME Ps!PostingConstants, PostInv, NEW n \in 1 .. MaxTopics, NEW own \in BOOLEAN,
           Ps!Delete(n, own)
    PROVE  PostInv'
<1> DEFINE state == IF own THEN "withdrawn" ELSE "deleted"
           x == [topics[n] EXCEPT !.state = state]
<1>1. topics' = [topics EXCEPT ![n] = x]
  BY DEF Ps!Delete
<1>2. topics[n].state = "posted" /\ UNCHANGED <<clock, entries, req, asked, passed, dropped, excess>>
  BY DEF Ps!Delete, Ps!hist
<1>3. topics[n] \in TopicRow /\ state \in {"withdrawn", "deleted"}
  BY DEF PostInv, PostTyped
<1> HIDE DEF state
<1>4. x \in TopicRow /\ x.at = topics[n].at /\ x.section = topics[n].section
  BY <1>2, <1>3 DEF TopicRow
<1> HIDE DEF x
<1> QED
  BY <1>1, <1>2, <1>4, ChangePosting

LEMMA RestorePosting ==
    ASSUME Ps!PostingConstants, PostInv, NEW n \in 1 .. MaxTopics, Ps!Restore(n)
    PROVE  PostInv'
<1> DEFINE x == [topics[n] EXCEPT !.state = "posted"]
<1>1. topics' = [topics EXCEPT ![n] = x]
  BY DEF Ps!Restore
<1>2. /\ topics[n].state \in {"withdrawn", "deleted"}
      /\ excess' = (IF topics[n].state = "withdrawn" THEN excess \cup {n} ELSE excess)
      /\ UNCHANGED <<clock, entries, req, asked, passed, dropped>>
  BY DEF Ps!Restore, Ps!hist
<1>3. topics[n] \in TopicRow
  BY DEF PostInv, PostTyped
<1>4. x \in TopicRow /\ x.at = topics[n].at /\ x.section = topics[n].section
  BY <1>2, <1>3 DEF TopicRow
<1> HIDE DEF x
<1> QED
  BY <1>1, <1>2, <1>4, ChangePosting

LEMMA NextPosting ==
    ASSUME Ps!PostingConstants, PostInv, Ps!Next
    PROVE  PostInv'
<1>1. ASSUME NEW r \in Req, NEW a \in Address, Ps!LookAtComment(r, a) PROVE PostInv'
  BY <1>1, LookAtCommentPosting
<1>2. ASSUME NEW r \in Req, NEW a \in Address, NEW s \in Sections, NEW d \in BOOLEAN,
             Ps!Look(r, a, s, d)
      PROVE  PostInv'
  BY <1>2, LookPosting
<1>3. ASSUME NEW r \in Req, NEW n \in 1 .. MaxTopics, Ps!LookAtDraft(r, n) PROVE PostInv'
  BY <1>3, LookAtDraftPosting
<1>4. ASSUME NEW r \in Req, NEW w \in {Short, Long}, Ps!Stamp(r, w) PROVE PostInv'
  BY <1>4, StampPosting
<1>5. ASSUME NEW r \in Req, Ps!CheckTopic(r) \/ Ps!CheckComment(r) PROVE PostInv'
  BY <1>5, CheckPosting
<1>6. ASSUME NEW r \in Req, Ps!Insert(r) PROVE PostInv'
  BY <1>6, InsertPosting
<1>7. ASSUME NEW r \in Req, Ps!Publish(r) PROVE PostInv'
  BY <1>7, PublishPosting
<1>8. ASSUME NEW n \in 1 .. MaxTopics, Ps!Restore(n) PROVE PostInv'
  BY <1>8, RestorePosting
<1>9. ASSUME NEW n \in 1 .. MaxTopics, NEW own \in BOOLEAN, Ps!Delete(n, own) PROVE PostInv'
  BY <1>9, DeletePosting
<1>10. ASSUME NEW n \in 1 .. MaxTopics, Ps!EditorPublishes(n) PROVE PostInv'
  BY <1>10, EditorPublishesPosting
<1>11. ASSUME NEW n \in 1 .. MaxTopics, NEW s \in Sections, Ps!Move(n, s) PROVE PostInv'
  BY <1>11, MovePosting
<1>12. CASE Ps!Tick
  BY <1>12, TickPosting
<1> QED
  BY <1>1, <1>2, <1>3, <1>4, <1>5, <1>6, <1>7, <1>8, <1>9, <1>10, <1>11, <1>12 DEF Ps!Next

LEMMA PostingStays ==
    ASSUME Ps!PostingConstants, PostInv, UNCHANGED psvars
    PROVE  PostInv'
<1>1. UNCHANGED <<clock, entries, topics, req, asked, passed, dropped, excess>>
  BY DEF psvars
<1>2. clock \in 0 .. MaxClock /\ clock <= clock
  BY DEF PostInv, PostTyped
<1>3. \A q \in Req : Steps(q)
  BY <1>1, <1>2, Unmoved
<1> QED
  BY <1>1, <1>2, <1>3, CalmStep, CountedStays DEF PostInv, PostTyped

LEMMA PostInvLimited ==
    ASSUME Ps!PostingConstants, PostInv
    PROVE  PostingLimited
<1>1. ASSUME NEW g \in Ps!Gate
      PROVE  Cardinality(entries[g]) <= 1 /\ \A at \in entries[g] : at <= clock
  <2>1. entries[g] \in {{}, {passed[g].stamp}} /\ passed[g].stamp <= clock
    BY DEF PostInv, GateSound
  <2>2. Cardinality({}) = 0 /\ Cardinality({passed[g].stamp}) = 1
    BY FS_EmptySet, FS_Singleton
  <2> QED
    BY <2>1, <2>2
<1>2. \A n \in 1 .. MaxTopics :
          topics[n].state \in {"none", "draft", "posted", "withdrawn", "deleted"}
  BY DEF PostInv, PostTyped, TopicRow
<1>3. \A r \in Req : req[r].pc \in {"idle", "stamp", "gate", "insert"}
  BY DEF PostInv, PostTyped, PostRequest
<1>4. \A n \in 1 .. MaxTopics : topics[n].state # "none" => topics[n].section \in Sections
  BY DEF PostInv, PostTyped, TopicRow
<1>5. Ps!PostingTypeOK
  BY <1>1, <1>2, <1>3, <1>4, PsCounts DEF Ps!PostingTypeOK, PostInv, PostTyped
<1> QED
  BY <1>5 DEF PostInv, PostingLimited, Ps!PostingLimited

\* What exceeds an author's topics of a day in a section (RECENT_TOPIC_COUNT_SQL)
\* came by requests for it under way together, by a restoration or a move, or was
\* published or confirmed by an editor; and two messages that pass from one address
\* are as far apart as the later one must be, unless one of them waited for the mutex
\* while another passed or removed an instant out of turn (bAllowFloodProtectedAction).
THEOREM PostingStaysLimited ==
    ASSUME Ps!PostingConstants
    PROVE  Ps!Spec => []PostingLimited
<1>1. Ps!Init => PostInv
  BY InitPosting
<1>2. PostInv /\ [Ps!Next]_psvars => PostInv'
  BY NextPosting, PostingStays
<1>3. PostInv => PostingLimited
  BY PostInvLimited
<1>4. Ps!Spec <=> Ps!Init /\ [][Ps!Next]_psvars
  BY DEF Ps!Spec, Ps!vars, psvars
<1> QED
  BY <1>1, <1>2, <1>3, <1>4, PTL

-----------------------------------------------------------------------------
(* Polls *)

PollsTyped ==
    /\ variants \subseteq 1 .. drawn /\ drawn \in 2 .. MaxVariants
    /\ votes \in [Po!Variant -> Nat] /\ multiselect \in BOOLEAN
    /\ rows \subseteq User \X variants
    /\ voter \in [Req -> User] /\ mine \in [Req -> SUBSET (User \X Po!Variant)]
    /\ pc \in [Req -> {"idle", "count", "insert"}]
    /\ edit = [on |-> edit.on, todo |-> edit.todo, gone |-> edit.gone,
               multi |-> edit.multi, new |-> edit.new]
    /\ edit.multi \in BOOLEAN /\ edit.new \in 0 .. 1
    /\ edit.on => drawn + edit.new <= MaxVariants

\* The counter is exact for every variant, also for those that were deleted.
Voters(v, R) == {u \in User : <<u, v>> \in R}
Exact == \A v \in Po!Variant : votes[v] = Cardinality(Voters(v, rows))

\* What a transaction has inserted is its voter's, is not committed yet, and is
\* for variants that no other votes for and no edit deletes.
Ballots ==
    \A r \in Req :
        /\ mine[r] # {} => pc[r] = "insert"
        /\ \A x \in mine[r] : x[1] = voter[r] /\ x[2] \in variants \ edit.gone /\ x \notin rows
        /\ \A q \in Req \ {r} : \A x \in mine[r], y \in mine[q] : x[2] # y[2]
Deletions == \A x \in rows : x[2] \notin edit.gone

\* Whoever was told that his user has not voted has been noted if he has since.
Fresh == \A r \in Req : pc[r] = "insert" /\ r \notin overlaps => \A x \in rows : x[1] # voter[r]
Once ==
    \A u \in User : \/ \A x, y \in rows : x[1] = u /\ y[1] = u => x = y
                    \/ u \in twice \/ u \in plural

PollsInv == PollsTyped /\ Exact /\ Ballots /\ Deletions /\ Fresh /\ Once

LEMMA Counts == \A T : Po!Cardinality(T) = Cardinality(T)
  BY Zenon DEF Cardinality, Po!Cardinality

LEMMA AtMostOne ==
    ASSUME NEW T, IsFiniteSet(T)
    PROVE  Cardinality(T) <= 1 <=> \A x, y \in T : x = y
<1>1. CASE T = {}
  BY <1>1, FS_EmptySet
<1>2. CASE T # {}
  <2>1. PICK x \in T : TRUE
    BY <1>2
  <2>2. IsFiniteSet(T \ {x}) /\ Cardinality(T \ {x}) = Cardinality(T) - 1
    BY <2>1, FS_RemoveElement
  <2>3. Cardinality(T) \in Nat /\ Cardinality(T \ {x}) \in Nat
    BY <2>2, FS_CardinalityType
  <2>4. Cardinality(T \ {x}) = 0 <=> T \ {x} = {}
    BY <2>2, FS_EmptySet
  <2>5. T \ {x} = {} <=> \A y, z \in T : y = z
    BY <2>1
  <2> QED
    BY <2>2, <2>3, <2>4, <2>5
<1> QED
  BY <1>1, <1>2

LEMMA VotersAreFinite ==
    ASSUME Po!PollConstants, NEW v, NEW R
    PROVE  /\ IsFiniteSet(Voters(v, R)) /\ Cardinality(Voters(v, R)) \in Nat
           /\ Cardinality(Voters(v, R)) <= Cardinality(User)
<1>1. IsFiniteSet(User) /\ Voters(v, R) \subseteq User
  BY DEF Po!PollConstants, Po!IsFiniteSet, IsFiniteSet, Voters
<1> QED
  BY <1>1, FS_Subset, FS_CardinalityType

LEMMA RowsAreFinite ==
    ASSUME Po!PollConstants, NEW R, R \subseteq User \X Po!Variant
    PROVE  IsFiniteSet(R) /\ Cardinality(R) \in Nat
<1>1. IsFiniteSet(User) /\ MaxVariants \in Nat
  BY DEF Po!PollConstants, Po!IsFiniteSet, IsFiniteSet
<1>2. IsFiniteSet(Po!Variant)
  BY <1>1, FS_Interval DEF Po!Variant
<1>3. IsFiniteSet(User \X Po!Variant)
  BY <1>1, <1>2, FS_Product
<1> QED
  BY <1>3, FS_Subset, FS_CardinalityType

LEMMA VariantsAreKnown ==
    ASSUME Po!PollConstants, PollsInv
    PROVE  /\ variants \subseteq Po!Variant
           /\ \A x \in rows : x = <<x[1], x[2]>> /\ x[1] \in User /\ x[2] \in variants
           /\ \A q \in Req : \A x \in mine[q] :
                  x = <<x[1], x[2]>> /\ x[1] \in User /\ x[2] \in Po!Variant
<1>1. variants \subseteq 1 .. drawn /\ drawn \in 2 .. MaxVariants /\ MaxVariants \in Nat
  BY DEF PollsInv, PollsTyped, Po!PollConstants
<1>2. \A S, T : \A x \in S \X T : x = <<x[1], x[2]>> /\ x[1] \in S /\ x[2] \in T
  OBVIOUS
<1>3. rows \subseteq User \X variants /\ \A q \in Req : mine[q] \subseteq User \X Po!Variant
  BY DEF PollsInv, PollsTyped
<1> QED
  BY <1>1, <1>2, <1>3 DEF Po!Variant

-----------------------------------------------------------------------------
LEMMA InitPolls == ASSUME Po!PollConstants, Po!Init PROVE PollsInv
<1>1. rows = {} /\ drawn = 2 /\ variants = {1, 2} /\ mine = [r \in Req |-> {}]
      /\ pc = [r \in Req |-> "idle"] /\ votes = [v \in Po!Variant |-> 0]
  BY DEF Po!Init
<1>2. MaxVariants \in Nat \ {0, 1}
  BY DEF Po!PollConstants
<1>3. PollsTyped
  BY <1>1, <1>2 DEF Po!Init, PollsTyped, Po!NoEdit, Po!Variant
<1>4. Exact
  <2> SUFFICES ASSUME NEW v \in Po!Variant PROVE votes[v] = Cardinality(Voters(v, rows))
    BY DEF Exact
  <2>1. Voters(v, rows) = {}
    BY <1>1 DEF Voters
  <2> QED
    BY <1>1, <2>1, FS_EmptySet
<1>5. Ballots /\ Deletions /\ Fresh /\ Once
  BY <1>1 DEF Ballots, Deletions, Fresh, Once
<1> QED
  BY <1>3, <1>4, <1>5 DEF PollsInv

\* What is said of the votes stays where nothing touches them.
LEMMA VotesStay ==
    ASSUME PollsInv, UNCHANGED <<votes, rows, voter, twice, plural>>
    PROVE  Exact' /\ Once'
<1>1. \A v : Voters(v, rows)' = Voters(v, rows)
  BY DEF Voters
<1> QED
  BY <1>1 DEF PollsInv, Exact, Once

\* A request that ends without a vote.
LEMMA DonePolls ==
    ASSUME Po!PollConstants, PollsInv, NEW r \in Req, Po!Done(r), overlaps' \in {overlaps, overlaps \ {r}},
           UNCHANGED <<variants, votes, multiselect, rows, drawn, voter, twice, plural, edit>>
    PROVE  PollsInv'
<1>1. pc' = [pc EXCEPT ![r] = "idle"] /\ mine' = [mine EXCEPT ![r] = {}]
  BY DEF Po!Done
<1>2. \A q \in Req : /\ mine'[q] = IF q = r THEN {} ELSE mine[q]
                     /\ pc'[q] = IF q = r THEN "idle" ELSE pc[q]
  BY <1>1 DEF PollsInv, PollsTyped
<1>3. PollsTyped'
  BY <1>1 DEF PollsInv, PollsTyped
<1>4. Exact' /\ Once'
  BY VotesStay
<1>5. Ballots'
  BY <1>2 DEF PollsInv, Ballots
<1>6. Deletions' /\ Fresh'
  BY <1>2 DEF PollsInv, Deletions, Fresh
<1> QED
  BY <1>3, <1>4, <1>5, <1>6 DEF PollsInv

LEMMA AskPolls ==
    ASSUME PollsInv, NEW r \in Req, NEW chosen, Po!Ask(r, chosen)
    PROVE  PollsInv'
<1>1. pc[r] = "idle" /\ pc' = [pc EXCEPT ![r] = "count"]
      /\ UNCHANGED <<variants, votes, multiselect, rows, drawn, voter, mine, overlaps, twice,
                     plural, edit>>
  BY DEF Po!Ask
<1>2. \A q \in Req : pc'[q] = IF q = r THEN "count" ELSE pc[q]
  BY <1>1 DEF PollsInv, PollsTyped
<1>3. PollsTyped'
  BY <1>1 DEF PollsInv, PollsTyped
<1>4. Exact' /\ Once'
  BY <1>1, VotesStay
<1>5. Ballots'
  BY <1>1, <1>2 DEF PollsInv, Ballots
<1>6. Deletions' /\ Fresh'
  BY <1>1, <1>2 DEF PollsInv, Deletions, Fresh
<1> QED
  BY <1>3, <1>4, <1>5, <1>6 DEF PollsInv

LEMMA CountPolls ==
    ASSUME Po!PollConstants, PollsInv, NEW r \in Req, Po!Count(r)
    PROVE  PollsInv'
<1>1. CASE Po!Voted(r) \/ ~(ballot[r] \subseteq variants)
  BY <1>1, DonePolls DEF Po!Count
<1>2. CASE ~(Po!Voted(r) \/ ~(ballot[r] \subseteq variants))
  <2>1. pc[r] = "count" /\ pc' = [pc EXCEPT ![r] = "insert"] /\ overlaps' = overlaps \ {r}
        /\ UNCHANGED <<variants, votes, multiselect, rows, drawn, voter, mine, twice, plural,
                       edit>>
    BY <1>2 DEF Po!Count
  <2>2. \A q \in Req : pc'[q] = IF q = r THEN "insert" ELSE pc[q]
    BY <2>1 DEF PollsInv, PollsTyped
  <2>3. PollsTyped'
    BY <2>1 DEF PollsInv, PollsTyped
  <2>4. Exact' /\ Once'
    BY <2>1, VotesStay
  <2>5. Ballots'
    BY <2>1, <2>2 DEF PollsInv, Ballots
  <2>6. \A x \in rows : x[1] # voter[r]
    <3> SUFFICES ASSUME NEW x \in rows, x[1] = voter[r] PROVE FALSE
      OBVIOUS
    <3>1. x = <<voter[r], x[2]>> /\ x[2] \in Po!Variant
      BY VariantsAreKnown
    <3> QED
      BY <1>2, <3>1 DEF Po!Voted
  <2>7. Deletions' /\ Fresh'
    BY <2>1, <2>2, <2>6 DEF PollsInv, Deletions, Fresh
  <2> QED
    BY <2>3, <2>4, <2>5, <2>7 DEF PollsInv
<1> QED
  BY <1>1, <1>2

\* A transaction inserts what nobody holds.
LEMMA InsertPolls ==
    ASSUME Po!PollConstants, PollsInv, NEW r \in Req, Po!Insert(r)
    PROVE  PollsInv'
<1> DEFINE v == Po!Min(ballot[r])
<1>1. pc[r] = "insert" /\ ~Po!Held(v)
      /\ UNCHANGED <<variants, votes, multiselect, rows, drawn, voter, overlaps, twice, plural,
                     edit>>
  BY DEF Po!Insert
<1>2. CASE v \notin variants
  BY <1>1, <1>2, DonePolls DEF Po!Insert
<1>3. CASE v \in variants
  <2>1. pc' = pc /\ mine' = [mine EXCEPT ![r] = IF Po!Raise(r, v) THEN @ \cup {<<voter[r], v>>} ELSE @]
    BY <1>3 DEF Po!Insert
  <2> HIDE DEF v
  <2>2. v \in Po!Variant /\ voter[r] \in User
    BY <1>3, VariantsAreKnown DEF PollsInv, PollsTyped
  <2>3. v \notin edit.gone /\ \A q \in Req : \A x \in mine[q] : x[2] # v
    <3> SUFFICES ASSUME NEW q \in Req, NEW x \in mine[q], x[2] = v PROVE FALSE
      BY <1>1 DEF Po!Held
    <3>1. x = <<x[1], v>> /\ x[1] \in User
      BY VariantsAreKnown
    <3> QED
      BY <1>1, <3>1 DEF Po!Held
  <2>4. \A q \in Req :
            \/ mine'[q] = mine[q]
            \/ q = r /\ mine'[q] = mine[r] \cup {<<voter[r], v>>} /\ <<voter[r], v>> \notin rows
    BY <2>1 DEF PollsInv, PollsTyped, Po!Raise
  <2>5. PollsTyped'
    <3>1. mine' \in [Req -> SUBSET (User \X Po!Variant)]
      BY <2>1, <2>2 DEF PollsInv, PollsTyped
    <3> QED
      BY <1>1, <2>1, <3>1 DEF PollsInv, PollsTyped
  <2>6. Exact' /\ Once'
    BY <1>1, VotesStay
  <2>7. Ballots'
    <3>1. \A q \in Req : mine[q] # {} => pc[q] = "insert"
      BY DEF PollsInv, Ballots
    <3>2. \A q \in Req : \A x \in mine'[q] :
              x \in mine[q] \/ (q = r /\ x = <<voter[r], v>> /\ x \notin rows)
      BY <2>4
    <3>3. \A q \in Req : \A x \in mine[q] :
              x[1] = voter[q] /\ x[2] \in variants \ edit.gone /\ x \notin rows /\ x[2] # v
      BY <2>3 DEF PollsInv, Ballots
    <3>4. \A q \in Req : mine'[q] # {} => pc'[q] = "insert"
      BY <1>1, <2>1, <3>1, <3>2
    <3>5. \A q \in Req : \A x \in mine'[q] :
              x[1] = voter[q] /\ x[2] \in variants \ edit.gone /\ x \notin rows
      BY <1>3, <2>3, <3>2, <3>3
    <3>6. \A p, q \in Req : p # q => \A x \in mine'[p], y \in mine'[q] : x[2] # y[2]
      BY <3>2, <3>3 DEF PollsInv, Ballots
    <3> QED
      BY <1>1, <3>4, <3>5, <3>6 DEF Ballots
  <2>8. Deletions' /\ Fresh'
    BY <1>1, <2>1 DEF PollsInv, Deletions, Fresh
  <2> QED
    BY <2>5, <2>6, <2>7, <2>8 DEF PollsInv
<1> QED
  BY <1>2, <1>3

\* What a transaction has inserted becomes the votes of its user.
LEMMA CommitExact ==
    ASSUME Po!PollConstants, PollsInv, NEW r \in Req, Po!Commit(r)
    PROVE  Exact'
<1>1. rows' = rows \cup mine[r] /\ voter[r] \in User
      /\ votes' = [v \in Po!Variant |-> IF <<voter[r], v>> \in mine[r] THEN votes[v] + 1 ELSE votes[v]]
  BY DEF Po!Commit, PollsInv, PollsTyped
<1>2. \A x \in mine[r] : x = <<voter[r], x[2]>> /\ x \notin rows
  BY VariantsAreKnown DEF PollsInv, Ballots
<1> SUFFICES ASSUME NEW v \in Po!Variant PROVE votes'[v] = Cardinality(Voters(v, rows'))
  BY DEF Exact, Voters
<1>3. votes[v] = Cardinality(Voters(v, rows))
  BY DEF PollsInv, Exact
<1>4. CASE <<voter[r], v>> \in mine[r]
  <2>1. Voters(v, rows') = Voters(v, rows) \cup {voter[r]} /\ voter[r] \notin Voters(v, rows)
    BY <1>1, <1>2, <1>4 DEF Voters
  <2>2. Cardinality(Voters(v, rows')) = Cardinality(Voters(v, rows)) + 1
    BY <2>1, VotersAreFinite, FS_AddElement
  <2> QED
    BY <1>1, <1>3, <1>4, <2>2
<1>5. CASE <<voter[r], v>> \notin mine[r]
  <2>1. Voters(v, rows') = Voters(v, rows)
    BY <1>1, <1>2, <1>5 DEF Voters
  <2> QED
    BY <1>1, <1>3, <1>5, <2>1
<1> QED
  BY <1>4, <1>5

\* Who votes more than once has a ballot of several variants, or was told that
\* he has not voted before another request of his committed.
LEMMA CommitOnce ==
    ASSUME Po!PollConstants, PollsInv, NEW r \in Req, Po!Commit(r)
    PROVE  Once'
<1>1. pc[r] = "insert" /\ rows' = rows \cup mine[r] /\ voter' = voter
      /\ twice' = (IF r \in overlaps /\ mine[r] # {} THEN twice \cup {voter[r]} ELSE twice)
      /\ plural' = (IF Po!Cardinality(mine[r]) > 1 THEN plural \cup {voter[r]} ELSE plural)
  BY DEF Po!Commit
<1>2. twice \subseteq twice' /\ plural \subseteq plural'
  BY <1>1
<1>3. \A x \in mine[r] : x[1] = voter[r]
  BY DEF PollsInv, Ballots
<1> SUFFICES ASSUME NEW u \in User, u \notin twice', u \notin plural',
                    NEW x \in rows', NEW y \in rows', x[1] = u, y[1] = u
             PROVE  x = y
  BY DEF Once
<1>4. CASE x \in rows /\ y \in rows
  BY <1>2, <1>4 DEF PollsInv, Once
<1>5. CASE ~(x \in rows /\ y \in rows)
  <2>1. u = voter[r] /\ mine[r] # {}
    BY <1>1, <1>3, <1>5
  <2>2. r \notin overlaps /\ ~(Cardinality(mine[r]) > 1)
    BY <1>1, <2>1, Counts
  <2>3. x \in mine[r] /\ y \in mine[r]
    BY <1>1, <2>1, <2>2 DEF PollsInv, Fresh
  <2>4. IsFiniteSet(mine[r]) /\ Cardinality(mine[r]) \in Nat
    BY RowsAreFinite DEF PollsInv, PollsTyped
  <2> QED
    BY <2>2, <2>3, <2>4, AtMostOne
<1> QED
  BY <1>4, <1>5

LEMMA CommitPolls ==
    ASSUME Po!PollConstants, PollsInv, NEW r \in Req, Po!Commit(r)
    PROVE  PollsInv'
<1>1. /\ pc[r] = "insert" /\ rows' = rows \cup mine[r]
      /\ pc' = [pc EXCEPT ![r] = "idle"] /\ mine' = [mine EXCEPT ![r] = {}]
      /\ overlaps' = (overlaps \cup {q \in Req : voter[q] = voter[r] /\ pc[q] = "insert"}) \ {r}
      /\ votes' = [v \in Po!Variant |-> IF <<voter[r], v>> \in mine[r] THEN votes[v] + 1 ELSE votes[v]]
      /\ UNCHANGED <<variants, multiselect, drawn, voter, edit>>
  BY DEF Po!Commit, Po!Done
<1>2. \A q \in Req : /\ mine'[q] = IF q = r THEN {} ELSE mine[q]
                     /\ pc'[q] = IF q = r THEN "idle" ELSE pc[q]
  BY <1>1 DEF PollsInv, PollsTyped
<1>3. \A x \in mine[r] : /\ x = <<voter[r], x[2]>> /\ x[2] \in variants \ edit.gone
                         /\ x[1] = voter[r] /\ x[1] \in User
  BY VariantsAreKnown DEF PollsInv, Ballots
<1>4. PollsTyped'
  <2>1. rows' \subseteq User \X variants
    BY <1>1, <1>3 DEF PollsInv, PollsTyped
  <2>2. votes' \in [Po!Variant -> Nat]
    BY <1>1 DEF PollsInv, PollsTyped
  <2> QED
    BY <1>1, <2>1, <2>2 DEF PollsInv, PollsTyped
<1>5. Ballots'
  <2>1. \A q \in Req : mine'[q] # {} => pc'[q] = "insert"
    BY <1>2 DEF PollsInv, Ballots
  <2>2. \A q \in Req : \A x \in mine'[q] :
            x[1] = voter[q] /\ x[2] \in variants \ edit.gone /\ x \notin rows'
    BY <1>1, <1>2 DEF PollsInv, Ballots
  <2>3. \A p \in Req : \A q \in Req \ {p} : \A x \in mine'[p], y \in mine'[q] : x[2] # y[2]
    BY <1>2 DEF PollsInv, Ballots
  <2> QED
    BY <1>1, <2>1, <2>2, <2>3 DEF Ballots
<1>6. Deletions'
  BY <1>1, <1>3 DEF PollsInv, Deletions
<1>7. Fresh'
  BY <1>1, <1>2, <1>3 DEF PollsInv, Fresh
<1> QED
  BY <1>4, <1>5, <1>6, <1>7, CommitExact, CommitOnce DEF PollsInv

LEMMA EditPolls ==
    ASSUME PollsInv, NEW kept \in SUBSET variants, NEW new \in 0 .. 1, NEW multi \in BOOLEAN,
           Po!EditPoll(kept, new, multi)
    PROVE  PollsInv'
<1>1. /\ edit' = [on |-> TRUE, todo |-> variants \ kept, gone |-> {}, multi |-> multi, new |-> new]
      /\ drawn + new <= MaxVariants
      /\ UNCHANGED <<variants, votes, multiselect, rows, drawn, voter, mine, pc, overlaps, twice,
                     plural>>
  BY DEF Po!EditPoll
<1>2. PollsTyped'
  BY <1>1 DEF PollsInv, PollsTyped
<1>3. Exact' /\ Once'
  BY <1>1, VotesStay
<1>4. Ballots'
  BY <1>1 DEF PollsInv, Ballots
<1>5. Deletions' /\ Fresh'
  BY <1>1 DEF PollsInv, Deletions, Fresh
<1> QED
  BY <1>2, <1>3, <1>4, <1>5 DEF PollsInv

\* A variant that is deleted has no vote, committed or not.
LEMMA DeleteVariantPolls ==
    ASSUME Po!PollConstants, PollsInv, Po!DeleteVariant
    PROVE  PollsInv'
<1> DEFINE v == Po!Min(edit.todo)
<1>1. /\ ~Po!Held(v) /\ edit.on
      /\ edit' = IF Po!Referenced(v) THEN Po!NoEdit
                 ELSE [edit EXCEPT !.todo = @ \ {v}, !.gone = @ \cup {v}]
      /\ UNCHANGED <<variants, votes, multiselect, rows, drawn, voter, mine, pc, overlaps, twice,
                     plural>>
  BY DEF Po!DeleteVariant
<1> HIDE DEF v
<1>2. edit' = Po!NoEdit \/ /\ ~Po!Referenced(v)
                           /\ edit' = [on |-> edit.on, todo |-> edit.todo \ {v},
                                       gone |-> edit.gone \cup {v}, multi |-> edit.multi,
                                       new |-> edit.new]
  BY <1>1 DEF PollsInv, PollsTyped
<1>3. PollsTyped'
  <2>1. drawn \in 2 .. MaxVariants
    BY DEF PollsInv, PollsTyped
  <2> DEFINE Fits(e) == /\ e = [on |-> e.on, todo |-> e.todo, gone |-> e.gone,
                                multi |-> e.multi, new |-> e.new]
                        /\ e.multi \in BOOLEAN /\ e.new \in 0 .. 1
                        /\ e.on => drawn + e.new <= MaxVariants
  <2>2. Fits(Po!NoEdit)
    BY DEF Po!NoEdit
  <2>3. \A S, T : Fits([on |-> edit.on, todo |-> S, gone |-> T, multi |-> edit.multi,
                        new |-> edit.new])
    BY DEF PollsInv, PollsTyped
  <2> HIDE DEF Fits
  <2>4. Fits(edit')
    BY <1>2, <2>2, <2>3
  <2>5. /\ edit' = [on |-> edit'.on, todo |-> edit'.todo, gone |-> edit'.gone,
                    multi |-> edit'.multi, new |-> edit'.new]
        /\ edit'.multi \in BOOLEAN /\ edit'.new \in 0 .. 1
        /\ edit'.on => drawn + edit'.new <= MaxVariants
    BY <2>4 DEF Fits
  <2> QED
    BY <1>1, <2>5 DEF PollsInv, PollsTyped
<1>4. Exact' /\ Once'
  BY <1>1, VotesStay
<1>5. \A q \in Req : \A x \in mine[q] : x[2] # v
  <2> SUFFICES ASSUME NEW q \in Req, NEW x \in mine[q], x[2] = v PROVE FALSE
    OBVIOUS
  <2>1. x = <<x[1], v>> /\ x[1] \in User
    BY VariantsAreKnown
  <2> QED
    BY <1>1, <2>1 DEF Po!Held
<1>6. Po!Referenced(v) \/ \A x \in rows : x[2] # v
  <2> SUFFICES ASSUME NEW x \in rows, x[2] = v PROVE Po!Referenced(v)
    OBVIOUS
  <2>1. x = <<x[1], v>> /\ x[1] \in User
    BY VariantsAreKnown
  <2> QED
    BY <2>1 DEF Po!Referenced
<1>7. edit'.gone = {} \/ (edit'.gone = edit.gone \cup {v} /\ ~Po!Referenced(v))
  BY <1>2 DEF Po!NoEdit
<1>8. Ballots'
  BY <1>1, <1>5, <1>7 DEF PollsInv, Ballots
<1>9. Deletions' /\ Fresh'
  BY <1>1, <1>6, <1>7 DEF PollsInv, Deletions, Fresh
<1> QED
  BY <1>3, <1>4, <1>8, <1>9 DEF PollsInv

\* So an edit takes nothing from the rows when it commits.
LEMMA EditKeepsVotes ==
    ASSUME PollsInv, Po!CommitEdit
    PROVE  rows' = rows
  BY DEF PollsInv, Deletions, Po!CommitEdit

LEMMA CommitEditPolls ==
    ASSUME Po!PollConstants, PollsInv, Po!CommitEdit
    PROVE  PollsInv'
<1>1. /\ variants' = (variants \ edit.gone) \cup drawn+1 .. drawn+edit.new
      /\ drawn' = drawn + edit.new /\ edit.on
      /\ multiselect' = edit.multi /\ edit' = Po!NoEdit
      /\ UNCHANGED <<votes, voter, mine, pc, overlaps, twice, plural>>
  BY DEF Po!CommitEdit
<1>2. rows' = rows
  BY EditKeepsVotes
<1>3. variants \ edit.gone \subseteq variants'
  BY <1>1
<1>4. PollsTyped'
  <2>1. MaxVariants \in Nat /\ drawn \in 2 .. MaxVariants /\ edit.new \in 0 .. 1
        /\ drawn + edit.new <= MaxVariants /\ variants \subseteq 1 .. drawn
    BY <1>1 DEF PollsInv, PollsTyped, Po!PollConstants
  <2>2. drawn' \in 2 .. MaxVariants /\ variants' \subseteq 1 .. drawn'
    <3>1. PICK n \in 0 .. 1 : n = edit.new
      BY <2>1
    <3>2. drawn' = drawn + n /\ drawn + n \in 2 .. MaxVariants
      BY <1>1, <2>1, <3>1
    <3>3. \A v \in variants' : v \in 1 .. drawn \/ v \in drawn+1 .. drawn+n
      BY <1>1, <2>1, <3>1
    <3> QED
      BY <2>1, <3>2, <3>3
  <2>3. rows' \subseteq User \X variants'
    BY <1>2, <1>3 DEF PollsInv, PollsTyped, Deletions
  <2>4. edit' = [on |-> FALSE, todo |-> {}, gone |-> {}, multi |-> FALSE, new |-> 0]
    BY <1>1 DEF Po!NoEdit
  <2> QED
    BY <1>1, <2>2, <2>3, <2>4 DEF PollsInv, PollsTyped
<1>5. Exact' /\ Once'
  BY <1>1, <1>2, VotesStay
<1>6. edit'.gone = {}
  BY <1>1 DEF Po!NoEdit
<1>7. Ballots'
  BY <1>1, <1>2, <1>3, <1>6 DEF PollsInv, Ballots
<1>8. Deletions' /\ Fresh'
  BY <1>1, <1>2, <1>6 DEF PollsInv, Deletions, Fresh
<1> QED
  BY <1>4, <1>5, <1>7, <1>8 DEF PollsInv

LEMMA PollsStay == ASSUME PollsInv, UNCHANGED povars PROVE PollsInv'
  BY DEF povars, PollsInv, PollsTyped, Exact, Ballots, Deletions, Fresh, Once, Voters

LEMMA NextPolls ==
    ASSUME Po!PollConstants, PollsInv, Po!Next
    PROVE  PollsInv'
<1>1. ASSUME NEW r \in Req, NEW chosen \in SUBSET Po!Variant, Po!Ask(r, chosen) PROVE PollsInv'
  BY <1>1, AskPolls
<1>2. ASSUME NEW r \in Req, Po!Count(r) PROVE PollsInv'
  BY <1>2, CountPolls
<1>3. ASSUME NEW r \in Req, Po!Insert(r) PROVE PollsInv'
  BY <1>3, InsertPolls
<1>4. ASSUME NEW r \in Req, Po!Commit(r) PROVE PollsInv'
  BY <1>4, CommitPolls
<1>5. ASSUME NEW r \in Req, Po!Abort(r) PROVE PollsInv'
  BY <1>5, DonePolls DEF Po!Abort
<1>6. ASSUME NEW kept \in SUBSET variants, NEW new \in 0 .. 1, NEW multi \in BOOLEAN,
             Po!EditPoll(kept, new, multi)
      PROVE PollsInv'
  BY <1>6, EditPolls
<1>7. CASE Po!DeleteVariant
  BY <1>7, DeleteVariantPolls
<1>8. CASE Po!CommitEdit
  BY <1>8, CommitEditPolls
<1> QED
  BY <1>1, <1>2, <1>3, <1>4, <1>5, <1>6, <1>7, <1>8 DEF Po!Next

LEMMA PollsInvConsistent ==
    ASSUME Po!PollConstants, PollsInv
    PROVE  VotesConsistent
<1>1. Po!VotesAreRows
  <2> SUFFICES ASSUME NEW v \in variants
               PROVE  votes[v] = Cardinality({u \in User : <<u, v>> \in rows})
    BY Counts DEF Po!VotesAreRows
  <2> QED
    BY VariantsAreKnown DEF PollsInv, Exact, Voters
<1>2. Po!OneVoteEach
  <2> SUFFICES ASSUME NEW u \in User, u \notin twice, u \notin plural
               PROVE  Cardinality({v \in Po!Variant : <<u, v>> \in rows}) <= 1
    BY Counts DEF Po!OneVoteEach
  <2>1. \A x, y \in {v \in Po!Variant : <<u, v>> \in rows} : x = y
    BY DEF PollsInv, Once
  <2>2. IsFiniteSet(Po!Variant)
    BY FS_Interval DEF Po!Variant, Po!PollConstants
  <2>3. IsFiniteSet({v \in Po!Variant : <<u, v>> \in rows})
    BY <2>2, FS_Subset
  <2> QED
    BY <2>1, <2>3, AtMostOne
<1>3. Po!PollsTypeOK
  <2>1. \A v \in Po!Variant : votes[v] \in 0 .. Cardinality(User)
    <3> SUFFICES ASSUME NEW v \in Po!Variant PROVE votes[v] \in 0 .. Cardinality(User)
      OBVIOUS
    <3>1. votes[v] = Cardinality(Voters(v, rows))
      BY DEF PollsInv, Exact
    <3>2. Cardinality(User) \in Nat
      BY FS_CardinalityType DEF Po!PollConstants, Po!IsFiniteSet, IsFiniteSet
    <3> QED
      BY <3>1, <3>2, VotersAreFinite
  <2> QED
    BY <2>1, VariantsAreKnown, Counts DEF Po!PollsTypeOK, PollsInv, PollsTyped
<1> QED
  BY <1>1, <1>2, <1>3 DEF VotesConsistent, Po!VotesConsistent

\* However requests, failures and edits of a poll interleave, the counter of each
\* variant is the number of its votes, and a user has several only by one ballot
\* or by requests of his that were under way together (vVote, vUpdatePollTx).
THEOREM VotesStayConsistent ==
    ASSUME Po!PollConstants
    PROVE  Po!Spec => []VotesConsistent
<1>1. Po!Init => PollsInv
  BY InitPolls
<1>2. PollsInv /\ [Po!Next]_povars => PollsInv'
  BY NextPolls, PollsStay
<1>3. PollsInv => VotesConsistent
  BY PollsInvConsistent
<1>4. Po!Spec <=> Po!Init /\ [][Po!Next]_povars
  BY DEF Po!Spec, Po!vars, povars
<1> QED
  BY <1>1, <1>2, <1>3, <1>4, PTL

\* And no step takes a vote back: a variant that has one is never deleted.
THEOREM VotesAreKept ==
    ASSUME Po!PollConstants
    PROVE  Po!Spec => [][Po!KeepsVotes]_povars
<1>1. PollsInv /\ [Po!Next]_povars => PollsInv'
  BY NextPolls, PollsStay
<1>2. PollsInv /\ [Po!Next]_povars => [Po!KeepsVotes]_povars
  BY EditKeepsVotes DEF Po!Next, Po!Ask, Po!Count, Po!Insert, Po!Commit, Po!Abort, Po!EditPoll,
     Po!DeleteVariant, Po!KeepsVotes, povars
<1>3. Po!Init => PollsInv
  BY InitPolls
<1>4. Po!Spec <=> Po!Init /\ [][Po!Next]_povars
  BY DEF Po!Spec, Po!vars, povars
<1> QED
  BY <1>1, <1>2, <1>3, <1>4, PTL

-----------------------------------------------------------------------------
(* The numbers of unread events *)

Requests == {"comment", "react", "unreact", "delete", "topic", "reset", "click"}

\* Those whose count is the last that they do to the numbers.
Repairing == Requests \ {"delete", "topic"}

Todos == {<<>>, <<"count">>, <<"insert">>, <<"insert", "count">>, <<"delete", "count">>,
          <<"mark", "count">>, <<"affected", "delete", "count">>,
          <<"insert", "affected", "delete", "count">>,
          <<"affected", "delete", "count", "insert">>, <<"delete", "count", "insert">>,
          <<"count", "insert">>}

Telling == [what : Requests \cup {"none"}, todo : Todos, under : BOOLEAN,
            comment : Comment \cup {Nobody}, top : 0..LastEvent, notify : SUBSET Reader,
            raise : 0..LastEvent, events : SUBSET Un!Event, recount : SUBSET Reader,
            counted : [Reader -> Nat], alone : BOOLEAN]

\* How far a request of each kind may be.
OnItsWay(what, todo) ==
    \/ todo = <<>>
    \/ todo = <<"count">> /\ what \in Requests \ {"topic"}
    \/ todo = <<"insert">> /\ what = "topic"
    \/ todo = <<"insert", "count">> /\ what \in {"comment", "react"}
    \/ todo = <<"delete", "count">> /\ what \in {"unreact", "delete"}
    \/ todo = <<"mark", "count">> /\ what \in {"reset", "click"}
    \/ todo \in {<<"affected", "delete", "count">>,
                 <<"insert", "affected", "delete", "count">>} /\ what = "delete"
    \/ todo \in {<<"affected", "delete", "count", "insert">>, <<"delete", "count", "insert">>,
                 <<"count", "insert">>} /\ what = "topic"

\* There is nobody to recount for: the count is done, or they are not looked up yet.
NoneToCount(todo) ==
    todo \in {<<>>, <<"insert">>, <<"affected", "delete", "count">>,
              <<"insert", "affected", "delete", "count">>, <<"affected", "delete", "count", "insert">>}

UnreadTyped ==
    /\ Un!UnreadTypeOK
    /\ fact \in [Un!Event -> [user : Reader \cup {Nobody}, comment : Comment \cup {Nobody},
                              kind : Un!Kinds]]
    /\ lock \in [event : [Un!Event -> Req \cup {Nobody}], user : [Reader -> Req \cup {Nobody}]]
    /\ unread \in [event : [Un!Event -> Un!States], user : [Reader -> Nat]]
    /\ telling \in [Req -> Telling]
    /\ shown \in [Reader -> SUBSET Un!Event]

\* Events that are not drawn yet are nobody's.
NotDrawn ==
    \A e \in Un!Event :
        IF e < nextId THEN fact[e].user \in Reader
        ELSE row[e] = "none" /\ unread.event[e] = "none" /\ lock.event[e] = Nobody

Waits(h, u) == telling[h].raise # 0 /\ fact[telling[h].raise].user = u

\* A request goes its way; who has nothing to do holds nothing.
GoesOn(h) ==
    LET r == telling[h] IN
    /\ OnItsWay(r.what, r.todo)
    /\ r.what = "none" =>
         /\ r.todo = <<>> /\ r.raise = 0
         /\ \A e \in Un!Event : lock.event[e] # h
         /\ \A u \in Reader : lock.user[u] # h
    /\ r.alone => r.what # "none" /\ \A g \in Req \ {h} : telling[g].what = "none"
    /\ r.raise # 0 => Un!At(h, "insert") /\ r.raise < nextId
    /\ NoneToCount(r.todo) => r.recount = {}
    /\ r.todo = <<"insert", "count">> =>
         r.notify \subseteq r.recount /\ \A u \in Reader : Waits(h, u) => u \in r.recount

\* Of whoever is alone: what it deletes is of those it recounts for, it has
\* counted what there is, and its users' numbers are exact, but for what it is
\* still to raise or to recount.
DeletesKnown(h) ==
    Un!At(h, "delete") => \A e \in Un!Deletable(h) : fact[e].user \in telling[h].recount
CountedRight(h) ==
    Un!At(h, "count") /\ telling[h].under =>
        \A u \in Reader : telling[h].counted[u] = Un!UnreadOf(u, unread.event)

Owed(h, u) == IF Waits(h, u) THEN 1 ELSE 0
NumberIsRight(h, u) ==
    cache[u] = Un!UnreadOf(u, row) \/ (lock.user[u] = h /\ telling[h].what \in Repairing) =>
        unread.user[u] + Owed(h, u) = Un!UnreadOf(u, unread.event)

ExactFor(h) ==
    /\ DeletesKnown(h) /\ CountedRight(h)
    /\ \A u \in Reader \ telling[h].recount : NumberIsRight(h, u)

UnreadInv ==
    /\ UnreadTyped /\ NotDrawn
    /\ \A h \in Req : GoesOn(h) /\ (telling[h].alone => ExactFor(h))

LEMMA TodoGoesOn ==
    ASSUME NEW what, NEW todo \in Todos, todo # <<>>, OnItsWay(what, todo)
    PROVE  /\ Tail(todo) \in Todos /\ OnItsWay(what, Tail(todo))
           /\ Head(todo) \in {"insert", "affected", "delete", "mark", "count"}
           /\ Head(todo) = "count" => NoneToCount(Tail(todo))
           /\ NoneToCount(Tail(todo)) => NoneToCount(todo) \/ Head(todo) = "count"
           /\ Head(todo) = "affected" => /\ what \in {"delete", "topic"} /\ NoneToCount(todo)
                                         /\ ~NoneToCount(Tail(todo))
           /\ Head(todo) = "delete" => what \in {"unreact", "delete", "topic"}
           /\ Head(todo) = "mark" => what \in {"reset", "click"}
           /\ Tail(todo) # <<>> /\ Head(Tail(todo)) = "delete" => Head(todo) = "affected"
           /\ Tail(todo) # <<"insert", "count">>
           /\ Head(todo) = "insert" /\ what \in Repairing => todo = <<"insert", "count">>
<1>1. /\ \A a : Head(<<a>>) = a /\ Tail(<<a>>) = <<>>
      /\ \A a, b : Head(<<a, b>>) = a /\ Tail(<<a, b>>) = <<b>>
      /\ \A a, b, c : Head(<<a, b, c>>) = a /\ Tail(<<a, b, c>>) = <<b, c>>
      /\ \A a, b, c, d : Head(<<a, b, c, d>>) = a /\ Tail(<<a, b, c, d>>) = <<b, c, d>>
  OBVIOUS
<1>2. CASE todo = <<"count">>
  BY <1>1, <1>2 DEF Todos, OnItsWay, NoneToCount, Requests, Repairing
<1>3. CASE todo = <<"insert">>
  BY <1>1, <1>3 DEF Todos, OnItsWay, NoneToCount, Requests, Repairing
<1>4. CASE todo = <<"insert", "count">>
  BY <1>1, <1>4 DEF Todos, OnItsWay, NoneToCount, Requests, Repairing
<1>5. CASE todo = <<"delete", "count">>
  BY <1>1, <1>5 DEF Todos, OnItsWay, NoneToCount, Requests, Repairing
<1>6. CASE todo = <<"mark", "count">>
  BY <1>1, <1>6 DEF Todos, OnItsWay, NoneToCount, Requests, Repairing
<1>7. CASE todo = <<"affected", "delete", "count">>
  BY <1>1, <1>7 DEF Todos, OnItsWay, NoneToCount, Requests, Repairing
<1>8. CASE todo = <<"insert", "affected", "delete", "count">>
  BY <1>1, <1>8 DEF Todos, OnItsWay, NoneToCount, Requests, Repairing
<1>9. CASE todo = <<"affected", "delete", "count", "insert">>
  BY <1>1, <1>9 DEF Todos, OnItsWay, NoneToCount, Requests, Repairing
<1>10. CASE todo = <<"delete", "count", "insert">>
  BY <1>1, <1>10 DEF Todos, OnItsWay, NoneToCount, Requests, Repairing
<1>11. CASE todo = <<"count", "insert">>
  BY <1>1, <1>11 DEF Todos, OnItsWay, NoneToCount, Requests, Repairing
<1> QED
  BY <1>2, <1>3, <1>4, <1>5, <1>6, <1>7, <1>8, <1>9, <1>10, <1>11 DEF Todos

LEMMA ProgramStarts ==
    ASSUME NEW what \in Requests
    PROVE  /\ Un!Program[what] \in Todos /\ OnItsWay(what, Un!Program[what])
           /\ Un!Program[what] # <<>>
           /\ what \in {"delete", "topic"} => NoneToCount(Un!Program[what])
           /\ what \notin {"delete", "topic"} => ~NoneToCount(Un!Program[what])
           /\ Head(Un!Program[what]) = "delete" => what = "unreact"
           /\ Un!Program[what] = <<"insert", "count">> => what \in {"comment", "react"}
           /\ Head(Un!Program[what]) # "count"
<1>1. /\ Un!Program["comment"] = <<"insert", "count">> /\ Un!Program["react"] = <<"insert", "count">>
      /\ Un!Program["unreact"] = <<"delete", "count">>
      /\ Un!Program["delete"] = <<"insert", "affected", "delete", "count">>
      /\ Un!Program["topic"] = <<"affected", "delete", "count", "insert">>
      /\ Un!Program["reset"] = <<"mark", "count">> /\ Un!Program["click"] = <<"mark", "count">>
  BY DEF Un!Program
<1> HIDE DEF Un!Program
<1>2. /\ \A a, b : Head(<<a, b>>) = a
      /\ \A a, b, c, d : Head(<<a, b, c, d>>) = a
  OBVIOUS
<1>3. what \in {"comment", "react", "unreact", "delete", "topic", "reset", "click"}
  BY DEF Requests
<1>4. CASE what \in {"comment", "react"}
  <2>1. Un!Program[what] = <<"insert", "count">>
    BY <1>1, <1>4
  <2> QED
    BY <1>2, <1>4, <2>1 DEF Todos, OnItsWay, NoneToCount
<1>5. CASE what = "unreact"
  <2>1. Un!Program[what] = <<"delete", "count">>
    BY <1>1, <1>5
  <2> QED
    BY <1>2, <1>5, <2>1 DEF Todos, OnItsWay, NoneToCount
<1>6. CASE what = "delete"
  <2>1. Un!Program[what] = <<"insert", "affected", "delete", "count">>
    BY <1>1, <1>6
  <2> QED
    BY <1>2, <1>6, <2>1 DEF Todos, OnItsWay, NoneToCount
<1>7. CASE what = "topic"
  <2>1. Un!Program[what] = <<"affected", "delete", "count", "insert">>
    BY <1>1, <1>7
  <2> QED
    BY <1>2, <1>7, <2>1 DEF Todos, OnItsWay, NoneToCount
<1>8. CASE what \in {"reset", "click"}
  <2>1. Un!Program[what] = <<"mark", "count">>
    BY <1>1, <1>8
  <2> QED
    BY <1>2, <1>8, <2>1 DEF Todos, OnItsWay, NoneToCount
<1> QED
  BY <1>3, <1>4, <1>5, <1>6, <1>7, <1>8

LEMMA UnreadFacts ==
    ASSUME Un!UnreadConstants, UnreadInv
    PROVE  /\ row \in [Un!Event -> Un!States] /\ cache \in [Reader -> Nat]
           /\ fact \in [Un!Event -> [user : Reader \cup {Nobody}, comment : Comment \cup {Nobody},
                                     kind : Un!Kinds]]
           /\ lock \in [event : [Un!Event -> Req \cup {Nobody}], user : [Reader -> Req \cup {Nobody}]]
           /\ lock.event \in [Un!Event -> Req \cup {Nobody}]
           /\ lock.user \in [Reader -> Req \cup {Nobody}]
           /\ unread \in [event : [Un!Event -> Un!States], user : [Reader -> Nat]]
           /\ unread.event \in [Un!Event -> Un!States] /\ unread.user \in [Reader -> Nat]
           /\ telling \in [Req -> Telling] /\ shown \in [Reader -> SUBSET Un!Event]
           /\ nextId \in 1..LastEvent + 1 /\ started \in 0..MaxRequests
           /\ Un!Event = 1..LastEvent /\ LastEvent \in Nat /\ MaxRequests \in Nat
           /\ Nobody \notin Req /\ Nobody \notin Reader
           /\ \A e \in Un!Event : lock.event[e] = Nobody => unread.event[e] = row[e]
           /\ \A u \in Reader : lock.user[u] = Nobody => unread.user[u] = cache[u]
  BY DEF UnreadInv, UnreadTyped, Un!UnreadTypeOK, Un!UnreadConstants, Un!Event

\* One request, field by field.
LEMMA TellingFacts ==
    ASSUME UnreadInv, NEW h \in Req
    PROVE  /\ telling[h].what \in Requests \cup {"none"} /\ telling[h].todo \in Todos
           /\ telling[h].under \in BOOLEAN /\ telling[h].alone \in BOOLEAN
           /\ telling[h].comment \in Comment \cup {Nobody} /\ telling[h].top \in 0..LastEvent
           /\ telling[h].notify \subseteq Reader /\ telling[h].recount \subseteq Reader
           /\ telling[h].raise \in 0..LastEvent /\ telling[h].events \subseteq Un!Event
           /\ telling[h].counted \in [Reader -> Nat] /\ telling[h] \in Telling
           /\ GoesOn(h) /\ (telling[h].alone => ExactFor(h))
<1>1. telling \in [Req -> Telling]
  BY DEF UnreadInv, UnreadTyped
<1>2. telling[h] \in Telling
  BY <1>1
<1> QED
  BY <1>2 DEF UnreadInv, Telling

LEMMA UnreadNumbers ==
    ASSUME Un!UnreadConstants, NEW u, NEW state
    PROVE  /\ Un!UnreadOf(u, state) \in Nat
           /\ IsFiniteSet({e \in Un!Event : fact[e].user = u /\ state[e] = "unread"})
           /\ Un!UnreadOf(u, state)
                = Cardinality({e \in Un!Event : fact[e].user = u /\ state[e] = "unread"})
<1> DEFINE some == {e \in Un!Event : fact[e].user = u /\ state[e] = "unread"}
<1>1. IsFiniteSet(Un!Event)
  BY FS_Interval DEF Un!Event, Un!UnreadConstants
<1>2. IsFiniteSet(some)
  BY <1>1, FS_Subset
<1>3. Cardinality(some) \in Nat
  BY <1>2, FS_CardinalityType
<1>4. Un!UnreadOf(u, state) = Cardinality(some)
  BY DEF Un!UnreadOf, Un!Cardinality, Cardinality
<1> QED
  BY <1>2, <1>3, <1>4

\* Whoever is alone holds all rows that are held, and sees what has been written.
LEMMA AloneSees ==
    ASSUME Un!UnreadConstants, UnreadInv, NEW h \in Req, telling[h].alone
    PROVE  /\ telling[h].what # "none" /\ \A g \in Req \ {h} : telling[g].what = "none"
           /\ \A e \in Un!Event : lock.event[e] \in {h, Nobody} /\ Un!Sees(h, e) = unread.event[e]
           /\ \A u \in Reader : lock.user[u] \in {h, Nobody}
           /\ \A u \in Reader : lock.user[u] # h => unread.user[u] = cache[u]
<1>1. /\ telling[h].what # "none" /\ \A g \in Req \ {h} : telling[g].what = "none"
  BY TellingFacts DEF GoesOn
<1>2. \A g \in Req \ {h} : /\ \A e \in Un!Event : lock.event[e] # g
                           /\ \A u \in Reader : lock.user[u] # g
  BY <1>1 DEF UnreadInv, GoesOn
<1> QED
  BY <1>1, <1>2, UnreadFacts DEF Un!Sees

\* A statement leaves the other requests alone.
LEMMA OthersGoOn ==
    ASSUME Un!UnreadConstants, UnreadInv, NEW h \in Req, telling[h].what # "none",
           telling'[h].what # "none",
           \A g \in Req \ {h} : telling'[g] = telling[g],
           nextId' \in {nextId, nextId + 1}, \A e \in Un!Event : e < nextId => fact'[e] = fact[e],
           \A e \in Un!Event : lock'.event[e] \in {lock.event[e], h},
           \A u \in Reader : lock'.user[u] \in {lock.user[u], h}
    PROVE  \A g \in Req \ {h} : GoesOn(g)' /\ (telling'[g].alone => ExactFor(g)')
<1> SUFFICES ASSUME NEW g \in Req \ {h}
             PROVE  GoesOn(g)' /\ (telling'[g].alone => ExactFor(g)')
  OBVIOUS
<1>1. telling'[g] = telling[g] /\ GoesOn(g)
  BY TellingFacts
<1>2. ~telling[g].alone
  BY <1>1 DEF GoesOn
<1>3. telling[g].raise # 0 => telling[g].raise \in Un!Event /\ telling[g].raise < nextId
  BY <1>1, UnreadFacts, TellingFacts DEF GoesOn
<1>4. \A u \in Reader : Waits(g, u)' <=> Waits(g, u)
  BY <1>1, <1>3 DEF Waits
<1>5. telling[g].raise # 0 => telling[g].raise < nextId'
  BY <1>3, UnreadFacts
<1>6. telling[g].what = "none" => /\ telling[g].todo = <<>> /\ telling[g].raise = 0
                                  /\ \A e \in Un!Event : lock'.event[e] # g
                                  /\ \A u \in Reader : lock'.user[u] # g
  BY <1>1 DEF GoesOn
<1>7. Un!At(g, "insert")' <=> Un!At(g, "insert")
  BY <1>1 DEF Un!At
<1>8. GoesOn(g)'
  <2>1. Un!Event' = Un!Event
    BY DEF Un!Event
  <2> QED
    BY <1>1, <1>2, <1>4, <1>5, <1>6, <1>7, <2>1 DEF GoesOn
<1> QED
  BY <1>1, <1>2, <1>8

LEMMA BusyIsTelling ==
    ASSUME UnreadInv, NEW h \in Req, telling[h].todo # <<>> \/ telling[h].raise # 0
    PROVE  telling[h].what # "none" /\ OnItsWay(telling[h].what, telling[h].todo)
  BY TellingFacts DEF GoesOn

LEMMA StatementKeeps ==
    ASSUME Un!UnreadConstants, UnreadInv, NEW h \in Req, telling[h].what # "none",
           telling'[h].what = telling[h].what,
           \A g \in Req \ {h} : telling'[g] = telling[g],
           nextId' \in {nextId, nextId + 1}, \A e \in Un!Event : e < nextId => fact'[e] = fact[e],
           \A e \in Un!Event : lock'.event[e] \in {lock.event[e], h},
           \A u \in Reader : lock'.user[u] \in {lock.user[u], h},
           UnreadTyped', NotDrawn', GoesOn(h)', telling'[h].alone => ExactFor(h)'
    PROVE  UnreadInv'
<1>1. \A g \in Req \ {h} : GoesOn(g)' /\ (telling'[g].alone => ExactFor(g)')
  BY OthersGoOn
<1> QED
  BY <1>1 DEF UnreadInv

\* Statements that only read.
LEMMA ReadingKeeps ==
    ASSUME Un!UnreadConstants, UnreadInv, NEW h \in Req, telling[h].what # "none",
           telling' \in [Req -> Telling], telling'[h].what = telling[h].what,
           \A g \in Req \ {h} : telling'[g] = telling[g],
           UNCHANGED <<row, cache, unread, lock, fact, nextId, shown, started>>,
           GoesOn(h)', telling'[h].alone => ExactFor(h)'
    PROVE  UnreadInv'
<1>1. Un!Event' = Un!Event /\ Un!States' = Un!States /\ Un!Kinds' = Un!Kinds
  BY DEF Un!Event, Un!States, Un!Kinds
<1>2. NotDrawn'
  BY <1>1 DEF UnreadInv, NotDrawn
<1>3. \A g \in Req : telling'[g].events \subseteq Un!Event /\ telling'[g].recount \subseteq Reader
  BY DEF Telling
<1>4. Un!UnreadTypeOK'
  BY <1>1, <1>3 DEF UnreadInv, UnreadTyped, Un!UnreadTypeOK
<1>5. Telling' = Telling
  BY <1>1 DEF Telling
<1>6. UnreadTyped'
  BY <1>1, <1>4, <1>5 DEF UnreadInv, UnreadTyped
<1>7. /\ \A e \in Un!Event : lock'.event[e] \in {lock.event[e], h}
      /\ \A u \in Reader : lock'.user[u] \in {lock.user[u], h}
  OBVIOUS
<1> QED
  BY <1>2, <1>6, <1>7, StatementKeeps

\* What a request still has to do gets shorter; the rest of it stays.
LEMMA FinishFacts ==
    ASSUME UnreadInv, NEW h \in Req, telling[h].todo # <<>>, telling' = Un!Finish(h)
    PROVE  /\ telling' \in [Req -> Telling]
           /\ \A g \in Req \ {h} : telling'[g] = telling[g]
           /\ telling'[h] = [telling[h] EXCEPT !.todo = Tail(telling[h].todo), !.under = FALSE]
           /\ telling'[h].todo = Tail(telling[h].todo) /\ ~telling'[h].under
           /\ telling'[h].what = telling[h].what /\ telling'[h].alone = telling[h].alone
           /\ telling'[h].raise = telling[h].raise /\ telling'[h].recount = telling[h].recount
           /\ telling'[h].notify = telling[h].notify /\ telling'[h].comment = telling[h].comment
<1>1. telling \in [Req -> Telling] /\ telling[h] \in Telling
  BY TellingFacts DEF UnreadInv, UnreadTyped
<1>2. Tail(telling[h].todo) \in Todos
  BY TodoGoesOn, BusyIsTelling, TellingFacts
<1>3. telling'[h] = [telling[h] EXCEPT !.todo = Tail(telling[h].todo), !.under = FALSE]
  BY <1>1 DEF Un!Finish
<1>4. \A g \in Req \ {h} : telling'[g] = telling[g]
  BY <1>1 DEF Un!Finish
<1>5. telling'[h] \in Telling
  BY <1>1, <1>2, <1>3 DEF Telling
<1>6. telling' \in [Req -> Telling]
  BY <1>1, <1>4, <1>5 DEF Un!Finish
<1> QED
  BY <1>1, <1>3, <1>4, <1>6 DEF Telling

LEMMA NumbersStayRight ==
    ASSUME UnreadInv, NEW h \in Req, telling[h].alone,
           UNCHANGED <<row, cache, unread, lock, fact>>,
           telling'[h].raise = telling[h].raise, telling'[h].what = telling[h].what,
           telling[h].recount \subseteq telling'[h].recount
    PROVE  \A u \in Reader \ telling'[h].recount : NumberIsRight(h, u)'
<1> SUFFICES ASSUME NEW u \in Reader \ telling'[h].recount PROVE NumberIsRight(h, u)'
  OBVIOUS
<1>1. NumberIsRight(h, u)
  BY TellingFacts DEF ExactFor
<1>2. Waits(h, u)' <=> Waits(h, u)
  BY DEF Waits
<1>3. Owed(h, u)' = Owed(h, u)
  BY <1>2 DEF Owed
<1>4. /\ Un!UnreadOf(u, row)' = Un!UnreadOf(u, row)
      /\ Un!UnreadOf(u, unread.event)' = Un!UnreadOf(u, unread.event)
  BY DEF Un!UnreadOf, Un!Event
<1> QED
  BY <1>1, <1>3, <1>4 DEF NumberIsRight

LEMMA DeletableFacts ==
    ASSUME NEW h
    PROVE  \A e \in Un!Deletable(h) :
               /\ e \in Un!Event /\ Un!Sees(h, e) # "none"
               /\ telling[h].what \notin {"topic", "delete"} => fact[e].user \in telling[h].recount
<1> SUFFICES ASSUME NEW e \in Un!Deletable(h)
             PROVE  /\ e \in Un!Event /\ Un!Sees(h, e) # "none"
                    /\ telling[h].what \notin {"topic", "delete"} => fact[e].user \in telling[h].recount
  OBVIOUS
<1>1. CASE telling[h].what = "topic"
  BY <1>1 DEF Un!Deletable
<1>2. CASE telling[h].what = "delete"
  BY <1>2 DEF Un!Deletable
<1>3. CASE telling[h].what \notin {"topic", "delete"}
  BY <1>3 DEF Un!Deletable
<1> QED
  BY <1>1, <1>2, <1>3

\* What is selected stays the same as long as nothing is written.
LEMMA DeletableStays ==
    ASSUME NEW h, telling'[h].what = telling[h].what, telling'[h].comment = telling[h].comment,
           telling[h].what \in {"topic", "delete"} \/ telling'[h].recount = telling[h].recount,
           UNCHANGED <<row, unread, lock, fact>>
    PROVE  Un!Deletable(h)' = Un!Deletable(h)
<1>1. \A e : Un!Sees(h, e)' = Un!Sees(h, e)
  BY DEF Un!Sees
<1>2. Un!Event' = Un!Event
  BY DEF Un!Event
<1>3. CASE telling[h].what = "topic"
  BY <1>1, <1>2, <1>3 DEF Un!Deletable
<1>4. CASE telling[h].what = "delete"
  BY <1>1, <1>2, <1>4 DEF Un!Deletable
<1>5. CASE telling[h].what \notin {"topic", "delete"}
  BY <1>1, <1>2, <1>5 DEF Un!Deletable
<1> QED
  BY <1>3, <1>4, <1>5

LEMMA StartEventsKeeps ==
    ASSUME Un!UnreadConstants, UnreadInv, NEW h \in Req, Un!StartEvents(h)
    PROVE  UnreadInv'
<1> DEFINE some == IF Un!At(h, "delete") THEN Un!Deletable(h) ELSE Un!Markable(h)
<1>1. /\ Un!At(h, "delete") \/ Un!At(h, "mark")
      /\ telling' = [telling EXCEPT ![h].under = TRUE, ![h].events = some]
      /\ UNCHANGED <<row, cache, unread, lock, fact, nextId, shown, started>>
  BY DEF Un!StartEvents, Un!data
<1>2. some \subseteq Un!Event
  BY DEF Un!Deletable, Un!Markable
<1> HIDE DEF some
<1>3. telling \in [Req -> Telling] /\ telling[h] \in Telling
  BY TellingFacts DEF UnreadInv, UnreadTyped
<1>4. /\ \A g \in Req \ {h} : telling'[g] = telling[g]
      /\ telling'[h] = [telling[h] EXCEPT !.under = TRUE, !.events = some]
  BY <1>1, <1>3
<1>5. /\ telling'[h].what = telling[h].what /\ telling'[h].alone = telling[h].alone
      /\ telling'[h].raise = telling[h].raise /\ telling'[h].recount = telling[h].recount
      /\ telling'[h].notify = telling[h].notify /\ telling'[h].comment = telling[h].comment
      /\ telling'[h].todo = telling[h].todo
  BY <1>3, <1>4 DEF Telling
<1>6. telling' \in [Req -> Telling]
  <2>1. telling'[h] \in Telling
    BY <1>2, <1>3, <1>4 DEF Telling
  <2> QED
    BY <1>1, <1>3, <1>4, <2>1
<1>7. telling[h].what # "none" /\ Head(telling[h].todo) # "count" /\ Head(telling[h].todo) # "insert"
  BY <1>1, BusyIsTelling DEF Un!At
<1>8. telling[h].raise = 0
  BY <1>7, TellingFacts DEF GoesOn, Un!At
<1>9. GoesOn(h)'
  <2>1. GoesOn(h)
    BY TellingFacts
  <2> QED
    BY <1>4, <1>5, <1>7, <1>8, <2>1 DEF GoesOn, Waits
<1>10. telling'[h].alone => ExactFor(h)'
  <2> SUFFICES ASSUME telling[h].alone PROVE ExactFor(h)'
    BY <1>5
  <2>1. CountedRight(h)'
    BY <1>5, <1>7 DEF CountedRight, Un!At
  <2>2. DeletesKnown(h)'
    <3>1. DeletesKnown(h)
      BY TellingFacts DEF ExactFor
    <3>2. Un!Deletable(h)' = Un!Deletable(h)
      BY <1>1, <1>5, DeletableStays
    <3>3. Un!At(h, "delete")' <=> Un!At(h, "delete")
      BY <1>5 DEF Un!At
    <3> QED
      BY <1>1, <1>5, <3>1, <3>2, <3>3 DEF DeletesKnown
  <2> QED
    BY <1>1, <1>5, <2>1, <2>2, NumbersStayRight DEF ExactFor
<1> QED
  BY <1>1, <1>4, <1>5, <1>6, <1>7, <1>9, <1>10, ReadingKeeps

\* The transaction that is alone finds in the DELETE whom it has found before.
LEMMA SelectAffectedKeeps ==
    ASSUME Un!UnreadConstants, UnreadInv, NEW h \in Req, Un!SelectAffected(h)
    PROVE  UnreadInv'
<1> DEFINE users == {fact[e].user : e \in Un!Deletable(h)}
<1>1. /\ telling[h].todo # <<>> /\ Head(telling[h].todo) = "affected"
      /\ telling' = [Un!Finish(h) EXCEPT ![h].recount = users]
      /\ UNCHANGED <<row, cache, unread, lock, fact, nextId, shown, started>>
  BY DEF Un!SelectAffected, Un!At, Un!data
<1>2. users \subseteq Reader
  <2> SUFFICES ASSUME NEW e \in Un!Deletable(h) PROVE fact[e].user \in Reader
    OBVIOUS
  <2>1. e \in Un!Event /\ Un!Sees(h, e) # "none"
    BY DeletableFacts
  <2>2. row[e] # "none" \/ unread.event[e] # "none"
    BY <2>1 DEF Un!Sees
  <2> QED
    BY <2>1, <2>2 DEF UnreadInv, NotDrawn
<1>3. telling \in [Req -> Telling] /\ telling[h] \in Telling
  BY TellingFacts DEF UnreadInv, UnreadTyped
<1>4. /\ telling[h].what # "none" /\ OnItsWay(telling[h].what, telling[h].todo)
      /\ telling[h].todo \in Todos
  BY <1>1, BusyIsTelling, TellingFacts
<1>5. /\ Tail(telling[h].todo) \in Todos
      /\ OnItsWay(telling[h].what, Tail(telling[h].todo))
      /\ Tail(telling[h].todo) # <<"insert", "count">>
      /\ telling[h].what \in {"delete", "topic"}
      /\ NoneToCount(telling[h].todo) /\ ~NoneToCount(Tail(telling[h].todo))
  BY <1>1, <1>4, TodoGoesOn
<1> HIDE DEF users
<1>6. /\ \A g \in Req \ {h} : telling'[g] = telling[g]
      /\ telling'[h] = [telling[h] EXCEPT !.todo = Tail(telling[h].todo), !.under = FALSE,
                                          !.recount = users]
  BY <1>1, <1>3 DEF Un!Finish
<1>7. /\ telling'[h].what = telling[h].what /\ telling'[h].alone = telling[h].alone
      /\ telling'[h].raise = telling[h].raise /\ telling'[h].recount = users
      /\ telling'[h].comment = telling[h].comment
      /\ telling'[h].todo = Tail(telling[h].todo) /\ ~telling'[h].under
  BY <1>3, <1>6 DEF Telling
<1>8. telling' \in [Req -> Telling]
  <2>1. telling'[h] \in Telling
    BY <1>2, <1>3, <1>5, <1>6 DEF Telling
  <2> QED
    BY <1>1, <1>3, <1>6, <2>1 DEF Un!Finish
<1>9. telling[h].raise = 0 /\ telling[h].recount = {}
  BY <1>1, <1>5, TellingFacts DEF GoesOn, Un!At
<1>10. GoesOn(h)'
  <2>1. GoesOn(h)
    BY TellingFacts
  <2> QED
    BY <1>4, <1>5, <1>6, <1>7, <1>9, <2>1 DEF GoesOn
<1>11. telling'[h].alone => ExactFor(h)'
  <2> SUFFICES ASSUME telling[h].alone PROVE ExactFor(h)'
    BY <1>7
  <2>1. CountedRight(h)'
    BY <1>7 DEF CountedRight
  <2>2. DeletesKnown(h)'
    <3>1. Un!Deletable(h)' = Un!Deletable(h)
      BY <1>1, <1>5, <1>7, DeletableStays
    <3> QED
      BY <1>1, <1>7, <3>1 DEF DeletesKnown, users
  <2> QED
    BY <1>1, <1>7, <1>9, <2>1, <2>2, NumbersStayRight DEF ExactFor
<1> QED
  BY <1>1, <1>4, <1>6, <1>7, <1>8, <1>10, <1>11, ReadingKeeps

\* The count of whoever is alone is of what has been written by now.
LEMMA CountKeeps ==
    ASSUME Un!UnreadConstants, UnreadInv, NEW h \in Req, Un!Count(h)
    PROVE  UnreadInv'
<1> DEFINE counted == Un!CountSeen(h)
<1>1. /\ telling[h].todo # <<>> /\ Head(telling[h].todo) = "count"
      /\ telling' = [telling EXCEPT ![h].under = TRUE, ![h].counted = counted]
      /\ UNCHANGED <<row, cache, unread, lock, fact, nextId, shown, started>>
  BY DEF Un!Count, Un!At, Un!data
<1>2. counted \in [Reader -> Nat]
  BY UnreadNumbers DEF Un!CountSeen
<1>3. telling[h].alone => \A u \in Reader : counted[u] = Un!UnreadOf(u, unread.event)
  <2> SUFFICES ASSUME telling[h].alone, NEW u \in Reader
               PROVE  counted[u] = Un!UnreadOf(u, unread.event)
    OBVIOUS
  <2> DEFINE seen == [e \in Un!Event |-> Un!Sees(h, e)]
  <2>1. counted[u] = Un!UnreadOf(u, seen)
    BY DEF Un!CountSeen
  <2>2. \A e \in Un!Event : seen[e] = unread.event[e]
    BY AloneSees
  <2> HIDE DEF seen, counted
  <2>3. {e \in Un!Event : fact[e].user = u /\ seen[e] = "unread"}
          = {e \in Un!Event : fact[e].user = u /\ unread.event[e] = "unread"}
    BY <2>2
  <2>4. Un!UnreadOf(u, seen) = Cardinality({e \in Un!Event : fact[e].user = u /\ seen[e] = "unread"})
    BY UnreadNumbers
  <2>5. Un!UnreadOf(u, unread.event)
          = Cardinality({e \in Un!Event : fact[e].user = u /\ unread.event[e] = "unread"})
    BY UnreadNumbers
  <2> QED
    BY <2>1, <2>3, <2>4, <2>5
<1> HIDE DEF counted
<1>4. telling \in [Req -> Telling] /\ telling[h] \in Telling
  BY TellingFacts DEF UnreadInv, UnreadTyped
<1>5. /\ \A g \in Req \ {h} : telling'[g] = telling[g]
      /\ telling'[h] = [telling[h] EXCEPT !.under = TRUE, !.counted = counted]
  BY <1>1, <1>4
<1>6. /\ telling'[h].what = telling[h].what /\ telling'[h].alone = telling[h].alone
      /\ telling'[h].raise = telling[h].raise /\ telling'[h].recount = telling[h].recount
      /\ telling'[h].notify = telling[h].notify /\ telling'[h].counted = counted
      /\ telling'[h].todo = telling[h].todo
  BY <1>4, <1>5 DEF Telling
<1>7. telling' \in [Req -> Telling]
  <2>1. telling'[h] \in Telling
    BY <1>2, <1>4, <1>5 DEF Telling
  <2> QED
    BY <1>1, <1>4, <1>5, <2>1
<1>8. telling[h].what # "none" /\ telling[h].raise = 0
  BY <1>1, BusyIsTelling, TellingFacts DEF GoesOn, Un!At
<1>9. GoesOn(h)'
  <2>1. GoesOn(h)
    BY TellingFacts
  <2> QED
    BY <1>5, <1>6, <1>8, <2>1 DEF GoesOn, Waits
<1>10. telling'[h].alone => ExactFor(h)'
  <2> SUFFICES ASSUME telling[h].alone PROVE ExactFor(h)'
    BY <1>6
  <2>1. DeletesKnown(h)'
    BY <1>1, <1>6 DEF DeletesKnown, Un!At
  <2>2. CountedRight(h)'
    <3>1. \A u \in Reader : Un!UnreadOf(u, unread.event)' = Un!UnreadOf(u, unread.event)
      BY <1>1 DEF Un!UnreadOf, Un!Event
    <3> QED
      BY <1>3, <1>6, <3>1 DEF CountedRight
  <2> QED
    BY <1>1, <1>6, <2>1, <2>2, NumbersStayRight DEF ExactFor
<1> QED
  BY <1>1, <1>5, <1>6, <1>7, <1>8, <1>9, <1>10, ReadingKeeps

\* Statements that write.
LEMMA WritingTyped ==
    ASSUME Un!UnreadConstants, UnreadInv, telling' \in [Req -> Telling],
           fact' \in [Un!Event -> [user : Reader \cup {Nobody}, comment : Comment \cup {Nobody},
                                   kind : Un!Kinds]],
           lock' \in [event : [Un!Event -> Req \cup {Nobody}], user : [Reader -> Req \cup {Nobody}]],
           unread' \in [event : [Un!Event -> Un!States], user : [Reader -> Nat]],
           nextId' \in 1..LastEvent + 1, UNCHANGED <<row, cache, shown, started>>,
           \A e \in Un!Event : lock'.event[e] = Nobody => unread'.event[e] = row[e],
           \A u \in Reader : lock'.user[u] = Nobody => unread'.user[u] = cache[u]
    PROVE  UnreadTyped'
<1>1. Un!Event' = Un!Event /\ Un!States' = Un!States /\ Un!Kinds' = Un!Kinds
  BY DEF Un!Event, Un!States, Un!Kinds
<1>2. \A g \in Req : telling'[g].events \subseteq Un!Event /\ telling'[g].recount \subseteq Reader
  BY DEF Telling
<1>3. /\ \A e \in Un!Event : fact'[e].kind \in Un!Kinds /\ fact'[e].user \in Reader \cup {Nobody}
      /\ lock'.event \in [Un!Event -> Req \cup {Nobody}] /\ lock'.user \in [Reader -> Req \cup {Nobody}]
      /\ unread'.event \in [Un!Event -> Un!States] /\ unread'.user \in [Reader -> Nat]
  OBVIOUS
<1>4. Un!UnreadTypeOK'
  BY <1>1, <1>2, <1>3, UnreadFacts DEF Un!UnreadTypeOK
<1>5. Telling' = Telling
  BY <1>1 DEF Telling
<1> QED
  BY <1>1, <1>4, <1>5, UnreadFacts DEF UnreadTyped

\* A row that is selected is of a user that will be recounted for.
LEMMA TouchEventKeeps ==
    ASSUME Un!UnreadConstants, UnreadInv, NEW h \in Req, Un!TouchEvent(h)
    PROVE  UnreadInv'
<1> DEFINE some == IF Un!At(h, "delete") THEN Un!Deletable(h) ELSE Un!Markable(h)
           new == IF Un!At(h, "delete") THEN "none" ELSE "read"
<1>1. PICK x \in telling[h].events :
        /\ lock.event[x] \in {h, Nobody}
        /\ IF x \in some THEN /\ lock' = [lock EXCEPT !.event[x] = h]
                              /\ unread' = [unread EXCEPT !.event[x] = new]
           ELSE UNCHANGED <<unread, lock>>
        /\ telling' = [telling EXCEPT ![h].events = @ \ {x}]
  BY DEF Un!TouchEvent
<1>2. /\ Un!At(h, "delete") \/ Un!At(h, "mark")
      /\ UNCHANGED <<row, cache, fact, nextId, shown, started>>
  BY DEF Un!TouchEvent, Un!data
<1>3. /\ x \in some => Un!Sees(h, x) # "none"
      /\ Un!At(h, "mark") /\ x \in some => fact[x].user \in telling[h].recount
  <2>1. ~(Un!At(h, "delete") /\ Un!At(h, "mark"))
    BY DEF Un!At
  <2>2. CASE Un!At(h, "delete")
    BY <2>1, <2>2, DeletableFacts
  <2>3. CASE ~Un!At(h, "delete")
    BY <2>3 DEF Un!Markable
  <2> QED
    BY <2>2, <2>3
<1>4. Un!At(h, "delete") => some = Un!Deletable(h) /\ new = "none"
  OBVIOUS
<1>5. new \in Un!States
  BY DEF Un!States
<1> HIDE DEF some, new
<1>6. telling \in [Req -> Telling] /\ telling[h] \in Telling
  BY TellingFacts DEF UnreadInv, UnreadTyped
<1>7. /\ \A g \in Req \ {h} : telling'[g] = telling[g]
      /\ telling'[h] = [telling[h] EXCEPT !.events = telling[h].events \ {x}]
  BY <1>1, <1>6
<1>8. /\ telling'[h].what = telling[h].what /\ telling'[h].alone = telling[h].alone
      /\ telling'[h].raise = telling[h].raise /\ telling'[h].recount = telling[h].recount
      /\ telling'[h].notify = telling[h].notify /\ telling'[h].comment = telling[h].comment
      /\ telling'[h].todo = telling[h].todo /\ telling'[h].under = telling[h].under
  BY <1>6, <1>7 DEF Telling
<1>9. telling' \in [Req -> Telling]
  <2>1. telling'[h] \in Telling
    BY <1>6, <1>7 DEF Telling
  <2> QED
    BY <1>1, <1>6, <1>7, <2>1
<1>10. telling[h].what # "none" /\ Head(telling[h].todo) # "count" /\ Head(telling[h].todo) # "insert"
  BY <1>2, BusyIsTelling DEF Un!At
<1>11. telling[h].raise = 0
  BY <1>10, TellingFacts DEF GoesOn, Un!At
<1>12. GoesOn(h)'
  <2>1. GoesOn(h)
    BY TellingFacts
  <2> QED
    BY <1>7, <1>8, <1>10, <1>11, <2>1 DEF GoesOn, Waits
<1>13. CASE x \in some
  <2>1. lock' = [lock EXCEPT !.event[x] = h] /\ unread' = [unread EXCEPT !.event[x] = new]
    BY <1>1, <1>13
  <2>2. x \in Un!Event
    BY <1>1, TellingFacts
  <2>3. /\ lock' \in [event : [Un!Event -> Req \cup {Nobody}], user : [Reader -> Req \cup {Nobody}]]
        /\ lock'.user = lock.user /\ lock'.event[x] = h
        /\ \A e \in Un!Event \ {x} : lock'.event[e] = lock.event[e]
    BY <2>1, <2>2, UnreadFacts
  <2>4. /\ unread' \in [event : [Un!Event -> Un!States], user : [Reader -> Nat]]
        /\ unread'.user = unread.user /\ unread'.event[x] = new
        /\ \A e \in Un!Event \ {x} : unread'.event[e] = unread.event[e]
    BY <1>5, <2>1, <2>2, UnreadFacts
  <2>5. UnreadTyped'
    <3>1. /\ \A e \in Un!Event : lock'.event[e] = Nobody => unread'.event[e] = row[e]
          /\ \A u \in Reader : lock'.user[u] = Nobody => unread'.user[u] = cache[u]
      BY <2>3, <2>4, UnreadFacts
    <3> QED
      BY <1>2, <1>9, <2>3, <2>4, <3>1, UnreadFacts, WritingTyped
  <2>6. x < nextId
    <3>1. row[x] # "none" \/ unread.event[x] # "none"
      BY <1>3, <1>13 DEF Un!Sees
    <3> QED
      BY <2>2, <3>1 DEF UnreadInv, NotDrawn
  <2>7. NotDrawn'
    <3>1. Un!Event' = Un!Event
      BY DEF Un!Event
    <3> QED
      BY <1>2, <2>3, <2>4, <2>6, <3>1 DEF UnreadInv, NotDrawn
  <2>8. telling'[h].alone => ExactFor(h)'
    <3> SUFFICES ASSUME telling[h].alone PROVE ExactFor(h)'
      BY <1>8
    <3>1. ExactFor(h)
      BY TellingFacts
    <3>2. CountedRight(h)'
      BY <1>8, <1>10 DEF CountedRight, Un!At
    <3>3. DeletesKnown(h)'
      <4> SUFFICES ASSUME Un!At(h, "delete"), NEW e \in Un!Deletable(h)'
                   PROVE  fact[e].user \in telling[h].recount
        BY <1>2, <1>8 DEF DeletesKnown, Un!At
      <4>1. e \in Un!Event /\ Un!Sees(h, e)' # "none"
        <5>1. CASE telling[h].what = "topic"
          BY <1>8, <5>1 DEF Un!Deletable, Un!Event
        <5>2. CASE telling[h].what = "delete"
          BY <1>8, <5>2 DEF Un!Deletable, Un!Event
        <5>3. CASE telling[h].what \notin {"topic", "delete"}
          BY <1>8, <5>3 DEF Un!Deletable, Un!Event
        <5> QED
          BY <5>1, <5>2, <5>3
      <4>2. e # x
        BY <1>4, <2>3, <2>4, <4>1 DEF Un!Sees
      <4>3. Un!Sees(h, e)' = Un!Sees(h, e)
        BY <1>2, <2>3, <2>4, <4>1, <4>2 DEF Un!Sees
      <4>4. e \in Un!Deletable(h)
        BY <1>2, <1>8, <4>1, <4>3 DEF Un!Deletable
      <4> QED
        BY <3>1, <4>4 DEF ExactFor, DeletesKnown
    <3>4. fact[x].user \in telling[h].recount
      BY <1>2, <1>3, <1>4, <1>13, <3>1 DEF ExactFor, DeletesKnown
    <3>5. ASSUME NEW u \in Reader \ telling[h].recount
          PROVE  NumberIsRight(h, u)'
      <4>1. NumberIsRight(h, u)
        BY <3>1 DEF ExactFor
      <4>2. Waits(h, u)' <=> Waits(h, u)
        BY <1>2, <1>8 DEF Waits
      <4>3. Owed(h, u)' = Owed(h, u)
        BY <4>2 DEF Owed
      <4>4. {e \in Un!Event : fact[e].user = u /\ unread'.event[e] = "unread"}
              = {e \in Un!Event : fact[e].user = u /\ unread.event[e] = "unread"}
        BY <2>4, <3>4, <3>5
      <4>5. /\ Un!UnreadOf(u, row)' = Un!UnreadOf(u, row)
            /\ Un!UnreadOf(u, unread.event)' = Un!UnreadOf(u, unread.event)
        BY <1>2, <4>4 DEF Un!UnreadOf, Un!Event
      <4> QED
        BY <1>2, <1>8, <2>3, <2>4, <4>1, <4>3, <4>5 DEF NumberIsRight
    <3> QED
      BY <1>8, <3>2, <3>3, <3>5 DEF ExactFor
  <2> QED
    BY <1>2, <1>7, <1>8, <1>10, <1>12, <2>3, <2>5, <2>7, <2>8, UnreadFacts, StatementKeeps
<1>14. CASE x \notin some
  <2>1. UNCHANGED <<unread, lock>>
    BY <1>1, <1>14
  <2>2. telling'[h].alone => ExactFor(h)'
    <3> SUFFICES ASSUME telling[h].alone PROVE ExactFor(h)'
      BY <1>8
    <3>1. CountedRight(h)'
      BY <1>8, <1>10 DEF CountedRight, Un!At
    <3>2. DeletesKnown(h)'
      <4>1. DeletesKnown(h)
        BY TellingFacts DEF ExactFor
      <4>2. Un!Deletable(h)' = Un!Deletable(h)
        BY <1>2, <1>8, <2>1, DeletableStays
      <4>3. Un!At(h, "delete")' <=> Un!At(h, "delete")
        BY <1>8 DEF Un!At
      <4> QED
        BY <1>2, <1>8, <4>1, <4>2, <4>3 DEF DeletesKnown
    <3> QED
      BY <1>2, <1>8, <2>1, <3>1, <3>2, NumbersStayRight DEF ExactFor
  <2> QED
    BY <1>2, <1>7, <1>8, <1>9, <1>10, <1>12, <2>1, <2>2, ReadingKeeps
<1> QED
  BY <1>13, <1>14

\* The statement ends when all rows have been written.
LEMMA FinishKeeps ==
    ASSUME Un!UnreadConstants, UnreadInv, NEW h \in Req, telling[h].todo # <<>>,
           Head(telling[h].todo) # "affected", telling[h].raise = 0,
           Head(telling[h].todo) = "count" => telling[h].recount = {},
           telling' = Un!Finish(h),
           UNCHANGED <<row, cache, unread, lock, fact, nextId, shown, started>>
    PROVE  UnreadInv'
<1>1. /\ telling[h].what # "none" /\ OnItsWay(telling[h].what, telling[h].todo)
      /\ telling[h].todo \in Todos
  BY BusyIsTelling, TellingFacts
<1>2. /\ OnItsWay(telling[h].what, Tail(telling[h].todo))
      /\ Tail(telling[h].todo) # <<"insert", "count">>
      /\ ~NoneToCount(Tail(telling[h].todo)) \/ NoneToCount(telling[h].todo)
                                            \/ Head(telling[h].todo) = "count"
      /\ Tail(telling[h].todo) # <<>> => Head(Tail(telling[h].todo)) # "delete"
  BY <1>1, TodoGoesOn
<1>3. GoesOn(h)'
  <2>1. GoesOn(h)
    BY TellingFacts
  <2> QED
    BY <1>1, <1>2, <2>1, FinishFacts DEF GoesOn
<1>4. telling'[h].alone => ExactFor(h)'
  <2> SUFFICES ASSUME telling[h].alone PROVE ExactFor(h)'
    BY FinishFacts
  <2>1. ~Un!At(h, "delete")' /\ ~telling'[h].under
    BY <1>2, FinishFacts DEF Un!At
  <2>2. DeletesKnown(h)' /\ CountedRight(h)'
    BY <2>1 DEF DeletesKnown, CountedRight
  <2> QED
    BY <2>2, FinishFacts, NumbersStayRight DEF ExactFor
<1> QED
  BY <1>1, <1>3, <1>4, FinishFacts, ReadingKeeps

LEMMA EndEventsKeeps ==
    ASSUME Un!UnreadConstants, UnreadInv, NEW h \in Req, Un!EndEvents(h)
    PROVE  UnreadInv'
<1>1. /\ telling[h].todo # <<>> /\ Head(telling[h].todo) \in {"delete", "mark"}
      /\ telling' = Un!Finish(h)
      /\ UNCHANGED <<row, cache, unread, lock, fact, nextId, shown, started>>
  BY DEF Un!EndEvents, Un!At, Un!data
<1>2. telling[h].raise = 0
  BY <1>1, TellingFacts DEF GoesOn, Un!At
<1> QED
  BY <1>1, <1>2, FinishKeeps

\* The numbers are written of those that have been counted.
LEMMA WriteCacheKeeps ==
    ASSUME Un!UnreadConstants, UnreadInv, NEW h \in Req, Un!WriteCache(h)
    PROVE  UnreadInv'
<1>1. /\ telling[h].todo # <<>> /\ Head(telling[h].todo) = "count" /\ telling[h].under
      /\ UNCHANGED <<row, cache, fact, nextId, shown, started>>
  BY DEF Un!WriteCache, Un!At, Un!data
<1>2. telling[h].what # "none" /\ telling[h].raise = 0
  BY <1>1, BusyIsTelling, TellingFacts DEF GoesOn, Un!At
<1>3. CASE telling[h].recount = {}
  <2>1. telling' = Un!Finish(h) /\ UNCHANGED <<unread, lock>>
    BY <1>3 DEF Un!WriteCache
  <2> QED
    BY <1>1, <1>2, <1>3, <2>1, FinishKeeps
<1>4. CASE telling[h].recount # {}
  <2>1. PICK w \in telling[h].recount :
          /\ lock' = [lock EXCEPT !.user[w] = h]
          /\ unread' = [unread EXCEPT !.user[w] = telling[h].counted[w]]
          /\ telling' = [telling EXCEPT ![h].recount = @ \ {w}]
    BY <1>4 DEF Un!WriteCache, Un!CacheWritten
  <2>2. telling \in [Req -> Telling] /\ telling[h] \in Telling
    BY TellingFacts DEF UnreadInv, UnreadTyped
  <2>3. w \in Reader /\ telling[h].counted[w] \in Nat
    BY <2>1, TellingFacts
  <2>4. /\ \A g \in Req \ {h} : telling'[g] = telling[g]
        /\ telling'[h] = [telling[h] EXCEPT !.recount = telling[h].recount \ {w}]
    BY <2>1, <2>2
  <2>5. /\ telling'[h].what = telling[h].what /\ telling'[h].alone = telling[h].alone
        /\ telling'[h].raise = telling[h].raise
        /\ telling'[h].recount = telling[h].recount \ {w}
        /\ telling'[h].counted = telling[h].counted
        /\ telling'[h].todo = telling[h].todo /\ telling'[h].under = telling[h].under
    BY <2>2, <2>4 DEF Telling
  <2>6. telling' \in [Req -> Telling]
    <3>1. telling'[h] \in Telling
      BY <2>2, <2>4 DEF Telling
    <3> QED
      BY <2>1, <2>2, <2>4, <3>1
  <2>7. /\ lock' \in [event : [Un!Event -> Req \cup {Nobody}], user : [Reader -> Req \cup {Nobody}]]
        /\ lock'.event = lock.event /\ lock'.user[w] = h
        /\ \A u \in Reader \ {w} : lock'.user[u] = lock.user[u]
    BY <2>1, <2>3, UnreadFacts
  <2>8. /\ unread' \in [event : [Un!Event -> Un!States], user : [Reader -> Nat]]
        /\ unread'.event = unread.event /\ unread'.user[w] = telling[h].counted[w]
        /\ \A u \in Reader \ {w} : unread'.user[u] = unread.user[u]
    BY <2>1, <2>3, UnreadFacts
  <2>9. UnreadTyped'
    <3>1. /\ \A e \in Un!Event : lock'.event[e] = Nobody => unread'.event[e] = row[e]
          /\ \A u \in Reader : lock'.user[u] = Nobody => unread'.user[u] = cache[u]
      BY <2>7, <2>8, UnreadFacts
    <3> QED
      BY <1>1, <2>6, <2>7, <2>8, <3>1, UnreadFacts, WritingTyped
  <2>10. NotDrawn'
    <3>1. Un!Event' = Un!Event
      BY DEF Un!Event
    <3> QED
      BY <1>1, <2>7, <2>8, <3>1 DEF UnreadInv, NotDrawn
  <2>11. GoesOn(h)'
    <3>1. GoesOn(h)
      BY TellingFacts
    <3>2. telling[h].todo # <<"insert", "count">>
      BY <1>1
    <3> QED
      BY <1>2, <2>4, <2>5, <3>1, <3>2 DEF GoesOn
  <2>12. telling'[h].alone => ExactFor(h)'
    <3> SUFFICES ASSUME telling[h].alone PROVE ExactFor(h)'
      BY <2>5
    <3>1. ExactFor(h)
      BY TellingFacts
    <3>2. DeletesKnown(h)'
      BY <1>1, <2>5 DEF DeletesKnown, Un!At
    <3>3. \A u \in Reader : telling[h].counted[u] = Un!UnreadOf(u, unread.event)
      BY <1>1, <3>1 DEF ExactFor, CountedRight, Un!At
    <3>4. \A u \in Reader : /\ Un!UnreadOf(u, row)' = Un!UnreadOf(u, row)
                            /\ Un!UnreadOf(u, unread.event)' = Un!UnreadOf(u, unread.event)
      BY <1>1, <2>8 DEF Un!UnreadOf, Un!Event
    <3>5. CountedRight(h)'
      BY <2>5, <3>3, <3>4 DEF CountedRight
    <3>6. \A u : Owed(h, u) = 0 /\ Owed(h, u)' = 0
      BY <1>2, <2>5 DEF Owed, Waits
    <3>7. NumberIsRight(h, w)'
      BY <2>3, <2>8, <3>3, <3>4, <3>6 DEF NumberIsRight
    <3>8. ASSUME NEW u \in Reader \ telling'[h].recount, u # w
          PROVE  NumberIsRight(h, u)'
      <4>1. NumberIsRight(h, u)
        BY <2>5, <3>1, <3>8 DEF ExactFor
      <4> QED
        BY <1>1, <2>5, <2>7, <2>8, <3>4, <3>6, <3>8, <4>1 DEF NumberIsRight
    <3> QED
      BY <3>2, <3>5, <3>7, <3>8 DEF ExactFor
  <2>13. /\ \A e \in Un!Event : lock'.event[e] \in {lock.event[e], h}
         /\ \A u \in Reader : lock'.user[u] \in {lock.user[u], h}
    BY <2>7
  <2> QED
    BY <1>1, <1>2, <2>4, <2>5, <2>9, <2>10, <2>11, <2>12, <2>13, StatementKeeps
<1> QED
  BY <1>3, <1>4

\* An event that is inserted is one more unread, and its number is owed.
LEMMA InsertEventKeeps ==
    ASSUME Un!UnreadConstants, UnreadInv, NEW h \in Req, Un!InsertEvent(h)
    PROVE  UnreadInv'
<1>1. /\ telling[h].todo # <<>> /\ Head(telling[h].todo) = "insert" /\ telling[h].raise = 0
      /\ UNCHANGED <<row, cache, shown, started>>
  BY DEF Un!InsertEvent, Un!At, Un!data
<1>2. telling[h].what # "none"
  BY <1>1, BusyIsTelling
<1>3. CASE telling[h].notify = {}
  <2>1. telling' = Un!Finish(h) /\ UNCHANGED <<unread, lock, fact, nextId>>
    BY <1>3 DEF Un!InsertEvent
  <2> QED
    BY <1>1, <2>1, FinishKeeps
<1>4. CASE telling[h].notify # {}
  <2>1. PICK w \in telling[h].notify :
          /\ nextId \in Un!Event /\ nextId' = nextId + 1
          /\ fact' = [fact EXCEPT ![nextId] = [user |-> w, comment |-> telling[h].comment,
                                               kind |-> Un!KindOf(telling[h].what)]]
          /\ lock' = [lock EXCEPT !.event[nextId] = h]
          /\ unread' = [unread EXCEPT !.event[nextId] = "unread"]
          /\ telling' = [telling EXCEPT ![h].notify = @ \ {w}, ![h].raise = nextId]
    BY <1>4 DEF Un!InsertEvent
  <2>2. telling \in [Req -> Telling] /\ telling[h] \in Telling
    BY TellingFacts DEF UnreadInv, UnreadTyped
  <2>3. /\ w \in Reader /\ telling[h].comment \in Comment \cup {Nobody}
        /\ Un!KindOf(telling[h].what) \in Un!Kinds
    <3>1. Un!KindOf(telling[h].what) \in {"WATCH", "REACTION", "DEL"}
      <4>1. CASE telling[h].what = "comment"
        BY <4>1 DEF Un!KindOf
      <4>2. CASE telling[h].what = "react"
        BY <4>2 DEF Un!KindOf
      <4>3. CASE telling[h].what \notin {"comment", "react"}
        BY <4>3 DEF Un!KindOf
      <4> QED
        BY <4>1, <4>2, <4>3
    <3> QED
      BY <2>1, <3>1, TellingFacts DEF Un!Kinds
  <2>4. /\ \A g \in Req \ {h} : telling'[g] = telling[g]
        /\ telling'[h] = [telling[h] EXCEPT !.notify = telling[h].notify \ {w}, !.raise = nextId]
    BY <2>1, <2>2
  <2>5. /\ telling'[h].what = telling[h].what /\ telling'[h].alone = telling[h].alone
        /\ telling'[h].raise = nextId /\ telling'[h].recount = telling[h].recount
        /\ telling'[h].notify = telling[h].notify \ {w}
        /\ telling'[h].todo = telling[h].todo
    BY <2>2, <2>4 DEF Telling
  <2>6. nextId \in 1..LastEvent /\ nextId # 0 /\ nextId + 1 \in 1..LastEvent + 1
    BY <2>1, UnreadFacts
  <2>7. telling' \in [Req -> Telling]
    <3>1. nextId \in 0..LastEvent
      BY <2>6, UnreadFacts
    <3>2. telling'[h] \in Telling
      BY <2>2, <2>4, <3>1 DEF Telling
    <3> QED
      BY <2>1, <2>2, <2>4, <3>2
  <2>8. /\ lock' \in [event : [Un!Event -> Req \cup {Nobody}], user : [Reader -> Req \cup {Nobody}]]
        /\ lock'.user = lock.user /\ lock'.event[nextId] = h
        /\ \A e \in Un!Event \ {nextId} : lock'.event[e] = lock.event[e]
    BY <2>1, UnreadFacts
  <2>9. /\ unread' \in [event : [Un!Event -> Un!States], user : [Reader -> Nat]]
        /\ unread'.user = unread.user /\ unread'.event[nextId] = "unread"
        /\ \A e \in Un!Event \ {nextId} : unread'.event[e] = unread.event[e]
    BY <2>1, UnreadFacts DEF Un!States
  <2>10. /\ fact' \in [Un!Event -> [user : Reader \cup {Nobody}, comment : Comment \cup {Nobody},
                                    kind : Un!Kinds]]
         /\ fact'[nextId].user = w
         /\ \A e \in Un!Event \ {nextId} : fact'[e] = fact[e]
    BY <2>1, <2>3, UnreadFacts
  <2>11. row[nextId] = "none" /\ unread.event[nextId] = "none"
    BY <2>1, <2>6 DEF UnreadInv, NotDrawn
  <2>12. UnreadTyped'
    <3>1. /\ \A e \in Un!Event : lock'.event[e] = Nobody => unread'.event[e] = row[e]
          /\ \A u \in Reader : lock'.user[u] = Nobody => unread'.user[u] = cache[u]
      BY <2>8, <2>9, UnreadFacts
    <3> QED
      BY <1>1, <2>1, <2>6, <2>7, <2>8, <2>9, <2>10, <3>1, WritingTyped
  <2>13. NotDrawn'
    <3> SUFFICES ASSUME NEW e \in Un!Event
                 PROVE  IF e < nextId' THEN fact'[e].user \in Reader
                        ELSE row'[e] = "none" /\ unread'.event[e] = "none" /\ lock'.event[e] = Nobody
      BY DEF NotDrawn, Un!Event
    <3>1. CASE e = nextId
      BY <2>1, <2>3, <2>6, <2>10, <3>1
    <3>2. CASE e # nextId
      <4>1. e \in Nat /\ nextId \in Nat
        BY <2>6, UnreadFacts
      <4>2. e < nextId' <=> e < nextId
        BY <2>1, <3>2, <4>1
      <4> QED
        BY <1>1, <2>8, <2>9, <2>10, <3>2, <4>2 DEF UnreadInv, NotDrawn
    <3> QED
      BY <3>1, <3>2
  <2>14. \A u \in Reader : Waits(h, u)' <=> u = w
    BY <2>5, <2>6, <2>10 DEF Waits
  <2>15. GoesOn(h)'
    <3>1. GoesOn(h)
      BY TellingFacts
    <3>2. nextId < nextId'
      BY <2>1, <2>6
    <3>3. Un!At(h, "insert")'
      BY <1>1, <2>5 DEF Un!At
    <3>4. telling[h].todo = <<"insert", "count">> =>
            /\ telling'[h].notify \subseteq telling[h].recount
            /\ \A u \in Reader : Waits(h, u)' => u \in telling[h].recount
      BY <2>1, <2>5, <2>14, <3>1 DEF GoesOn
    <3> QED
      BY <1>2, <2>4, <2>5, <3>1, <3>2, <3>3, <3>4 DEF GoesOn
  <2>16. telling'[h].alone => ExactFor(h)'
    <3> SUFFICES ASSUME telling[h].alone PROVE ExactFor(h)'
      BY <2>5
    <3>1. DeletesKnown(h)' /\ CountedRight(h)'
      BY <1>1, <2>5 DEF DeletesKnown, CountedRight, Un!At
    <3>2. ASSUME NEW u \in Reader \ telling'[h].recount
          PROVE  NumberIsRight(h, u)'
      <4>1. NumberIsRight(h, u)
        BY <2>5, TellingFacts DEF ExactFor
      <4>2. Owed(h, u) = 0 /\ Owed(h, u)' = IF u = w THEN 1 ELSE 0
        BY <1>1, <2>14 DEF Owed, Waits
      <4> DEFINE was == {e \in Un!Event : fact[e].user = u /\ unread.event[e] = "unread"}
                 is == {e \in Un!Event : fact'[e].user = u /\ unread'.event[e] = "unread"}
      <4>3. is = IF u = w THEN was \cup {nextId} ELSE was
        BY <2>1, <2>9, <2>10, <2>11
      <4>4. nextId \notin was
        BY <2>11
      <4>5. {e \in Un!Event : fact'[e].user = u /\ row[e] = "unread"}
              = {e \in Un!Event : fact[e].user = u /\ row[e] = "unread"}
        BY <2>10, <2>11
      <4>6. Un!UnreadOf(u, row)' = Un!UnreadOf(u, row)
        BY <1>1, <4>5 DEF Un!UnreadOf, Un!Event
      <4>7. IsFiniteSet(was) /\ Cardinality(was) \in Nat /\ Un!UnreadOf(u, unread.event) = Cardinality(was)
        BY UnreadNumbers, FS_CardinalityType
      <4>8. Un!UnreadOf(u, unread.event)' = Cardinality(is)
        BY DEF Un!UnreadOf, Un!Event, Un!Cardinality, Cardinality
      <4> HIDE DEF was, is
      <4>9. Cardinality(is) = Cardinality(was) + (IF u = w THEN 1 ELSE 0)
        <5>1. Cardinality(was \cup {nextId}) = Cardinality(was) + 1
          BY <4>4, <4>7, FS_AddElement
        <5> QED
          BY <4>3, <4>7, <5>1
      <4>10. unread.user[u] \in Nat
        BY UnreadFacts
      <4> QED
        BY <1>1, <2>5, <2>8, <2>9, <4>1, <4>2, <4>6, <4>7, <4>8, <4>9, <4>10 DEF NumberIsRight
    <3> QED
      BY <3>1, <3>2 DEF ExactFor
  <2>17. /\ \A e \in Un!Event : lock'.event[e] \in {lock.event[e], h}
         /\ \A u \in Reader : lock'.user[u] \in {lock.user[u], h}
         /\ \A e \in Un!Event : e < nextId => fact'[e] = fact[e]
    BY <2>6, <2>8, <2>10
  <2> QED
    BY <1>2, <2>1, <2>4, <2>5, <2>12, <2>13, <2>15, <2>16, <2>17, StatementKeeps
<1> QED
  BY <1>3, <1>4

LEMMA RaiseCacheKeeps ==
    ASSUME Un!UnreadConstants, UnreadInv, NEW h \in Req, Un!RaiseCache(h)
    PROVE  UnreadInv'
<1> DEFINE w == fact[telling[h].raise].user
<1>1. /\ telling[h].raise # 0
      /\ lock' = [lock EXCEPT !.user[w] = h]
      /\ unread' = [unread EXCEPT !.user[w] = @ + 1]
      /\ telling' = [telling EXCEPT ![h].raise = 0]
      /\ UNCHANGED <<row, cache, fact, nextId, shown, started>>
  BY DEF Un!RaiseCache, Un!data
<1>2. /\ telling[h].what # "none" /\ OnItsWay(telling[h].what, telling[h].todo)
      /\ telling[h].todo \in Todos
      /\ telling[h].todo # <<>> /\ Head(telling[h].todo) = "insert"
      /\ telling[h].raise \in Un!Event /\ telling[h].raise < nextId
  <2>1. telling[h].raise < nextId /\ telling[h].raise \in 0..LastEvent
    BY <1>1, TellingFacts DEF GoesOn
  <2> QED
    BY <1>1, <2>1, BusyIsTelling, TellingFacts, UnreadFacts DEF GoesOn, Un!At
<1>3. w \in Reader
  BY <1>2 DEF UnreadInv, NotDrawn
<1>4. \A u : Waits(h, u) <=> u = w
  BY <1>1 DEF Waits
<1> HIDE DEF w
<1>5. telling \in [Req -> Telling] /\ telling[h] \in Telling
  BY TellingFacts DEF UnreadInv, UnreadTyped
<1>6. /\ \A g \in Req \ {h} : telling'[g] = telling[g]
      /\ telling'[h] = [telling[h] EXCEPT !.raise = 0]
  BY <1>1, <1>5
<1>7. /\ telling'[h].what = telling[h].what /\ telling'[h].alone = telling[h].alone
      /\ telling'[h].raise = 0 /\ telling'[h].recount = telling[h].recount
      /\ telling'[h].notify = telling[h].notify /\ telling'[h].todo = telling[h].todo
  BY <1>5, <1>6 DEF Telling
<1>8. telling' \in [Req -> Telling]
  <2>1. 0 \in 0..LastEvent
    BY UnreadFacts
  <2>2. telling'[h] \in Telling
    BY <1>5, <1>6, <2>1 DEF Telling
  <2> QED
    BY <1>1, <1>5, <1>6, <2>2
<1>9. /\ lock' \in [event : [Un!Event -> Req \cup {Nobody}], user : [Reader -> Req \cup {Nobody}]]
      /\ lock'.event = lock.event /\ lock'.user[w] = h
      /\ \A u \in Reader \ {w} : lock'.user[u] = lock.user[u]
  BY <1>1, <1>3, UnreadFacts
<1>10. /\ unread' \in [event : [Un!Event -> Un!States], user : [Reader -> Nat]]
       /\ unread'.event = unread.event /\ unread'.user[w] = unread.user[w] + 1
       /\ \A u \in Reader \ {w} : unread'.user[u] = unread.user[u]
  <2>1. unread.user[w] + 1 \in Nat
    BY <1>3, UnreadFacts
  <2>2. unread' = [unread EXCEPT !.user = [unread.user EXCEPT ![w] = unread.user[w] + 1]]
    BY <1>1
  <2>3. [unread.user EXCEPT ![w] = unread.user[w] + 1] \in [Reader -> Nat]
    BY <1>3, <2>1, UnreadFacts
  <2> QED
    BY <1>3, <2>1, <2>2, <2>3, UnreadFacts
<1>11. UnreadTyped'
  <2>1. /\ \A e \in Un!Event : lock'.event[e] = Nobody => unread'.event[e] = row[e]
        /\ \A u \in Reader : lock'.user[u] = Nobody => unread'.user[u] = cache[u]
    BY <1>9, <1>10, UnreadFacts
  <2> QED
    BY <1>1, <1>8, <1>9, <1>10, <2>1, UnreadFacts, WritingTyped
<1>12. NotDrawn'
  <2>1. Un!Event' = Un!Event
    BY DEF Un!Event
  <2> QED
    BY <1>1, <1>9, <1>10, <2>1 DEF UnreadInv, NotDrawn
<1>13. GoesOn(h)
  BY TellingFacts
<1>14. GoesOn(h)'
  <2>1. \A u : ~Waits(h, u)'
    BY <1>7 DEF Waits
  <2> QED
    BY <1>2, <1>6, <1>7, <1>13, <2>1 DEF GoesOn
<1>15. telling'[h].alone => ExactFor(h)'
  <2> SUFFICES ASSUME telling[h].alone PROVE ExactFor(h)'
    BY <1>7
  <2>1. DeletesKnown(h)' /\ CountedRight(h)'
    BY <1>2, <1>7 DEF DeletesKnown, CountedRight, Un!At
  <2>2. ASSUME NEW u \in Reader \ telling'[h].recount
        PROVE  NumberIsRight(h, u)'
    <3>1. NumberIsRight(h, u)
      BY <1>7, TellingFacts DEF ExactFor
    <3>2. Owed(h, u)' = 0 /\ Owed(h, u) = IF u = w THEN 1 ELSE 0
      BY <1>4, <1>7 DEF Owed, Waits
    <3>3. /\ Un!UnreadOf(u, row)' = Un!UnreadOf(u, row)
          /\ Un!UnreadOf(u, unread.event)' = Un!UnreadOf(u, unread.event)
      BY <1>1, <1>10 DEF Un!UnreadOf, Un!Event
    <3>4. u = w => telling[h].what \notin Repairing
      <4>1. telling[h].what \in Repairing => telling[h].todo = <<"insert", "count">>
        BY <1>2, TodoGoesOn
      <4> QED
        BY <1>3, <1>4, <1>7, <1>13, <2>2, <4>1 DEF GoesOn
    <3>5. unread.user[u] \in Nat
      BY UnreadFacts
    <3> QED
      BY <1>1, <1>7, <1>9, <1>10, <3>1, <3>2, <3>3, <3>4, <3>5 DEF NumberIsRight
  <2> QED
    BY <2>1, <2>2 DEF ExactFor
<1>16. /\ \A e \in Un!Event : lock'.event[e] \in {lock.event[e], h}
       /\ \A u \in Reader : lock'.user[u] \in {lock.user[u], h}
  BY <1>9
<1> QED
  BY <1>1, <1>2, <1>6, <1>7, <1>11, <1>12, <1>14, <1>15, <1>16, StatementKeeps

\* A request begins; it is alone if nobody else is there, and then finds the
\* numbers as they are committed.
LEMMA BeginKeeps ==
    ASSUME Un!UnreadConstants, UnreadInv, NEW h \in Req, NEW request \in Telling,
           Un!Begin(h, request), request.what \in Requests, request.raise = 0, ~request.under,
           request.what \in {"delete", "topic"} => request.recount = {},
           request.what \in {"comment", "react"} => request.notify \subseteq request.recount
    PROVE  UnreadInv'
<1> DEFINE todo == Un!Program[request.what]
           nobody == \A x \in Req : Un!Idle(x)
<1>1. /\ telling[h].what = "none" /\ started < MaxRequests /\ started' = started + 1
      /\ telling' = [g \in Req |-> IF g = h THEN [request EXCEPT !.todo = todo, !.alone = nobody]
                                   ELSE [telling[g] EXCEPT !.alone = FALSE]]
      /\ UNCHANGED <<row, cache, unread, lock, fact, nextId, shown>>
  BY DEF Un!Begin, Un!Idle, Un!data
<1>2. /\ todo \in Todos /\ OnItsWay(request.what, todo) /\ todo # <<>>
      /\ request.what \in {"delete", "topic"} \/ ~NoneToCount(todo)
      /\ Head(todo) = "delete" => request.what = "unreact"
      /\ todo = <<"insert", "count">> => request.what \in {"comment", "react"}
      /\ Head(todo) # "count"
  BY ProgramStarts
<1>3. nobody \in BOOLEAN
  OBVIOUS
<1>4. nobody <=> \A x \in Req : telling[x].what = "none"
  BY DEF Un!Idle
<1> HIDE DEF todo, nobody
<1>5. telling \in [Req -> Telling]
  BY DEF UnreadInv, UnreadTyped
<1>6. /\ telling'[h] = [request EXCEPT !.todo = todo, !.alone = nobody]
      /\ \A g \in Req \ {h} : telling'[g] = [telling[g] EXCEPT !.alone = FALSE]
  BY <1>1
<1>7. /\ telling'[h].what = request.what /\ telling'[h].todo = todo
      /\ telling'[h].alone = nobody /\ telling'[h].raise = 0 /\ ~telling'[h].under
      /\ telling'[h].recount = request.recount /\ telling'[h].notify = request.notify
      /\ telling'[h].comment = request.comment /\ telling'[h] \in Telling
  BY <1>2, <1>3, <1>6 DEF Telling
<1>8. \A g \in Req \ {h} :
        /\ telling'[g].what = telling[g].what /\ telling'[g].todo = telling[g].todo
        /\ telling'[g].alone = FALSE /\ telling'[g].raise = telling[g].raise
        /\ telling'[g].recount = telling[g].recount /\ telling'[g].notify = telling[g].notify
        /\ telling'[g] \in Telling
  <2> SUFFICES ASSUME NEW g \in Req \ {h}
               PROVE  /\ telling'[g].what = telling[g].what /\ telling'[g].todo = telling[g].todo
                      /\ telling'[g].alone = FALSE /\ telling'[g].raise = telling[g].raise
                      /\ telling'[g].recount = telling[g].recount
                      /\ telling'[g].notify = telling[g].notify /\ telling'[g] \in Telling
    OBVIOUS
  <2>1. telling[g] \in Telling /\ telling'[g] = [telling[g] EXCEPT !.alone = FALSE]
    BY <1>5, <1>6
  <2> QED
    BY <2>1 DEF Telling
<1>9. telling' \in [Req -> Telling]
  <2>1. \A g \in Req : telling'[g] \in Telling
    BY <1>7, <1>8
  <2> QED
    BY <1>1, <2>1
<1>10. UnreadTyped' /\ NotDrawn'
  <2>1. Un!Event' = Un!Event /\ Un!States' = Un!States /\ Un!Kinds' = Un!Kinds
    BY DEF Un!Event, Un!States, Un!Kinds
  <2>2. \A g \in Req : telling'[g].events \subseteq Un!Event /\ telling'[g].recount \subseteq Reader
    BY <1>9 DEF Telling
  <2>3. started' \in 0..MaxRequests
    BY <1>1, UnreadFacts
  <2>4. Un!UnreadTypeOK'
    BY <1>1, <2>1, <2>2, <2>3 DEF UnreadInv, UnreadTyped, Un!UnreadTypeOK
  <2>5. Telling' = Telling
    BY <2>1 DEF Telling
  <2> QED
    BY <1>1, <1>9, <2>1, <2>4, <2>5 DEF UnreadInv, UnreadTyped, NotDrawn
<1>11. ASSUME NEW g \in Req \ {h} PROVE GoesOn(g)'
  <2>1. GoesOn(g)
    BY TellingFacts
  <2>3. /\ Un!At(g, "insert")' <=> Un!At(g, "insert")
        /\ \A u : Waits(g, u)' <=> Waits(g, u)
    BY <1>1, <1>8 DEF Un!At, Waits
  <2>4. Un!Event' = Un!Event
    BY DEF Un!Event
  <2> QED
    BY <1>1, <1>8, <2>1, <2>3, <2>4 DEF GoesOn
<1>12. GoesOn(h)'
  <2>1. \A u : ~Waits(h, u)'
    BY <1>7 DEF Waits
  <2>2. telling'[h].alone => \A g \in Req \ {h} : telling'[g].what = "none"
    BY <1>4, <1>7, <1>8
  <2>3. telling'[h].what # "none"
    BY <1>7 DEF Requests
  <2> QED
    BY <1>2, <1>7, <2>1, <2>2, <2>3 DEF GoesOn
<1>13. ASSUME telling'[h].alone PROVE ExactFor(h)'
  <2>1. \A x \in Req : telling[x].what = "none"
    BY <1>4, <1>7, <1>13
  <2>2. /\ \A e \in Un!Event : lock.event[e] = Nobody /\ unread.event[e] = row[e]
        /\ \A u \in Reader : lock.user[u] = Nobody /\ unread.user[u] = cache[u]
    <3>1. \A x \in Req : /\ \A e \in Un!Event : lock.event[e] # x
                         /\ \A u \in Reader : lock.user[u] # x
      BY <2>1, TellingFacts DEF GoesOn
    <3> QED
      BY <3>1, UnreadFacts
  <2>3. CountedRight(h)'
    BY <1>7 DEF CountedRight
  <2>4. DeletesKnown(h)'
    <3> SUFFICES ASSUME Un!At(h, "delete")', NEW e \in Un!Deletable(h)'
                 PROVE  fact'[e].user \in telling'[h].recount
      BY DEF DeletesKnown
    <3>1. telling'[h].what \notin {"topic", "delete"}
      BY <1>2, <1>7 DEF Un!At
    <3> QED
      BY <3>1 DEF Un!Deletable
  <2>5. ASSUME NEW u \in Reader PROVE NumberIsRight(h, u)'
    <3>1. Owed(h, u)' = 0
      BY <1>7 DEF Owed, Waits
    <3>2. {e \in Un!Event : fact[e].user = u /\ row[e] = "unread"}
            = {e \in Un!Event : fact[e].user = u /\ unread.event[e] = "unread"}
      BY <2>2
    <3>3. Un!UnreadOf(u, row)' = Un!UnreadOf(u, unread.event)'
      BY <1>1, <3>2 DEF Un!UnreadOf, Un!Event
    <3>4. lock.user[u] # h /\ unread.user[u] = cache[u] /\ unread.user[u] \in Nat
      BY <2>2, UnreadFacts
    <3> QED
      BY <1>1, <3>1, <3>3, <3>4 DEF NumberIsRight
  <2> QED
    BY <2>3, <2>4, <2>5 DEF ExactFor
<1> QED
  BY <1>8, <1>10, <1>11, <1>12, <1>13 DEF UnreadInv

\* A transaction ends, with what it wrote or without.
LEMMA EndKeeps ==
    ASSUME Un!UnreadConstants, UnreadInv, NEW h \in Req, telling[h].what # "none", Un!End(h),
           row' \in [Un!Event -> Un!States], cache' \in [Reader -> Nat],
           unread' \in [event : [Un!Event -> Un!States], user : [Reader -> Nat]],
           \A e \in Un!Event : lock.event[e] \in {h, Nobody} => unread'.event[e] = row'[e],
           \A u \in Reader : lock.user[u] \in {h, Nobody} => unread'.user[u] = cache'[u],
           \A e \in Un!Event : lock.event[e] # h => row'[e] = row[e] /\ unread'.event[e] = unread.event[e]
    PROVE  UnreadInv'
<1>1. /\ lock' = [event |-> [e \in Un!Event |-> IF lock.event[e] = h THEN Nobody ELSE lock.event[e]],
                  user |-> [u \in Reader |-> IF lock.user[u] = h THEN Nobody ELSE lock.user[u]]]
      /\ telling' = [telling EXCEPT ![h] = Un!NoRequest]
      /\ UNCHANGED <<fact, nextId, shown, started>>
  BY DEF Un!End
<1>2. /\ Un!NoRequest.what = "none" /\ Un!NoRequest.todo = <<>> /\ Un!NoRequest.raise = 0
      /\ Un!NoRequest.recount = {} /\ Un!NoRequest.alone = FALSE
      /\ Un!NoRequest \in Telling
  <2>1. [u \in Reader |-> 0] \in [Reader -> Nat] /\ 0 \in 0..LastEvent /\ <<>> \in Todos
    BY UnreadFacts DEF Todos
  <2> QED
    BY <2>1 DEF Un!NoRequest, Telling
<1>3. telling \in [Req -> Telling]
  BY DEF UnreadInv, UnreadTyped
<1>4. telling' \in [Req -> Telling] /\ telling'[h] = Un!NoRequest
      /\ \A g \in Req \ {h} : telling'[g] = telling[g]
  BY <1>1, <1>2, <1>3
<1>5. /\ lock' \in [event : [Un!Event -> Req \cup {Nobody}], user : [Reader -> Req \cup {Nobody}]]
      /\ \A e \in Un!Event : lock'.event[e] = IF lock.event[e] = h THEN Nobody ELSE lock.event[e]
      /\ \A u \in Reader : lock'.user[u] = IF lock.user[u] = h THEN Nobody ELSE lock.user[u]
  BY <1>1, UnreadFacts
<1>6. UnreadTyped'
  <2>1. Un!Event' = Un!Event /\ Un!States' = Un!States /\ Un!Kinds' = Un!Kinds
    BY DEF Un!Event, Un!States, Un!Kinds
  <2>2. \A g \in Req : telling'[g].events \subseteq Un!Event /\ telling'[g].recount \subseteq Reader
    BY <1>4 DEF Telling
  <2>3. /\ lock'.event \in [Un!Event -> Req \cup {Nobody}] /\ lock'.user \in [Reader -> Req \cup {Nobody}]
        /\ unread'.event \in [Un!Event -> Un!States] /\ unread'.user \in [Reader -> Nat]
    BY <1>5
  <2>4. /\ \A e \in Un!Event : lock'.event[e] = Nobody => unread'.event[e] = row'[e]
        /\ \A u \in Reader : lock'.user[u] = Nobody => unread'.user[u] = cache'[u]
    BY <1>5
  <2>5. \A e \in Un!Event : fact[e].kind \in Un!Kinds /\ fact[e].user \in Reader \cup {Nobody}
    BY UnreadFacts
  <2>6. Un!UnreadTypeOK'
    BY <1>1, <2>1, <2>2, <2>3, <2>4, <2>5, UnreadFacts DEF Un!UnreadTypeOK
  <2>7. Telling' = Telling
    BY <2>1 DEF Telling
  <2> QED
    BY <1>1, <1>4, <1>5, <2>1, <2>6, <2>7, UnreadFacts DEF UnreadTyped
<1>7. NotDrawn'
  <2> SUFFICES ASSUME NEW e \in Un!Event
               PROVE  IF e < nextId THEN fact[e].user \in Reader
                      ELSE row'[e] = "none" /\ unread'.event[e] = "none" /\ lock'.event[e] = Nobody
    BY <1>1 DEF NotDrawn, Un!Event
  <2>1. IF e < nextId THEN fact[e].user \in Reader
        ELSE row[e] = "none" /\ unread.event[e] = "none" /\ lock.event[e] = Nobody
    BY DEF UnreadInv, NotDrawn
  <2>2. lock.event[e] = Nobody => lock.event[e] # h
    BY UnreadFacts
  <2> QED
    BY <1>5, <2>1, <2>2
<1>8. GoesOn(h)'
  <2>1. OnItsWay("none", <<>>)
    BY DEF OnItsWay
  <2>2. /\ \A e \in Un!Event : lock'.event[e] # h
        /\ \A u \in Reader : lock'.user[u] # h
    <3>1. Nobody # h
      BY UnreadFacts
    <3> QED
      BY <1>5, <3>1
  <2>3. Un!Event' = Un!Event /\ <<>> # <<"insert", "count">>
    BY DEF Un!Event
  <2> QED
    BY <1>2, <1>4, <2>1, <2>2, <2>3 DEF GoesOn
<1>9. ASSUME NEW g \in Req \ {h} PROVE GoesOn(g)' /\ ~telling'[g].alone
  <2>1. GoesOn(g) /\ telling'[g] = telling[g]
    BY <1>4, TellingFacts
  <2>2. ~telling[g].alone
    BY <2>1 DEF GoesOn
  <2>3. /\ Un!At(g, "insert")' <=> Un!At(g, "insert")
        /\ \A u : Waits(g, u)' <=> Waits(g, u)
    BY <1>1, <2>1 DEF Un!At, Waits
  <2>4. telling[g].what = "none" => /\ \A e \in Un!Event : lock'.event[e] # g
                                    /\ \A u \in Reader : lock'.user[u] # g
    <3>1. Nobody # g
      BY UnreadFacts
    <3> QED
      BY <1>5, <2>1, <3>1 DEF GoesOn
  <2>5. Un!Event' = Un!Event
    BY DEF Un!Event
  <2> QED
    BY <1>1, <2>1, <2>2, <2>3, <2>4, <2>5 DEF GoesOn
<1> QED
  BY <1>2, <1>4, <1>6, <1>7, <1>8, <1>9 DEF UnreadInv

LEMMA CommitKeeps ==
    ASSUME Un!UnreadConstants, UnreadInv, NEW h \in Req, Un!Commit(h)
    PROVE  UnreadInv'
<1>1. /\ telling[h].what # "none" /\ Un!End(h) /\ unread' = unread
      /\ row' = [e \in Un!Event |-> Un!Sees(h, e)]
      /\ cache' = [u \in Reader |-> IF lock.user[u] = h THEN unread.user[u] ELSE cache[u]]
  BY DEF Un!Commit, Un!Idle
<1>2. \A e \in Un!Event : row'[e] = IF lock.event[e] = h THEN unread.event[e] ELSE row[e]
  BY <1>1 DEF Un!Sees
<1>3. row' \in [Un!Event -> Un!States]
  <2>1. \A e \in Un!Event : Un!Sees(h, e) \in Un!States
    BY UnreadFacts DEF Un!Sees
  <2> QED
    BY <1>1, <2>1
<1>4. cache' \in [Reader -> Nat] /\ unread' \in [event : [Un!Event -> Un!States], user : [Reader -> Nat]]
  BY <1>1, UnreadFacts
<1>5. /\ \A e \in Un!Event : lock.event[e] \in {h, Nobody} => unread'.event[e] = row'[e]
      /\ \A u \in Reader : lock.user[u] \in {h, Nobody} => unread'.user[u] = cache'[u]
  BY <1>1, <1>2, UnreadFacts
<1> QED
  BY <1>1, <1>2, <1>3, <1>4, <1>5, EndKeeps

LEMMA AbortKeeps ==
    ASSUME Un!UnreadConstants, UnreadInv, NEW h \in Req, Un!Abort(h)
    PROVE  UnreadInv'
<1>1. /\ telling[h].what # "none" /\ Un!End(h) /\ UNCHANGED <<row, cache>>
      /\ unread' = [event |-> [e \in Un!Event |-> IF lock.event[e] = h THEN row[e] ELSE unread.event[e]],
                    user |-> [u \in Reader |-> IF lock.user[u] = h THEN cache[u] ELSE unread.user[u]]]
  BY DEF Un!Abort, Un!Idle, Un!Undone, Un!data
<1>2. unread' \in [event : [Un!Event -> Un!States], user : [Reader -> Nat]]
  BY <1>1, UnreadFacts
<1>3. /\ \A e \in Un!Event : unread'.event[e] = IF lock.event[e] = h THEN row[e] ELSE unread.event[e]
      /\ \A u \in Reader : unread'.user[u] = IF lock.user[u] = h THEN cache[u] ELSE unread.user[u]
  BY <1>1
<1>4. /\ \A e \in Un!Event : lock.event[e] \in {h, Nobody} => unread'.event[e] = row'[e]
      /\ \A u \in Reader : lock.user[u] \in {h, Nobody} => unread'.user[u] = cache'[u]
  BY <1>1, <1>3, UnreadFacts
<1> QED
  BY <1>1, <1>2, <1>3, <1>4, UnreadFacts, EndKeeps

\* What users look at changes nothing of this.
LEMMA RenderKeeps ==
    ASSUME Un!UnreadConstants, UnreadInv, NEW u \in Reader, Un!Render(u)
    PROVE  UnreadInv'
<1>1. UNCHANGED <<row, cache, unread, lock, fact, nextId, telling, started>>
  BY DEF Un!Render, Un!data
<1>2. shown' \in [Reader -> SUBSET Un!Event]
  <2>1. {e \in Un!Event : fact[e].user = u /\ row[e] # "none"} \in SUBSET Un!Event
    OBVIOUS
  <2> QED
    BY <2>1, UnreadFacts DEF Un!Render
<1>3. UnreadTyped'
  <2>1. Un!Event' = Un!Event /\ Un!States' = Un!States /\ Un!Kinds' = Un!Kinds
    BY DEF Un!Event, Un!States, Un!Kinds
  <2>2. Telling' = Telling
    BY <2>1 DEF Telling
  <2> QED
    BY <1>1, <1>2, <2>1, <2>2 DEF UnreadInv, UnreadTyped, Un!UnreadTypeOK
<1>4. NotDrawn'
  BY <1>1 DEF UnreadInv, NotDrawn, Un!Event
<1>5. ASSUME NEW h \in Req PROVE GoesOn(h)' /\ (telling[h].alone => ExactFor(h)')
  <2>1. GoesOn(h)'
    BY <1>1, TellingFacts DEF GoesOn, Waits, Un!At, Un!Event
  <2>2. Un!Deletable(h)' = Un!Deletable(h)
    BY <1>1, DeletableStays
  <2>3. ASSUME telling[h].alone PROVE ExactFor(h)'
    <3>1. ExactFor(h)
      BY <2>3, TellingFacts
    <3>2. DeletesKnown(h)'
      BY <1>1, <2>2, <3>1 DEF ExactFor, DeletesKnown, Un!At
    <3>3. \A v : Un!UnreadOf(v, unread.event)' = Un!UnreadOf(v, unread.event)
      BY <1>1 DEF Un!UnreadOf, Un!Event
    <3>4. CountedRight(h)'
      BY <1>1, <3>1, <3>3 DEF ExactFor, CountedRight, Un!At
    <3> QED
      BY <1>1, <2>3, <3>2, <3>4, NumbersStayRight DEF ExactFor
  <2> QED
    BY <2>1, <2>3
<1> QED
  BY <1>1, <1>3, <1>4, <1>5 DEF UnreadInv

\* What may tell of events.
LEMMA RequestsKnown == {"comment", "react", "unreact", "delete", "topic"} \subseteq Requests
  BY DEF Requests

LEMMA RequestsAreTelling ==
    ASSUME Un!UnreadConstants, NEW c \in Comment, NEW users \in SUBSET Reader, NEW what \in Requests
    PROVE  /\ [Un!NoRequest EXCEPT !.what = what, !.comment = c, !.notify = users, !.recount = users] \in Telling
           /\ [Un!NoRequest EXCEPT !.what = what, !.comment = c, !.recount = users] \in Telling
           /\ [Un!NoRequest EXCEPT !.what = what, !.comment = c, !.notify = users] \in Telling
           /\ [Un!NoRequest EXCEPT !.what = what, !.notify = users] \in Telling
<1>1. [u \in Reader |-> 0] \in [Reader -> Nat] /\ 0 \in 0..LastEvent /\ <<>> \in Todos
  BY DEF Todos, Un!UnreadConstants
<1> QED
  BY <1>1 DEF Un!NoRequest, Telling

LEMMA RequestKeeps ==
    ASSUME Un!UnreadConstants, UnreadInv, NEW h \in Req, Un!Request(h)
    PROVE  UnreadInv'
<1>1. ASSUME NEW c \in Comment, NEW users \in SUBSET Reader, Un!AddComment(h, c, users)
      PROVE  UnreadInv'
  <2> DEFINE q == [Un!NoRequest EXCEPT !.what = "comment", !.comment = c, !.notify = users, !.recount = users]
  <2>1. "comment" \in Requests
    BY RequestsKnown
  <2>2. q \in Telling
    BY <2>1, RequestsAreTelling
  <2>3. q.what = "comment" /\ q.raise = 0 /\ ~q.under /\ q.notify = users /\ q.recount = users
    BY DEF Un!NoRequest
  <2>4. Un!Begin(h, q)
    BY <1>1 DEF Un!AddComment
  <2> HIDE DEF q
  <2> QED
    BY <2>1, <2>2, <2>3, <2>4, BeginKeeps
<1>2. ASSUME NEW c \in Comment, NEW u \in Reader, Un!SetReaction(h, c, u)
      PROVE  UnreadInv'
  <2> DEFINE q == [Un!NoRequest EXCEPT !.what = "react", !.comment = c, !.notify = {u}, !.recount = {u}]
  <2>1. "react" \in Requests /\ {u} \in SUBSET Reader
    BY RequestsKnown
  <2>2. q \in Telling
    BY <2>1, RequestsAreTelling
  <2>3. q.what = "react" /\ q.raise = 0 /\ ~q.under /\ q.notify = {u} /\ q.recount = {u}
    BY DEF Un!NoRequest
  <2>4. Un!Begin(h, q)
    BY <1>2 DEF Un!SetReaction
  <2> HIDE DEF q
  <2> QED
    BY <2>1, <2>2, <2>3, <2>4, BeginKeeps
<1>3. ASSUME NEW c \in Comment, NEW u \in Reader, Un!WithdrawReaction(h, c, u)
      PROVE  UnreadInv'
  <2> DEFINE q == [Un!NoRequest EXCEPT !.what = "unreact", !.comment = c, !.recount = {u}]
  <2>1. "unreact" \in Requests /\ {u} \in SUBSET Reader
    BY RequestsKnown
  <2>2. q \in Telling
    BY <2>1, RequestsAreTelling
  <2>3. q.what = "unreact" /\ q.raise = 0 /\ ~q.under
    BY DEF Un!NoRequest
  <2>4. Un!Begin(h, q)
    BY <1>3 DEF Un!WithdrawReaction
  <2> HIDE DEF q
  <2> QED
    BY <2>1, <2>2, <2>3, <2>4, BeginKeeps
<1>4. ASSUME NEW c \in Comment, NEW author \in SUBSET Reader, Un!DeleteComment(h, c, author)
      PROVE  UnreadInv'
  <2> DEFINE q == [Un!NoRequest EXCEPT !.what = "delete", !.comment = c, !.notify = author]
  <2>1. "delete" \in Requests
    BY RequestsKnown
  <2>2. q \in Telling
    BY <2>1, RequestsAreTelling
  <2>3. q.what = "delete" /\ q.raise = 0 /\ ~q.under /\ q.recount = {}
    BY DEF Un!NoRequest
  <2>4. Un!Begin(h, q)
    BY <1>4 DEF Un!DeleteComment
  <2> HIDE DEF q
  <2> QED
    BY <2>1, <2>2, <2>3, <2>4, BeginKeeps
<1>5. ASSUME NEW c \in Comment, NEW author \in SUBSET Reader, Un!DeleteTopic(h, author)
      PROVE  UnreadInv'
  <2> DEFINE q == [Un!NoRequest EXCEPT !.what = "topic", !.notify = author]
  <2>1. "topic" \in Requests
    BY RequestsKnown
  <2>2. q \in Telling
    BY <2>1, RequestsAreTelling
  <2>3. q.what = "topic" /\ q.raise = 0 /\ ~q.under /\ q.recount = {}
    BY DEF Un!NoRequest
  <2>4. Un!Begin(h, q)
    BY <1>5 DEF Un!DeleteTopic
  <2> HIDE DEF q
  <2> QED
    BY <2>1, <2>2, <2>3, <2>4, BeginKeeps
<1>6. ASSUME NEW u \in Reader, Un!ResetUnread(h, u) \/ Un!ClickWatch(h, u)
      PROVE  UnreadInv'
  <2>1. PICK top \in shown[u], what \in {"reset", "click"} :
          Un!Begin(h, [Un!NoRequest EXCEPT !.what = what, !.top = top, !.recount = {u}])
    BY <1>6 DEF Un!ResetUnread, Un!ClickWatch
  <2> DEFINE q == [Un!NoRequest EXCEPT !.what = what, !.top = top, !.recount = {u}]
  <2>2. what \in Requests /\ top \in 0..LastEvent /\ {u} \in SUBSET Reader
    BY <2>1, UnreadFacts DEF Requests
  <2>3. q \in Telling
    <3>1. [v \in Reader |-> 0] \in [Reader -> Nat] /\ 0 \in 0..LastEvent /\ <<>> \in Todos
      BY UnreadFacts DEF Todos
    <3> QED
      BY <2>2, <3>1 DEF Un!NoRequest, Telling
  <2>4. q.what = what /\ q.raise = 0 /\ ~q.under
    BY DEF Un!NoRequest
  <2>5. Un!Begin(h, q)
    BY <2>1
  <2> HIDE DEF q
  <2> QED
    BY <2>1, <2>2, <2>3, <2>4, <2>5, BeginKeeps
<1>7. \A author \in {{}} \cup {{u} : u \in Reader} : author \in SUBSET Reader
  OBVIOUS
<1> QED
  BY <1>1, <1>2, <1>3, <1>4, <1>5, <1>6, <1>7 DEF Un!Request

LEMMA InitUnread ==
    ASSUME Un!UnreadConstants, Un!Init
    PROVE  UnreadInv
<1>1. /\ row = [e \in Un!Event |-> "none"] /\ cache = [u \in Reader |-> 0]
      /\ unread = [event |-> row, user |-> cache]
      /\ lock = [event |-> [e \in Un!Event |-> Nobody], user |-> [u \in Reader |-> Nobody]]
      /\ fact = [e \in Un!Event |-> [user |-> Nobody, comment |-> Nobody, kind |-> "none"]]
      /\ nextId = 1 /\ telling = [h \in Req |-> Un!NoRequest]
      /\ shown = [u \in Reader |-> {}] /\ started = 0
  BY DEF Un!Init
<1>2. Un!Event = 1..LastEvent /\ LastEvent \in Nat /\ MaxRequests \in Nat /\ Nobody \notin Req
  BY DEF Un!UnreadConstants, Un!Event
<1>3. /\ Un!NoRequest \in Telling
      /\ Un!NoRequest.what = "none" /\ Un!NoRequest.todo = <<>> /\ Un!NoRequest.raise = 0
      /\ Un!NoRequest.recount = {} /\ Un!NoRequest.alone = FALSE /\ Un!NoRequest.events = {}
  <2>1. [u \in Reader |-> 0] \in [Reader -> Nat] /\ 0 \in 0..LastEvent /\ <<>> \in Todos
    BY <1>2 DEF Todos
  <2> QED
    BY <2>1 DEF Un!NoRequest, Telling
<1>4. /\ row \in [Un!Event -> Un!States] /\ cache \in [Reader -> Nat]
      /\ unread \in [event : [Un!Event -> Un!States], user : [Reader -> Nat]]
      /\ lock \in [event : [Un!Event -> Req \cup {Nobody}], user : [Reader -> Req \cup {Nobody}]]
      /\ \A e \in Un!Event : row[e] = "none" /\ unread.event[e] = row[e] /\ lock.event[e] = Nobody
      /\ \A u \in Reader : unread.user[u] = cache[u] /\ lock.user[u] = Nobody
  BY <1>1 DEF Un!States
<1>5. fact \in [Un!Event -> [user : Reader \cup {Nobody}, comment : Comment \cup {Nobody},
                             kind : Un!Kinds]]
  BY <1>1 DEF Un!Kinds
<1>6. telling \in [Req -> Telling] /\ \A h \in Req : telling[h] = Un!NoRequest
  BY <1>1, <1>3
<1>7. nextId \in 1..LastEvent + 1 /\ started \in 0..MaxRequests
  BY <1>1, <1>2
<1>8. Un!UnreadTypeOK
  <2>1. /\ unread.event \in [Un!Event -> Un!States] /\ unread.user \in [Reader -> Nat]
        /\ lock.event \in [Un!Event -> Req \cup {Nobody}] /\ lock.user \in [Reader -> Req \cup {Nobody}]
    BY <1>4
  <2>2. \A e \in Un!Event : fact[e].kind \in Un!Kinds /\ fact[e].user \in Reader \cup {Nobody}
    BY <1>5
  <2>3. \A h \in Req : telling[h].events \subseteq Un!Event /\ telling[h].recount \subseteq Reader
    BY <1>3, <1>6
  <2> QED
    BY <1>4, <1>7, <2>1, <2>2, <2>3 DEF Un!UnreadTypeOK
<1>9. UnreadTyped
  BY <1>1, <1>4, <1>5, <1>6, <1>8 DEF UnreadTyped
<1>10. NotDrawn
  BY <1>1, <1>2, <1>4 DEF NotDrawn
<1>11. ASSUME NEW h \in Req PROVE GoesOn(h) /\ ~telling[h].alone
  <2>1. OnItsWay("none", <<>>) /\ <<>> # <<"insert", "count">>
    BY DEF OnItsWay
  <2>2. h # Nobody
    BY <1>2
  <2>3. /\ telling[h].what = "none" /\ telling[h].todo = <<>> /\ telling[h].raise = 0
        /\ telling[h].recount = {} /\ ~telling[h].alone
    BY <1>3, <1>6
  <2>4. /\ \A e \in Un!Event : lock.event[e] # h
        /\ \A u \in Reader : lock.user[u] # h
    BY <1>4, <2>2
  <2> QED
    BY <2>1, <2>3, <2>4 DEF GoesOn
<1> QED
  BY <1>9, <1>10, <1>11 DEF UnreadInv

LEMMA StepUnread ==
    ASSUME Un!UnreadConstants, UnreadInv, [Un!Next]_unvars
    PROVE  UnreadInv'
<1>1. ASSUME NEW h \in Req, Un!Statement(h) PROVE UnreadInv'
  BY <1>1, InsertEventKeeps, RaiseCacheKeeps, SelectAffectedKeeps, StartEventsKeeps, TouchEventKeeps,
     EndEventsKeeps, CountKeeps, WriteCacheKeeps, CommitKeeps DEF Un!Statement
<1>2. CASE UNCHANGED unvars
  <2>1. UNCHANGED <<row, cache, unread, lock, fact, nextId, telling, shown, started>>
    BY <1>2 DEF unvars
  <2>2. UnreadTyped' /\ NotDrawn'
    <3>1. Un!Event' = Un!Event /\ Un!States' = Un!States /\ Un!Kinds' = Un!Kinds
      BY DEF Un!Event, Un!States, Un!Kinds
    <3>2. Telling' = Telling
      BY <3>1 DEF Telling
    <3> QED
      BY <2>1, <3>1, <3>2 DEF UnreadInv, UnreadTyped, NotDrawn, Un!UnreadTypeOK
  <2>3. ASSUME NEW h \in Req PROVE GoesOn(h)' /\ (telling[h].alone => ExactFor(h)')
    <3>1. GoesOn(h)'
      BY <2>1, TellingFacts DEF GoesOn, Waits, Un!At, Un!Event
    <3>2. ASSUME telling[h].alone PROVE ExactFor(h)'
      <4>1. ExactFor(h)
        BY <3>2, TellingFacts
      <4>2. Un!Deletable(h)' = Un!Deletable(h)
        BY <2>1, DeletableStays
      <4>3. \A v : Un!UnreadOf(v, unread.event)' = Un!UnreadOf(v, unread.event)
        BY <2>1 DEF Un!UnreadOf, Un!Event
      <4>4. DeletesKnown(h)' /\ CountedRight(h)'
        BY <2>1, <4>1, <4>2, <4>3 DEF ExactFor, DeletesKnown, CountedRight, Un!At
      <4> QED
        BY <2>1, <3>2, <4>4, NumbersStayRight DEF ExactFor
    <3> QED
      BY <3>1, <3>2
  <2> QED
    BY <2>1, <2>2, <2>3 DEF UnreadInv
<1> QED
  BY <1>1, <1>2, RenderKeeps, RequestKeeps, AbortKeeps DEF Un!Next

\* What a transaction that is alone commits.
LEMMA AloneCommits ==
    ASSUME Un!UnreadConstants, UnreadInv, NEW h \in Req, Un!Commit(h), telling[h].alone, NEW u \in Reader,
           cache[u] = Un!UnreadOf(u, row) \/ (lock.user[u] = h /\ telling[h].what \in Repairing)
    PROVE  cache'[u] = Cardinality({e \in Un!Event : fact[e].user = u /\ row'[e] = "unread"})
<1>1. /\ telling[h].todo = <<>>
      /\ row' = [e \in Un!Event |-> Un!Sees(h, e)]
      /\ cache' = [v \in Reader |-> IF lock.user[v] = h THEN unread.user[v] ELSE cache[v]]
  BY DEF Un!Commit
<1>2. telling[h].recount = {} /\ telling[h].raise = 0
  BY <1>1, TellingFacts DEF GoesOn, NoneToCount, Un!At
<1>3. NumberIsRight(h, u) /\ Owed(h, u) = 0
  BY <1>2, TellingFacts DEF ExactFor, Owed, Waits
<1>4. cache'[u] = unread.user[u] /\ unread.user[u] \in Nat
  BY <1>1, AloneSees, UnreadFacts
<1>5. \A e \in Un!Event : row'[e] = unread.event[e]
  BY <1>1, AloneSees
<1>6. {e \in Un!Event : fact[e].user = u /\ row'[e] = "unread"}
        = {e \in Un!Event : fact[e].user = u /\ unread.event[e] = "unread"}
  BY <1>5
<1>7. unread.user[u] = Un!UnreadOf(u, unread.event)
  BY <1>3, <1>4 DEF NumberIsRight
<1> QED
  BY <1>4, <1>6, <1>7, UnreadNumbers

LEMMA UnreadSteps ==
    ASSUME Un!UnreadConstants, UnreadInv
    PROVE  Un!KeepsExact /\ Un!RecountsExactly
<1>1. ASSUME NEW h \in Req, NEW u \in Reader, Un!Commit(h), telling[h].alone, cache[u] = Un!UnreadOf(u, row)
      PROVE  cache'[u] = Cardinality({e \in Un!Event : fact[e].user = u /\ row'[e] = "unread"})
  BY <1>1, AloneCommits
<1>2. ASSUME NEW h \in Req, NEW u \in Reader, Un!Commit(h), telling[h].alone, lock.user[u] = h,
             telling[h].what \in {"comment", "react", "unreact", "reset", "click"}
      PROVE  cache'[u] = Cardinality({e \in Un!Event : fact[e].user = u /\ row'[e] = "unread"})
  <2>1. telling[h].what \in Repairing
    BY <1>2 DEF Repairing, Requests
  <2> QED
    BY <1>2, <2>1, AloneCommits
<1>3. Un!KeepsExact
  BY <1>1 DEF Un!KeepsExact, Un!Cardinality, Cardinality
<1>4. Un!RecountsExactly
  BY <1>2 DEF Un!RecountsExactly, Un!Cardinality, Cardinality
<1> QED
  BY <1>3, <1>4

\* An edit of a poll takes no vote back (topic_edit_repository.rs:701-750), and a
\* transaction that nothing overlaps takes an exact number of unread events to an
\* exact one, and leaves each number that it has recounted exact, whatever it was
\* before (the trigger new_event_t and the recounts behind each statement,
\* api.rs:571-604).
THEOREM StepsAlwaysHold ==
    ASSUME Po!PollConstants, Un!UnreadConstants
    PROVE  Po!Spec /\ Un!Spec => StepsHold
<1>1. Un!Init => UnreadInv
  BY InitUnread
<1>2. UnreadInv /\ [Un!Next]_unvars => UnreadInv'
  BY StepUnread
<1>3. UnreadInv => Un!KeepsExact /\ Un!RecountsExactly
  BY UnreadSteps
<1>4. UnreadInv => Un!UnreadTypeOK
  BY DEF UnreadInv, UnreadTyped
<1>5. UNCHANGED povars => Po!KeepsVotes
  BY DEF povars, Po!KeepsVotes
<1>6. Po!Spec => [][Po!KeepsVotes]_povars
  BY VotesAreKept
<1>7. Un!Spec <=> Un!Init /\ [][Un!Next]_unvars
  BY DEF Un!Spec, Un!vars, unvars
<1> QED
  BY <1>1, <1>2, <1>3, <1>4, <1>5, <1>6, <1>7, PTL DEF StepsHold

-----------------------------------------------------------------------------
(* Tags *)

\* Where requests hold what is not committed yet.
Making == {"lock", "edit", "edited", "insert", "count", "post",
           "mcount", "copy", "clear", "raise", "merged"}
Inserting == {"edited", "count", "post", "clear", "raise", "merged"}
Removing == {"edited", "deleted", "raise", "merged"}
Moving == {"mcount", "copy", "clear", "raise", "merged"}
Renaming == {"tell", "renamed"}
OfTag == Moving \cup Renaming \cup {"rename", "cleared", "delete", "deleted", "merge"}

TagPc == {"idle", "resolve", "queue", "reindex", "sweep"} \cup Making \cup OfTag
TagRequest ==
    [pc : TagPc, topic : Topic, chosen : SUBSET Name, had : SUBSET Name,
     old : 0..MaxIds, target : 0..MaxIds, name : Name \cup {NoName}, syn : BOOLEAN,
     new : SUBSET (Ta!Id \X Name), add : SUBSET Ta!Id, del : SUBSET Ta!Id,
     ins : SUBSET (Topic \X Ta!Id), rem : SUBSET (Topic \X Ta!Id), hold : SUBSET Ta!Id, weak : SUBSET Ta!Id,
     n : [Ta!Id -> Nat], hidden : SUBSET (Topic \X Ta!Id), affected : SUBSET Topic, late : SUBSET ({"got", "lost"} \X Ta!Id),
     missed : BOOLEAN]

TagTyped ==
    /\ value \in [Ta!Id -> Name \cup {NoName}] /\ counter \in [Ta!Id -> Nat]
    /\ synonym \in [Name -> 0..MaxIds] /\ tagged \subseteq Topic \X Ta!Id /\ posted \subseteq Topic
    /\ ids \in 0..MaxIds /\ jobs \subseteq Topic /\ retags \in 0..MaxTagRequests
    /\ DOMAIN indexed = Topic /\ indexed = [u \in Topic |-> indexed[u]]
    /\ retag \in [Req -> TagRequest]

\* What a request q holds, by how far it is.
Shape(q) ==
    /\ q.pc \notin Making => q.new = {}
    /\ q.pc \notin Inserting => q.ins = {}
    /\ q.pc \notin Removing => q.rem = {}
    /\ q.pc \notin {"edit", "edited"} \cup Renaming => q.hold = {}
    /\ q.pc \in {"edit", "edited"} => q.hold = q.add \cup q.del
    /\ q.pc \in Renaming => q.hold = {q.old}
    /\ q.pc = "edited" => q.ins \subseteq {q.topic} \X q.add /\ q.rem \subseteq {q.topic} \X q.del
    /\ q.pc \in {"count", "post"} => q.ins = {q.topic} \X q.add
    /\ q.pc \in {"clear", "raise", "merged"} => q.ins \subseteq Topic \X {q.target}
    /\ q.pc \in {"deleted", "raise", "merged"} => q.rem \subseteq Topic \X {q.old}
    /\ q.pc \in Moving =>
        /\ q.target \in Ta!Id /\ q.target # q.old
        /\ \A i \in Ta!Id, n \in Name : <<i, n>> \in q.new => i = q.target /\ n # q.name
    /\ q.pc \in OfTag => q.old \in Ta!Id
    /\ q.pc \in {"rename", "cleared", "merge"} \cup Renaming \cup Moving => q.name \in Name
    /\ q.pc = "merge" => \E n \in Name : q.chosen = {n} /\ n # q.name

\* The ids and the names that it makes are no one's, and their ids are drawn.
NewOnes(q) ==
    /\ \A i \in Ta!Id, n \in Name : <<i, n>> \in q.new =>
        /\ value[i] = NoName /\ i <= ids
        /\ \A j \in Ta!Id : value[j] # n
        /\ n \notin twins => synonym[n] = 0
    /\ \A i, j \in Ta!Id, m, n \in Name : <<i, m>> \in q.new /\ <<j, n>> \in q.new => (i = j <=> m = n)
    /\ q.pc \in OfTag => q.old <= ids /\ \A n \in Name : <<q.old, n>> \notin q.new
    /\ q.pc \in Moving => q.target <= ids

\* The name of a rename is free, and who has the tag is known to it.
Renames(q) ==
    q.pc \in Renaming =>
        /\ value[q.old] = NoName \/ \A j \in Ta!Id : value[j] # q.name
        /\ \A u \in Topic : <<u, q.old>> \in tagged => u \in q.affected

\* Its rows are of tags that exist or that it makes.
Keys(q) ==
    \A u \in Topic, i \in Ta!Id : <<u, i>> \in q.ins =>
        value[i] # NoName \/ \E n \in Name : <<i, n>> \in q.new

GotBy(q) == {u \in Topic : <<u, q.target>> \in q.ins}
ToMove(q) == {u \in Topic : <<u, q.old>> \in tagged /\ <<u, q.target>> \notin tagged}
Targeted(q) == value[q.target] # NoName \/ q.new # {}
SeenBy(q, i) == {u \in Ta!With(i) : <<u, i>> \notin q.hidden}

\* What it has counted is enough, unless others have committed rows since.
Counted(q) ==
    /\ q.pc = "post" =>
        \A i \in q.add : <<"got", i>> \notin q.late =>
            Cardinality(Ta!With(i) \cup {q.topic}) <= q.n[i]
    /\ q.pc = "copy" /\ Targeted(q) /\ <<"got", q.old>> \notin q.late
           /\ <<"lost", q.target>> \notin q.late =>
        Cardinality(ToMove(q)) <= q.n[q.target]
    /\ q.pc \in {"clear", "raise", "merged"} /\ Targeted(q) /\ ~q.missed =>
        Cardinality(GotBy(q)) <= q.n[q.target]
    /\ q.pc = "sweep" =>
        \A i \in q.add : <<"got", i>> \notin q.late =>
            Cardinality(SeenBy(q, i)) <= q.n[i]

Told(q) == q.pc = "renamed" => q.affected \subseteq jobs \cup stale

TagSound(q) == Shape(q) /\ NewOnes(q) /\ Renames(q) /\ Keys(q) /\ Counted(q) /\ Told(q)

\* Two requests make different tags, and one deletes, renames or moves none that
\* the other makes; what one holds, the other does not, nor gives it to a topic.
Apart(p, q) ==
    /\ \A i, j \in Ta!Id, m, n \in Name : <<i, m>> \in p.new /\ <<j, n>> \in q.new => i # j /\ m # n
    /\ p.pc \in OfTag => \A n \in Name : <<p.old, n>> \notin q.new
    /\ p.pc \in Moving => \A n \in Name : <<p.target, n>> \notin q.new
    /\ p.pc \in Renaming =>
        /\ \A i \in Ta!Id : <<i, p.name>> \notin q.new
        /\ q.pc \in Renaming => q.name # p.name
    /\ \A i \in p.hold : i \notin q.hold /\ \A u \in Topic : <<u, i>> \notin q.ins

TagLinks ==
    /\ \A u \in Topic, i \in Ta!Id : <<u, i>> \in tagged => value[i] # NoName
    /\ \A n \in Name : synonym[n] # 0 => value[synonym[n]] # NoName
    /\ \A i, j \in Ta!Id : value[i] # NoName /\ value[i] = value[j] => i = j
    /\ \A i \in Ta!Id : value[i] # NoName => i <= ids

\* Someone is about to queue the topic.
Awaited(q, u) ==
    \/ q.pc = "queue" /\ u \in q.affected
    \/ q.pc = "reindex" /\ <<u, q.target>> \in tagged
Documents ==
    \A u \in posted \ (jobs \cup stale) :
        (\A h \in Req : ~Awaited(retag[h], u)) => indexed[u] = Ta!NamesOf(u)

TagsApart ==
    /\ \A h \in Req : TagSound(retag[h])
    /\ \A h, k \in Req : h # k => Apart(retag[h], retag[k])
TagsInv == TagTyped /\ TagLinks /\ Ta!NamesOnce /\ Ta!NotShort /\ Documents /\ TagsApart

\* The library's operators, as the instance knows them.
LEMMA TaCounts == \A T : Ta!Cardinality(T) = Cardinality(T)
  BY Zenon DEF Cardinality, Ta!Cardinality

LEMMA TaFinite == \A T : Ta!IsFiniteSet(T) <=> IsFiniteSet(T)
  BY Zenon DEF IsFiniteSet, Ta!IsFiniteSet

-----------------------------------------------------------------------------
LEMMA TagFacts ==
    ASSUME Ta!TagConstants, TagsInv, NEW h \in Req
    PROVE  /\ retag[h] \in TagRequest /\ TagSound(retag[h])
           /\ \A k \in Req : k # h => Apart(retag[h], retag[k]) /\ Apart(retag[k], retag[h])
<1> QED
  BY DEF TagsInv, TagTyped, TagsApart

\* How far a request of tags may be.
LEMMA PhasesKnown ==
    {"resolve", "queue", "reindex", "deleted", "clear", "lock", "edit", "edited", "insert", "count", "post", "mcount", "copy", "raise", "merged",
     "rename", "renamed", "cleared", "tell", "delete", "merge", "sweep"} \subseteq TagPc
  BY DEF TagPc, Making, OfTag, Moving, Renaming

LEMMA IdleIsTagRequest == Ta!TagConstants => Ta!Idle \in TagRequest
<1> SUFFICES ASSUME Ta!TagConstants PROVE Ta!Idle \in TagRequest
  OBVIOUS
<1>1. [i \in Ta!Id |-> 0] \in [Ta!Id -> Nat]
  OBVIOUS
<1>2. 0 \in 0..MaxIds /\ First \in Topic /\ {} \in SUBSET Ta!Id /\ {} \in SUBSET (Ta!Id \X Name)
      /\ {} \in SUBSET (Topic \X Ta!Id) /\ {} \in SUBSET ({"got", "lost"} \X Ta!Id)
  BY DEF Ta!TagConstants
<1>3. NoName \in Name \cup {NoName} /\ 0 \in Nat
  OBVIOUS
<1> HIDE DEF Ta!Id
<1> QED
  BY <1>1, <1>2, <1>3 DEF Ta!Idle, TagRequest, TagPc

\* A request that makes, inserts and holds nothing is apart from all others.
Plain(q) ==
    /\ q.pc \in {"idle", "resolve", "queue", "reindex"}
    /\ q.new = {} /\ q.ins = {} /\ q.rem = {} /\ q.hold = {}

LEMMA PlainIsSound ==
    ASSUME NEW q, Plain(q)
    PROVE  TagSound(q) /\ TagSound(q)'
<1>1. /\ q.pc \notin Making /\ q.pc \notin Inserting /\ q.pc \notin Removing /\ q.pc \notin Moving
      /\ q.pc \notin Renaming /\ q.pc \notin OfTag /\ q.pc \notin {"edit", "edited"}
      /\ q.pc \notin {"post", "copy", "clear", "raise", "merged", "renamed", "deleted", "count", "merge", "rename", "cleared", "sweep"}
  BY DEF Plain, Making, Inserting, Removing, Moving, Renaming, OfTag
<1>2. Shape(q)
  BY <1>1 DEF Plain, Shape
<1>3. NewOnes(q) /\ NewOnes(q)'
  BY <1>1 DEF Plain, NewOnes
<1>4. Renames(q) /\ Renames(q)' /\ Counted(q) /\ Counted(q)' /\ Told(q) /\ Told(q)'
  BY <1>1 DEF Plain, Renames, Counted, Told
<1>5. Keys(q) /\ Keys(q)'
  BY DEF Plain, Keys
<1> QED
  BY <1>2, <1>3, <1>4, <1>5 DEF TagSound

LEMMA PlainIsApart ==
    ASSUME NEW q, Plain(q), NEW p
    PROVE  p.hold \subseteq Ta!Id => Apart(q, p) /\ Apart(p, q)
<1>1. q.pc \notin Moving /\ q.pc \notin Renaming /\ q.pc \notin OfTag
  BY DEF Plain, Moving, Renaming, OfTag
<1> QED
  BY <1>1 DEF Plain, Apart

-----------------------------------------------------------------------------
(* A statement: one request changes, and the committed rows of tags do not. *)

LEMMA SoundStays ==
    ASSUME NEW q, TagSound(q), UNCHANGED <<value, synonym, tagged, twins>>,
           ids <= ids', ids \in Int, ids' \in Int, q \in TagRequest, Ta!TagConstants,
           q.pc = "renamed" => q.affected \subseteq jobs' \cup stale'
    PROVE  TagSound(q)'
<1>1. Shape(q)' /\ Renames(q)' /\ Keys(q)' /\ Counted(q)' /\ Told(q)'
  BY DEF TagSound, Renames, Keys, Counted, Told, Ta!With, ToMove, Targeted, GotBy, SeenBy
<1>2. NewOnes(q)'
  <2>1. NewOnes(q)
    BY DEF TagSound
  <2>2. \A i \in Ta!Id : i \in Int
    BY DEF Ta!Id, Ta!TagConstants
  <2>3. q.old \in Int /\ q.target \in Int
    BY DEF TagRequest, Ta!TagConstants
  <2> QED
    BY <2>1, <2>2, <2>3 DEF NewOnes
<1> QED
  BY <1>1, <1>2 DEF TagSound

LEMMA StatementStays ==
    ASSUME Ta!TagConstants, TagsInv, NEW r \in Req, NEW c \in TagRequest,
           retag' = [retag EXCEPT ![r] = c],
           UNCHANGED <<value, counter, synonym, tagged, posted, indexed, short, unseen, twins>>,
           ids' \in 0..MaxIds, ids <= ids', retags' \in 0..MaxTagRequests,
           jobs' \subseteq Topic, jobs \subseteq jobs', stale \subseteq stale',
           TagSound(c)',
           \A h \in Req : h # r => Apart(c, retag[h]) /\ Apart(retag[h], c),
           \A u \in posted \ (jobs' \cup stale') : Awaited(retag[r], u) => Awaited(c, u)
    PROVE  TagsInv'
<1>1. TagTyped'
  BY DEF TagsInv, TagTyped
<1>2. TagLinks'
  <2>1. ids \in Int /\ ids' \in Int /\ \A i \in Ta!Id : i \in Int
    BY DEF Ta!Id, Ta!TagConstants, TagsInv, TagTyped
  <2> QED
    BY <2>1 DEF TagsInv, TagLinks
<1>3. Ta!NamesOnce' /\ Ta!NotShort'
  BY TaCounts DEF TagsInv, Ta!NamesOnce, Ta!NotShort, Ta!Canonical, Ta!Exists, Ta!With
<1>4. \A h \in Req : h # r => retag'[h] = retag[h]
  BY DEF TagsInv, TagTyped
<1>5. retag'[r] = c
  BY DEF TagsInv, TagTyped
<1>6. Documents'
  <2> SUFFICES ASSUME NEW u \in posted \ (jobs' \cup stale'),
                      \A h \in Req : ~Awaited(retag[h], u)'
               PROVE  indexed[u] = Ta!NamesOf(u)'
    BY DEF Documents
  <2>1. ASSUME NEW h \in Req PROVE ~Awaited(retag[h], u)
    <3>0. ~Awaited(retag[h], u)'
      OBVIOUS
    <3>1. CASE h = r
      <4>1. ~Awaited(c, u)
        BY <1>5, <3>0, <3>1 DEF Awaited
      <4> QED
        BY <3>1, <4>1
    <3>2. CASE h # r
      BY <1>4, <3>0, <3>2 DEF Awaited
    <3> QED
      BY <3>1, <3>2
  <2>2. u \in posted \ (jobs \cup stale)
    OBVIOUS
  <2>3. indexed[u] = Ta!NamesOf(u)
    BY <2>1, <2>2 DEF TagsInv, Documents
  <2> QED
    BY <2>3 DEF Ta!NamesOf, Ta!IdsOf
<1>7. TagsApart'
  <2>1. ASSUME NEW h \in Req PROVE TagSound(retag[h])'
    <3>1. CASE h = r
      BY <1>5, <3>1
    <3>2. CASE h # r
      <4>1. PICK q \in TagRequest : q = retag[h] /\ q = retag'[h]
        BY <1>4, <3>2, TagFacts
      <4>2. TagSound(q)
        BY <4>1, TagFacts
      <4>3. q.pc = "renamed" => q.affected \subseteq jobs' \cup stale'
        BY <4>2 DEF TagSound, Told
      <4>4. ids \in Int /\ ids' \in Int
        BY DEF Ta!TagConstants, TagsInv, TagTyped
      <4>5. TagSound(q)'
        BY <4>2, <4>3, <4>4, SoundStays
      <4> QED
        BY <4>1, <4>5
    <3> QED
      BY <3>1, <3>2
  <2>2. ASSUME NEW h \in Req, NEW k \in Req, h # k PROVE Apart(retag[h], retag[k])'
    <3>1. Apart(retag'[h], retag'[k])
      <4>1. CASE h = r
        BY <1>4, <1>5, <2>2, <4>1
      <4>2. CASE k = r
        BY <1>4, <1>5, <2>2, <4>2
      <4>3. CASE h # r /\ k # r
        BY <1>4, <2>2, <4>3, TagFacts
      <4> QED
        BY <4>1, <4>2, <4>3
    <3> QED
      BY <3>1 DEF Apart
  <2> QED
    BY <2>1, <2>2 DEF TagsApart
<1> QED
  BY <1>1, <1>2, <1>3, <1>6, <1>7 DEF TagsInv

LEMMA PlainStays ==
    ASSUME Ta!TagConstants, TagsInv, NEW r \in Req, NEW c \in TagRequest, Plain(c),
           retag' = [retag EXCEPT ![r] = c],
           UNCHANGED <<value, counter, synonym, tagged, posted, ids, indexed, short, unseen, twins>>,
           retags' \in 0..MaxTagRequests,
           jobs' \subseteq Topic, jobs \subseteq jobs', stale \subseteq stale',
           \A u \in posted \ (jobs' \cup stale') : Awaited(retag[r], u) => Awaited(c, u)
    PROVE  TagsInv'
<1>1. TagSound(c)'
  BY PlainIsSound
<1>2. \A h \in Req : retag[h].hold \subseteq Ta!Id
  BY TagFacts DEF TagRequest
<1>3. \A h \in Req : h # r => Apart(c, retag[h]) /\ Apart(retag[h], c)
  BY <1>2, PlainIsApart
<1>4. ids' \in 0..MaxIds /\ ids <= ids'
  BY DEF TagsInv, TagTyped, Ta!TagConstants
<1> QED
  BY <1>1, <1>3, <1>4, StatementStays

\* Requests that begin with a plain record, or end.
LEMMA AskedStays ==
    ASSUME Ta!TagConstants, TagsInv, NEW r \in Req, Ta!Ask(r)
    PROVE  /\ retags' \in 0..MaxTagRequests /\ retag[r].pc = "idle"
           /\ \A u : ~Awaited(retag[r], u)
<1> QED
  BY DEF Ta!Ask, Awaited, TagsInv, TagTyped, Ta!TagConstants

LEMMA NamesAreNames ==
    ASSUME Ta!TagConstants, TagsInv, NEW u
    PROVE  Ta!NamesOf(u) \subseteq Name
<1>1. \A i \in Ta!Id : <<u, i>> \in tagged => value[i] \in Name
  BY DEF TagsInv, TagTyped, TagLinks
<1> QED
  BY <1>1 DEF Ta!NamesOf, Ta!IdsOf

LEMMA EditReadTags ==
    ASSUME Ta!TagConstants, TagsInv, NEW r \in Req, NEW u \in Topic, NEW chosen \in SUBSET Name,
           Ta!EditRead(r, u, chosen)
    PROVE  TagsInv'
<1> DEFINE c == [Ta!Idle EXCEPT !.pc = "resolve", !.topic = u, !.chosen = chosen, !.had = Ta!NamesOf(u)]
<1>1. retag' = [retag EXCEPT ![r] = c] /\ Ta!Ask(r)
      /\ UNCHANGED <<value, counter, synonym, tagged, posted, ids, indexed, jobs, stale, short, unseen, twins>>
  BY DEF Ta!EditRead, Ta!Set, Ta!db, Ta!index, Ta!hist
<1>2. c \in TagRequest
  BY IdleIsTagRequest, NamesAreNames, PhasesKnown DEF TagRequest
<1>3. Plain(c)
  BY DEF Ta!Idle, Plain
<1>4. jobs' \subseteq Topic
  BY <1>1 DEF TagsInv, TagTyped
<1> HIDE DEF c
<1> QED
  BY <1>1, <1>2, <1>3, <1>4, AskedStays, PlainStays

LEMMA AbortTags ==
    ASSUME Ta!TagConstants, TagsInv, NEW r \in Req, Ta!Abort(r)
    PROVE  TagsInv'
<1>1. retag' = [retag EXCEPT ![r] = Ta!Idle]
      /\ UNCHANGED <<value, counter, synonym, tagged, posted, ids, indexed, jobs, retags, stale, short, unseen, twins>>
  BY DEF Ta!Abort, Ta!Done, Ta!Set, Ta!db, Ta!index, Ta!hist
<1>2. Ta!Idle \in TagRequest /\ Plain(Ta!Idle)
  BY IdleIsTagRequest DEF Ta!Idle, Plain
<1>3. jobs' \subseteq Topic /\ retags' \in 0..MaxTagRequests
  BY <1>1 DEF TagsInv, TagTyped
<1>4. \A u : ~Awaited(retag[r], u)
  BY DEF Ta!Abort, Awaited
<1> QED
  BY <1>1, <1>2, <1>3, <1>4, PlainStays

LEMMA MergeReindexTags ==
    ASSUME Ta!TagConstants, TagsInv, NEW r \in Req, Ta!MergeReindex(r)
    PROVE  TagsInv'
<1> DEFINE c == [Ta!Idle EXCEPT !.pc = "queue", !.affected = Ta!With(retag[r].target)]
<1>1. retag' = [retag EXCEPT ![r] = c] /\ retag[r].pc = "reindex"
      /\ UNCHANGED <<value, counter, synonym, tagged, posted, ids, indexed, jobs, retags, stale, short, unseen, twins>>
  BY DEF Ta!MergeReindex, Ta!Set, Ta!db, Ta!index, Ta!hist
<1>2. c \in TagRequest
  <2>1. Ta!With(retag[r].target) \in SUBSET Topic
    BY DEF Ta!With
  <2> QED
    BY <2>1, IdleIsTagRequest, PhasesKnown DEF TagRequest
<1>3. Plain(c)
  BY DEF Ta!Idle, Plain
<1>4. jobs' \subseteq Topic /\ retags' \in 0..MaxTagRequests
  BY <1>1 DEF TagsInv, TagTyped
<1>5. c.pc = "queue" /\ c.affected = Ta!With(retag[r].target)
  BY DEF Ta!Idle
<1>6. \A u \in posted : u \in Topic
  BY DEF TagsInv, TagTyped
<1>7. \A u \in posted : Awaited(retag[r], u) => Awaited(c, u)
  BY <1>1, <1>5, <1>6 DEF Awaited, Ta!With
<1> HIDE DEF c
<1> QED
  BY <1>1, <1>2, <1>3, <1>4, <1>7, PlainStays

LEMMA QueueTags ==
    ASSUME Ta!TagConstants, TagsInv, NEW r \in Req, Ta!Queue(r)
    PROVE  TagsInv'
<1>1. retag' = [retag EXCEPT ![r] = Ta!Idle] /\ retag[r].pc = "queue" /\ jobs' = jobs \cup retag[r].affected
      /\ UNCHANGED <<value, counter, synonym, tagged, posted, ids, indexed, retags, stale, short, unseen, twins>>
  BY DEF Ta!Queue, Ta!Done, Ta!Set, Ta!db, Ta!hist
<1>2. Ta!Idle \in TagRequest /\ Plain(Ta!Idle)
  BY IdleIsTagRequest DEF Ta!Idle, Plain
<1>3. retag[r].affected \subseteq Topic
  BY TagFacts DEF TagRequest
<1>4. jobs' \subseteq Topic /\ retags' \in 0..MaxTagRequests
  BY <1>1, <1>3 DEF TagsInv, TagTyped
<1>5. \A u \in posted \ (jobs' \cup stale') : ~Awaited(retag[r], u)
  BY <1>1 DEF Awaited
<1> QED
  BY <1>1, <1>2, <1>4, <1>5, PlainStays

LEMMA QueueFailsTags ==
    ASSUME Ta!TagConstants, TagsInv, NEW r \in Req, Ta!QueueFails(r)
    PROVE  TagsInv'
<1>1. retag' = [retag EXCEPT ![r] = Ta!Idle] /\ retag[r].pc \in {"queue", "reindex"}
      /\ stale' = stale \cup (IF retag[r].pc = "queue" THEN retag[r].affected ELSE Ta!With(retag[r].target))
      /\ UNCHANGED <<value, counter, synonym, tagged, posted, ids, indexed, retags, jobs, short, unseen, twins>>
  BY DEF Ta!QueueFails, Ta!Done, Ta!Set, Ta!db, Ta!index
<1>2. Ta!Idle \in TagRequest /\ Plain(Ta!Idle)
  BY IdleIsTagRequest DEF Ta!Idle, Plain
<1>4. jobs' \subseteq Topic /\ retags' \in 0..MaxTagRequests
  BY <1>1 DEF TagsInv, TagTyped
<1>5. \A u \in posted \ (jobs' \cup stale') : ~Awaited(retag[r], u)
  <2>1. \A u \in posted : u \in Topic
    BY DEF TagsInv, TagTyped
  <2> QED
    BY <1>1, <2>1 DEF Awaited, Ta!With
<1> QED
  BY <1>1, <1>2, <1>4, <1>5, PlainStays

-----------------------------------------------------------------------------
(* Statements of requests that hold something. *)

\* A request that neither makes, inserts nor holds more is as far apart as it was.
LEMMA ApartStays ==
    ASSUME NEW q, NEW c, NEW p, c.new \subseteq q.new, c.ins \subseteq q.ins, c.hold \subseteq q.hold,
           c.pc \in OfTag => q.pc \in OfTag /\ c.old = q.old,
           c.pc \in Moving => q.pc \in Moving /\ c.target = q.target,
           c.pc \in Renaming => q.pc \in Renaming /\ c.name = q.name
    PROVE  /\ Apart(q, p) => Apart(c, p)
           /\ Apart(p, q) => Apart(p, c)
<1>1. Apart(q, p) => Apart(c, p)
  BY DEF Apart
<1>2. Apart(p, q) => Apart(p, c)
  BY DEF Apart
<1> QED
  BY <1>1, <1>2

\* The parts of TagSound that nothing but the request's own record and drawn decide.
LEMMA HeldStays ==
    ASSUME Ta!TagConstants, TagsInv, NEW r \in Req, NEW c \in TagRequest,
           retag' = [retag EXCEPT ![r] = c],
           UNCHANGED <<value, counter, synonym, tagged, posted, indexed, jobs, stale, short, unseen, twins>>,
           ids' \in 0..MaxIds, ids <= ids', retags' \in 0..MaxTagRequests,
           retag[r].pc \notin {"queue", "reindex"}, TagSound(c)',
           \A h \in Req : h # r => Apart(c, retag[h]) /\ Apart(retag[h], c)
    PROVE  TagsInv'
<1>1. \A u : ~Awaited(retag[r], u)
  BY DEF Awaited
<1>2. jobs' \subseteq Topic
  BY DEF TagsInv, TagTyped
<1> QED
  BY <1>1, <1>2, StatementStays

\* Names that are no one's get ids that are no one's.
LEMMA MadeNames ==
    ASSUME Ta!TagConstants, TagsInv, NEW r \in Req, NEW none \in SUBSET Name, NEW f \in Ta!Drawn(none),
           ids + Cardinality(none) <= MaxIds,
           \A n \in none : ~Ta!NameHeld(r, n) /\ Ta!Canonical(n) = {} /\ synonym[n] = 0
    PROVE  /\ ids + Cardinality(none) \in 0..MaxIds /\ ids <= ids + Cardinality(none)
           /\ \A n \in none :
                /\ f[n] \in Ta!Id /\ f[n] <= ids + Cardinality(none) /\ value[f[n]] = NoName
                /\ synonym[n] = 0 /\ \A j \in Ta!Id : value[j] # n
           /\ \A m, n \in none : f[m] = f[n] => m = n
           /\ \A h \in Req : h # r => \A n \in none :
                /\ \A i \in Ta!Id : <<i, n>> \notin retag[h].new
                /\ \A m \in Name : <<f[n], m>> \notin retag[h].new
                /\ retag[h].pc \in OfTag => retag[h].old # f[n]
                /\ retag[h].pc \in Moving => retag[h].target # f[n]
                /\ retag[h].pc \in Renaming => retag[h].name # n
<1>1. IsFiniteSet(none) /\ Cardinality(none) \in Nat
  BY FS_Subset, FS_CardinalityType, TaFinite DEF Ta!TagConstants
<1>2. ids \in Nat /\ MaxIds \in Nat
  BY DEF Ta!TagConstants, TagsInv, TagTyped
<1>3. /\ \A n \in none : f[n] \in ids + 1..ids + Cardinality(none)
      /\ \A m, n \in none : f[m] = f[n] => m = n
  BY TaCounts DEF Ta!Drawn, Ta!IsInjective
<1>4. \A n \in none : f[n] \in Ta!Id /\ ids < f[n] /\ f[n] <= ids + Cardinality(none)
  BY <1>1, <1>2, <1>3 DEF Ta!Id
<1>5. ids + Cardinality(none) \in 0..MaxIds /\ ids <= ids + Cardinality(none)
  BY <1>1, <1>2
<1>6. \A i \in Ta!Id : ids < i => value[i] = NoName
  BY <1>2 DEF TagsInv, TagLinks, Ta!Id
<1>7. \A n \in none : value[f[n]] = NoName
  BY <1>4, <1>6
<1>8. \A n \in none : \A j \in Ta!Id : value[j] # n
  BY DEF Ta!Canonical
<1>9. ASSUME NEW h \in Req, h # r, NEW n \in none
      PROVE  /\ \A i \in Ta!Id : <<i, n>> \notin retag[h].new
             /\ \A m \in Name : <<f[n], m>> \notin retag[h].new
             /\ retag[h].pc \in OfTag => retag[h].old # f[n]
             /\ retag[h].pc \in Moving => retag[h].target # f[n]
             /\ retag[h].pc \in Renaming => retag[h].name # n
  <2>1. PICK q \in TagRequest : q = retag[h] /\ TagSound(q)
    BY TagFacts
  <2>2. ~(\E i \in Ta!Id : <<i, n>> \in q.new) /\ ~(q.pc \in {"tell", "renamed"} /\ q.name = n)
    BY <1>9, <2>1 DEF Ta!NameHeld, Ta!Others
  <2>3. \A j \in Ta!Id, m \in Name : <<j, m>> \in q.new => j <= ids
    BY <2>1 DEF TagSound, NewOnes
  <2>4. /\ q.pc \in OfTag => q.old \in Ta!Id /\ q.old <= ids
        /\ q.pc \in Moving => q.target \in Ta!Id /\ q.target <= ids
    BY <2>1 DEF TagSound, NewOnes, Shape
  <2>5. \A m \in Name : <<f[n], m>> \notin q.new
    BY <1>2, <1>4, <2>3 DEF Ta!Id
  <2>6. q.pc \in OfTag => q.old # f[n]
    BY <1>2, <1>4, <2>4 DEF Ta!Id
  <2>7. q.pc \in Moving => q.target # f[n]
    BY <1>2, <1>4, <2>4 DEF Ta!Id
  <2> QED
    BY <2>1, <2>2, <2>5, <2>6, <2>7 DEF Renaming
<1> QED
  BY <1>3, <1>4, <1>5, <1>7, <1>8, <1>9

\* The request of a record that makes names, and nothing else yet.
LEMMA MakingStays ==
    ASSUME Ta!TagConstants, TagsInv, NEW r \in Req, NEW c \in TagRequest, NEW none \in SUBSET Name,
           NEW f \in Ta!Drawn(none), ids + Cardinality(none) <= MaxIds,
           \A n \in none : ~Ta!NameHeld(r, n) /\ Ta!Canonical(n) = {} /\ synonym[n] = 0,
           retag' = [retag EXCEPT ![r] = c],
           UNCHANGED <<value, counter, synonym, tagged, posted, indexed, jobs, stale, short, unseen, twins>>,
           ids' = ids + Cardinality(none), retags' \in 0..MaxTagRequests,
           retag[r].pc \notin {"queue", "reindex"},
           c.pc \in {"lock", "insert"}, c.new = {<<f[n], n>> : n \in none},
           c.ins = {}, c.rem = {}, c.hold = {}
    PROVE  TagsInv'
<1>1. /\ c.pc \in Making /\ c.pc \notin OfTag /\ c.pc \notin Moving /\ c.pc \notin Renaming
      /\ c.pc \notin {"edit", "edited", "count", "post", "copy", "clear", "raise", "merged", "deleted",
                      "renamed", "merge", "rename"}
  BY DEF Making, OfTag, Moving, Renaming
<1>2. \A i \in Ta!Id, n \in Name : <<i, n>> \in c.new => n \in none /\ i = f[n]
  OBVIOUS
<1>3. ids' \in 0..MaxIds /\ ids <= ids'
  BY MadeNames
<1>4. TagSound(c)'
  <2>1. Shape(c)
    BY <1>1 DEF Shape
  <2>2. /\ \A n \in none : /\ f[n] <= ids' /\ value[f[n]] = NoName
                           /\ synonym[n] = 0 /\ \A j \in Ta!Id : value[j] # n
        /\ \A m, n \in none : f[m] = f[n] => m = n
    BY MadeNames
  <2>3. \A i \in Ta!Id, n \in Name : <<i, n>> \in c.new =>
            /\ i <= ids' /\ value'[i] = NoName /\ synonym'[n] = 0 /\ \A j \in Ta!Id : value'[j] # n
    BY <1>2, <2>2
  <2>4. \A i, j \in Ta!Id, m, n \in Name : <<i, m>> \in c.new /\ <<j, n>> \in c.new => (i = j <=> m = n)
    BY <1>2, <2>2
  <2>5. NewOnes(c)'
    BY <1>1, <2>3, <2>4 DEF NewOnes
  <2>6. Renames(c)' /\ Keys(c)' /\ Counted(c)' /\ Told(c)'
    BY <1>1 DEF Renames, Keys, Counted, Told
  <2> QED
    BY <2>1, <2>5, <2>6 DEF TagSound
<1>5. ASSUME NEW h \in Req, h # r PROVE Apart(c, retag[h]) /\ Apart(retag[h], c)
  <2>1. PICK q \in TagRequest : q = retag[h]
    BY TagFacts
  <2>2. \A n \in none :
          /\ \A i \in Ta!Id : <<i, n>> \notin q.new
          /\ \A m \in Name : <<f[n], m>> \notin q.new
          /\ q.pc \in OfTag => q.old # f[n]
          /\ q.pc \in Moving => q.target # f[n]
          /\ q.pc \in Renaming => q.name # n
    BY <1>5, <2>1, MadeNames
  <2>3. q.old \in 0..MaxIds /\ q.target \in 0..MaxIds
    BY DEF TagRequest
  <2>4. /\ \A i, j \in Ta!Id, m, n \in Name : <<i, m>> \in c.new /\ <<j, n>> \in q.new => i # j /\ m # n
        /\ \A i, j \in Ta!Id, m, n \in Name : <<i, m>> \in q.new /\ <<j, n>> \in c.new => i # j /\ m # n
    BY <1>2, <2>2
  <2>5. /\ q.pc \in OfTag => \A n \in Name : <<q.old, n>> \notin c.new
        /\ q.pc \in Moving => \A n \in Name : <<q.target, n>> \notin c.new
        /\ q.pc \in Renaming => \A i \in Ta!Id : <<i, q.name>> \notin c.new
    BY <2>2
  <2>6. Apart(c, q)
    BY <1>1, <2>4 DEF Apart
  <2>7. Apart(q, c)
    BY <1>1, <2>4, <2>5 DEF Apart
  <2> QED
    BY <2>1, <2>6, <2>7
<1> QED
  BY <1>3, <1>4, <1>5, HeldStays

LEMMA KnownIds ==
    ASSUME Ta!TagConstants, TagsInv, NEW n \in Name
    PROVE  /\ Ta!Canonical(n) \subseteq Ta!Id /\ Ta!ByName(n) \subseteq Ta!Id
           /\ \A i \in Ta!Canonical(n) \cup Ta!ByName(n) : value[i] # NoName
           /\ Ta!ByName(n) = {} => synonym[n] = 0
<1>1. synonym[n] \in 0..MaxIds
  BY DEF TagsInv, TagTyped
<1>2. synonym[n] # 0 => synonym[n] \in Ta!Id
  BY <1>1 DEF Ta!Id, Ta!TagConstants
<1>3. \A i \in Ta!Canonical(n) \cup Ta!ByName(n) : value[i] # NoName
  BY DEF Ta!Canonical, Ta!ByName, Ta!TagConstants, TagsInv, TagLinks
<1> QED
  BY <1>2, <1>3 DEF Ta!Canonical, Ta!ByName

LEMMA EditResolveTags ==
    ASSUME Ta!TagConstants, TagsInv, NEW r \in Req, Ta!EditResolve(r)
    PROVE  TagsInv'
<1> DEFINE idsOf == [n \in Name |-> Ta!GetOrCreate(n)]
           adds == retag[r].chosen \ retag[r].had
           dels == retag[r].had \ retag[r].chosen
           none == Ta!Missing(idsOf, adds \cup dels)
           c(f) == [retag[r] EXCEPT !.pc = "lock", !.new = {<<f[n], n>> : n \in none},
                             !.add = Ta!Resolved(idsOf, adds) \cup {f[n] : n \in none \cap adds},
                             !.del = Ta!Resolved(idsOf, dels) \cup {f[n] : n \in none \cap dels}]
<1>1. PICK q \in TagRequest : q = retag[r] /\ TagSound(q)
  BY TagFacts
<1>2. /\ retag[r].pc = "resolve" /\ ids + Cardinality(none) <= MaxIds /\ \A n \in none : ~Ta!NameHeld(r, n)
      /\ ids' = ids + Cardinality(none)
      /\ UNCHANGED <<value, counter, synonym, tagged, posted, indexed, jobs, stale, short, unseen, twins, retags>>
      /\ \E f \in Ta!Drawn(none) : retag' = [retag EXCEPT ![r] = c(f)]
  BY TaCounts DEF Ta!EditResolve, Ta!Set, Ta!db, Ta!index, Ta!hist
<1>3. PICK f \in Ta!Drawn(none) : retag' = [retag EXCEPT ![r] = c(f)]
  BY <1>2
<1>4. adds \subseteq Name /\ dels \subseteq Name
  BY <1>1 DEF TagRequest
<1>5. \A n \in Name : idsOf[n] = Ta!GetOrCreate(n)
  OBVIOUS
<1>6. none \in SUBSET Name /\ \A n \in none : Ta!GetOrCreate(n) = {}
  <2> HIDE DEF idsOf, adds, dels
  <2> QED
    BY <1>4, <1>5 DEF Ta!Missing
<1>7. PICK made, ad, de :
        /\ made = {<<f[n], n>> : n \in none}
        /\ ad = Ta!Resolved(idsOf, adds) \cup {f[n] : n \in none \cap adds}
        /\ de = Ta!Resolved(idsOf, dels) \cup {f[n] : n \in none \cap dels}
  OBVIOUS
<1>8. retag' = [retag EXCEPT ![r] = [q EXCEPT !.pc = "lock", !.new = made, !.add = ad, !.del = de]]
  BY <1>1, <1>3, <1>7
<1> HIDE DEF none, adds, dels, idsOf
<1>9. \A n \in none : ~Ta!NameHeld(r, n) /\ Ta!Canonical(n) = {} /\ synonym[n] = 0
  BY <1>2, <1>6, KnownIds DEF Ta!GetOrCreate
<1>10. \A n \in none : f[n] \in Ta!Id
  BY <1>2, <1>3, <1>6, <1>9, MadeNames
<1>11. \A n \in Name : idsOf[n] \subseteq Ta!Id
  BY <1>5, KnownIds DEF Ta!GetOrCreate
<1>12. ad \subseteq Ta!Id /\ de \subseteq Ta!Id
  BY <1>4, <1>7, <1>10, <1>11 DEF Ta!Resolved
<1>13. made \subseteq Ta!Id \X Name
  BY <1>6, <1>7, <1>10
<1> DEFINE d == [q EXCEPT !.pc = "lock", !.new = made, !.add = ad, !.del = de]
<1>14. d \in TagRequest
  BY <1>12, <1>13, PhasesKnown DEF TagRequest
<1>15. q.ins = {} /\ q.rem = {} /\ q.hold = {}
  BY <1>1, <1>2 DEF TagSound, Shape, Inserting, Removing, Renaming
<1>16. d.pc \in {"lock", "insert"} /\ d.new = made /\ d.ins = {} /\ d.rem = {} /\ d.hold = {}
  BY <1>15 DEF TagRequest
<1>17. retags' \in 0..MaxTagRequests
  BY <1>2 DEF TagsInv, TagTyped
<1>18. retag[r].pc \notin {"queue", "reindex"}
  BY <1>2
<1> HIDE DEF d, c
<1>19. retag' = [retag EXCEPT ![r] = d]
  BY <1>8 DEF d
<1> QED
  BY ZenonT(40), <1>2, <1>6, <1>7, <1>9, <1>14, <1>16, <1>17, <1>18, <1>19, MakingStays

LEMMA PostTags ==
    ASSUME Ta!TagConstants, TagsInv, NEW r \in Req, NEW u \in Topic, NEW chosen \in SUBSET Name,
           Ta!Post(r, u, chosen)
    PROVE  TagsInv'
<1> DEFINE idsOf == [n \in Name |-> Ta!PostId(n)]
           none == Ta!Missing(idsOf, chosen)
           c(f) == [Ta!Idle EXCEPT !.pc = "insert", !.topic = u, !.chosen = chosen,
                                !.new = {<<f[n], n>> : n \in none},
                                !.add = Ta!Resolved(idsOf, chosen) \cup {f[n] : n \in none}]
<1>2. /\ Ta!Ask(r) /\ ids + Cardinality(none) <= MaxIds /\ \A n \in none : ~Ta!NameHeld(r, n)
      /\ ids' = ids + Cardinality(none)
      /\ UNCHANGED <<value, counter, synonym, tagged, posted, indexed, jobs, stale, short, unseen, twins>>
      /\ \E f \in Ta!Drawn(none) : retag' = [retag EXCEPT ![r] = c(f)]
  BY TaCounts DEF Ta!Post, Ta!Set, Ta!db, Ta!index, Ta!hist
<1>3. PICK f \in Ta!Drawn(none) : retag' = [retag EXCEPT ![r] = c(f)]
  BY <1>2
<1>5. \A n \in Name : idsOf[n] = Ta!PostId(n)
  OBVIOUS
<1>6. none \in SUBSET Name /\ \A n \in none : Ta!PostId(n) = {}
  <2> HIDE DEF idsOf
  <2> QED
    BY <1>5 DEF Ta!Missing
<1>7. PICK made, ad : /\ made = {<<f[n], n>> : n \in none}
                      /\ ad = Ta!Resolved(idsOf, chosen) \cup {f[n] : n \in none}
  OBVIOUS
<1>8. retag' = [retag EXCEPT ![r] = [Ta!Idle EXCEPT !.pc = "insert", !.topic = u, !.chosen = chosen,
                                             !.new = made, !.add = ad]]
  BY <1>3, <1>7
<1> HIDE DEF none, idsOf
<1>9. \A n \in none : ~Ta!NameHeld(r, n) /\ Ta!Canonical(n) = {} /\ synonym[n] = 0
  BY <1>2, <1>6, KnownIds DEF Ta!PostId, Ta!ByName
<1>10. \A n \in none : f[n] \in Ta!Id
  BY <1>2, <1>3, <1>6, <1>9, MadeNames
<1>11. \A n \in Name : idsOf[n] \subseteq Ta!Id
  BY <1>5, KnownIds DEF Ta!PostId
<1>12. ad \subseteq Ta!Id
  BY <1>7, <1>10, <1>11 DEF Ta!Resolved
<1>13. made \subseteq Ta!Id \X Name
  BY <1>6, <1>7, <1>10
<1> DEFINE d == [Ta!Idle EXCEPT !.pc = "insert", !.topic = u, !.chosen = chosen, !.new = made, !.add = ad]
<1>14. d \in TagRequest
  <2>1. Ta!Idle \in TagRequest
    BY IdleIsTagRequest
  <2> QED
    BY <1>12, <1>13, <2>1, PhasesKnown DEF TagRequest
<1>16. d.pc \in {"lock", "insert"} /\ d.new = made /\ d.ins = {} /\ d.rem = {} /\ d.hold = {}
  BY DEF Ta!Idle
<1>17. retags' \in 0..MaxTagRequests /\ retag[r].pc \notin {"queue", "reindex"}
  BY <1>2, AskedStays
<1> HIDE DEF d, c
<1>19. retag' = [retag EXCEPT ![r] = d]
  BY <1>8 DEF d
<1>20. /\ ids + Cardinality(none) <= MaxIds /\ ids' = ids + Cardinality(none)
       /\ UNCHANGED <<value, counter, synonym, tagged, posted, indexed, jobs, stale, short, unseen, twins>>
  BY <1>2
<1>21. none \in SUBSET Name /\ d.new = {<<f[n], n>> : n \in none}
  BY <1>6, <1>7, <1>16
<1> QED
  BY <1>9, <1>14, <1>16, <1>17, <1>19, <1>20, <1>21, MakingStays

\* A statement that draws no id.
LEMMA OwnStays ==
    ASSUME Ta!TagConstants, TagsInv, NEW r \in Req, NEW c \in TagRequest,
           retag' = [retag EXCEPT ![r] = c],
           UNCHANGED <<value, counter, synonym, tagged, posted, ids, indexed, jobs, stale, short, unseen, twins>>,
           retags' \in 0..MaxTagRequests,
           retag[r].pc \notin {"queue", "reindex"}, TagSound(c),
           \A h \in Req : h # r => Apart(c, retag[h]) /\ Apart(retag[h], c)
    PROVE  TagsInv'
<1>1. c.pc = "renamed" => c.affected \subseteq jobs' \cup stale'
  BY DEF TagSound, Told
<1>2. ids' \in 0..MaxIds /\ ids <= ids' /\ ids \in Int /\ ids' \in Int
  BY DEF TagsInv, TagTyped, Ta!TagConstants
<1>3. TagSound(c)'
  BY <1>1, <1>2, SoundStays
<1> QED
  BY <1>2, <1>3, HeldStays

\* One that makes, inserts and holds nothing more.
LEMMA LessStays ==
    ASSUME Ta!TagConstants, TagsInv, NEW r \in Req, NEW c \in TagRequest,
           retag' = [retag EXCEPT ![r] = c],
           UNCHANGED <<value, counter, synonym, tagged, posted, ids, indexed, jobs, retags, stale, short, unseen, twins>>,
           retag[r].pc \notin {"queue", "reindex"}, TagSound(c),
           c.new \subseteq retag[r].new, c.ins \subseteq retag[r].ins, c.hold \subseteq retag[r].hold,
           c.pc \in OfTag => retag[r].pc \in OfTag /\ c.old = retag[r].old,
           c.pc \in Moving => retag[r].pc \in Moving /\ c.target = retag[r].target,
           c.pc \in Renaming => retag[r].pc \in Renaming /\ c.name = retag[r].name
    PROVE  TagsInv'
<1>1. \A h \in Req : h # r => Apart(c, retag[h]) /\ Apart(retag[h], c)
  BY TagFacts, ApartStays
<1>2. retags' \in 0..MaxTagRequests
  BY DEF TagsInv, TagTyped
<1> QED
  BY <1>1, <1>2, OwnStays

LEMMA EditLockTags ==
    ASSUME Ta!TagConstants, TagsInv, NEW r \in Req, Ta!EditLock(r)
    PROVE  TagsInv'
<1>1. PICK q \in TagRequest : q = retag[r] /\ TagSound(q)
  BY TagFacts
<1> DEFINE c == [q EXCEPT !.pc = "edit", !.hold = q.add \cup q.del]
<1>2. /\ q.pc = "lock" /\ retag' = [retag EXCEPT ![r] = c]
      /\ \A i \in q.add \cup q.del : ~Ta!Locked(r, i)
      /\ UNCHANGED <<value, counter, synonym, tagged, posted, ids, indexed, jobs, stale, short, unseen, twins, retags>>
  BY <1>1 DEF Ta!EditLock, Ta!Set, Ta!db, Ta!index, Ta!hist
<1>3. c \in TagRequest
  BY PhasesKnown DEF TagRequest
<1>4. c.pc = "edit" /\ c.hold = q.add \cup q.del /\ c.new = q.new /\ c.ins = q.ins /\ c.rem = q.rem
      /\ c.add = q.add /\ c.del = q.del
  BY DEF TagRequest
<1>5. q.add \subseteq Ta!Id /\ q.del \subseteq Ta!Id
  BY DEF TagRequest
<1>6. q.ins = {} /\ q.rem = {}
  BY <1>1, <1>2 DEF TagSound, Shape, Inserting, Removing
<1> HIDE DEF c
<1>7. c.pc \in Making /\ c.pc \notin Renaming /\ c.pc \notin OfTag /\ c.pc \notin Moving
  BY <1>4 DEF Making, Renaming, OfTag, Moving
<1>8. TagSound(c)
  <2>1. Shape(c)
    BY <1>4, <1>6, <1>7 DEF Shape
  <2>2. NewOnes(c)
    BY <1>1, <1>4, <1>7 DEF NewOnes, TagSound
  <2>3. Renames(c) /\ Keys(c) /\ Counted(c) /\ Told(c)
    BY <1>4, <1>6, <1>7 DEF Renames, Keys, Counted, Told
  <2> QED
    BY <2>1, <2>2, <2>3 DEF TagSound
<1>9. ASSUME NEW h \in Req, h # r PROVE Apart(c, retag[h]) /\ Apart(retag[h], c)
  <2>1. PICK p \in TagRequest : p = retag[h] /\ Apart(q, p) /\ Apart(p, q)
    BY <1>1, <1>9, TagFacts
  <2>2. \A i \in c.hold : i \notin p.hold /\ \A u \in Topic : <<u, i>> \notin p.ins
    BY <1>2, <1>4, <1>9, <2>1 DEF Ta!Locked, Ta!Shares, Ta!Others
  <2>3. p.hold \subseteq Ta!Id
    BY DEF TagRequest
  <2>4. Apart(c, p)
    BY <1>4, <1>7, <2>1, <2>2 DEF Apart
  <2>5. Apart(p, c)
    BY <1>4, <1>6, <1>7, <2>1, <2>2 DEF Apart
  <2> QED
    BY <2>1, <2>4, <2>5
<1>10. retags' \in 0..MaxTagRequests
  BY <1>2 DEF TagsInv, TagTyped
<1>11. retag[r].pc \notin {"queue", "reindex"}
  BY <1>1, <1>2
<1> QED
  BY <1>2, <1>3, <1>8, <1>9, <1>10, <1>11, OwnStays

LEMMA EditWriteTags ==
    ASSUME Ta!TagConstants, TagsInv, NEW r \in Req, Ta!EditWrite(r)
    PROVE  TagsInv'
<1>1. PICK q \in TagRequest : q = retag[r] /\ TagSound(q)
  BY TagFacts
<1>2. PICK ins, rem : ins = ({q.topic} \X q.add) \ tagged /\ rem = ({q.topic} \X q.del) \cap tagged
  OBVIOUS
<1> DEFINE c == [q EXCEPT !.pc = "edited", !.ins = ins, !.rem = rem]
<1>3. /\ q.pc = "edit" /\ retag' = [retag EXCEPT ![r] = c]
      /\ \A i \in q.add : value[i] # NoName \/ \E n \in Name : <<i, n>> \in q.new
      /\ UNCHANGED <<value, counter, synonym, tagged, posted, ids, indexed, jobs, stale, short, unseen, twins, retags>>
  BY <1>1, <1>2 DEF Ta!EditWrite, Ta!Set, Ta!db, Ta!index, Ta!hist, Ta!Exists
<1>4. q.add \subseteq Ta!Id /\ q.del \subseteq Ta!Id /\ q.topic \in Topic
  BY DEF TagRequest
<1>5. ins \subseteq Topic \X Ta!Id /\ rem \subseteq Topic \X Ta!Id
  BY <1>2, <1>4
<1>6. c \in TagRequest
  BY <1>5, PhasesKnown DEF TagRequest
<1>7. c.pc = "edited" /\ c.hold = q.hold /\ c.new = q.new /\ c.ins = ins /\ c.rem = rem
      /\ c.add = q.add /\ c.del = q.del /\ c.topic = q.topic
  BY DEF TagRequest
<1> HIDE DEF c
<1>8. q.hold = q.add \cup q.del
  BY <1>1, <1>3 DEF TagSound, Shape
<1>9. c.pc \in Making /\ c.pc \in Inserting /\ c.pc \in Removing
      /\ c.pc \notin Renaming /\ c.pc \notin OfTag /\ c.pc \notin Moving
  BY <1>7 DEF Making, Inserting, Removing, Renaming, OfTag, Moving
<1>10. TagSound(c)
  <2>1. Shape(c)
    <3>1. c.ins \subseteq {c.topic} \X c.add /\ c.rem \subseteq {c.topic} \X c.del
      BY <1>2, <1>7
    <3> QED
      BY <1>7, <1>8, <1>9, <3>1 DEF Shape
  <2>2. NewOnes(c)
    BY <1>1, <1>7, <1>9 DEF NewOnes, TagSound
  <2>3. Keys(c)
    BY <1>2, <1>3, <1>7 DEF Keys
  <2>4. Renames(c) /\ Counted(c) /\ Told(c)
    BY <1>7, <1>9 DEF Renames, Counted, Told
  <2> QED
    BY <2>1, <2>2, <2>3, <2>4 DEF TagSound
<1>11. ASSUME NEW h \in Req, h # r PROVE Apart(c, retag[h]) /\ Apart(retag[h], c)
  <2>1. PICK p \in TagRequest : p = retag[h] /\ Apart(q, p) /\ Apart(p, q)
    BY <1>1, <1>11, TagFacts
  <2>2. \A i \in p.hold : i \notin q.hold
    BY <2>1 DEF Apart
  <2>3. \A i \in p.hold : \A u \in Topic : <<u, i>> \notin ins
    BY <1>2, <1>8, <2>2
  <2>4. Apart(c, p)
    BY <1>7, <1>9, <2>1 DEF Apart
  <2>5. Apart(p, c)
    BY <1>7, <1>9, <2>1, <2>3 DEF Apart
  <2> QED
    BY <2>1, <2>4, <2>5
<1>12. retags' \in 0..MaxTagRequests
  BY <1>3 DEF TagsInv, TagTyped
<1>13. retag[r].pc \notin {"queue", "reindex"}
  BY <1>1, <1>3
<1> QED
  BY <1>3, <1>6, <1>10, <1>11, <1>12, <1>13, OwnStays

LEMMA PostInsertTags ==
    ASSUME Ta!TagConstants, TagsInv, NEW r \in Req, Ta!PostInsert(r)
    PROVE  TagsInv'
<1>1. PICK q \in TagRequest : q = retag[r] /\ TagSound(q)
  BY TagFacts
<1>2. PICK ins : ins = {q.topic} \X q.add
  OBVIOUS
<1> DEFINE c == [q EXCEPT !.pc = "count", !.ins = ins]
<1>3. /\ q.pc = "insert" /\ retag' = [retag EXCEPT ![r] = c]
      /\ \A i \in q.add : ~Ta!Keyed(r, i) /\ (value[i] # NoName \/ \E n \in Name : <<i, n>> \in q.new)
      /\ UNCHANGED <<value, counter, synonym, tagged, posted, ids, indexed, jobs, stale, short, unseen, twins, retags>>
  BY <1>1, <1>2 DEF Ta!PostInsert, Ta!Set, Ta!db, Ta!index, Ta!hist, Ta!Exists
<1>4. q.add \subseteq Ta!Id /\ q.topic \in Topic
  BY DEF TagRequest
<1>5. ins \subseteq Topic \X Ta!Id
  BY <1>2, <1>4
<1>6. c \in TagRequest
  BY <1>5, PhasesKnown DEF TagRequest
<1>7. c.pc = "count" /\ c.hold = q.hold /\ c.new = q.new /\ c.ins = ins /\ c.rem = q.rem
      /\ c.add = q.add /\ c.topic = q.topic
  BY DEF TagRequest
<1> HIDE DEF c
<1>8. q.hold = {} /\ q.rem = {}
  BY <1>1, <1>3 DEF TagSound, Shape, Renaming, Removing
<1>9. c.pc \in Making /\ c.pc \in Inserting /\ c.pc \notin {"edit", "edited"} \cup Renaming
      /\ c.pc \notin Renaming /\ c.pc \notin OfTag /\ c.pc \notin Moving
  BY <1>7 DEF Making, Inserting, Renaming, OfTag, Moving
<1>10. TagSound(c)
  <2>1. Shape(c)
    BY <1>2, <1>7, <1>8, <1>9 DEF Shape
  <2>2. NewOnes(c)
    BY <1>1, <1>7, <1>9 DEF NewOnes, TagSound
  <2>3. Keys(c)
    BY <1>2, <1>3, <1>7 DEF Keys
  <2>4. Renames(c) /\ Counted(c) /\ Told(c)
    BY <1>7, <1>9 DEF Renames, Counted, Told
  <2> QED
    BY <2>1, <2>2, <2>3, <2>4 DEF TagSound
<1>11. ASSUME NEW h \in Req, h # r PROVE Apart(c, retag[h]) /\ Apart(retag[h], c)
  <2>1. PICK p \in TagRequest : p = retag[h] /\ Apart(q, p) /\ Apart(p, q)
    BY <1>1, <1>11, TagFacts
  <2>2. \A i \in p.hold : i \notin q.add
    BY <1>3, <1>11, <2>1 DEF Ta!Keyed, Ta!Others
  <2>3. \A i \in p.hold : \A u \in Topic : <<u, i>> \notin ins
    BY <1>2, <2>2
  <2>4. Apart(c, p)
    BY <1>7, <1>9, <2>1 DEF Apart
  <2>5. Apart(p, c)
    BY <1>7, <1>9, <2>1, <2>3 DEF Apart
  <2> QED
    BY <2>1, <2>4, <2>5
<1>12. retags' \in 0..MaxTagRequests
  BY <1>3 DEF TagsInv, TagTyped
<1>13. retag[r].pc \notin {"queue", "reindex"}
  BY <1>1, <1>3
<1> QED
  BY <1>3, <1>6, <1>10, <1>11, <1>12, <1>13, OwnStays

LEMMA TopicsOfTag ==
    ASSUME Ta!TagConstants, NEW i, NEW X, X \subseteq Topic \X Ta!Id, NEW T, \A u \in T : <<u, i>> \in X
    PROVE  /\ Cardinality({x \in X : x[2] = i}) \in Nat
           /\ Cardinality(T) <= Cardinality({x \in X : x[2] = i})
<1> DEFINE Y == {x \in X : x[2] = i}
           f == [u \in T |-> <<u, i>>]
<1>1. IsFiniteSet(Ta!Id)
  BY FS_Interval, TaFinite DEF Ta!Id, Ta!TagConstants
<1>2. IsFiniteSet(Topic \X Ta!Id)
  BY <1>1, FS_Product, TaFinite DEF Ta!TagConstants
<1>3. Y \in SUBSET (Topic \X Ta!Id)
  OBVIOUS
<1>4. IsFiniteSet(Y) /\ Cardinality(Y) \in Nat
  BY <1>2, <1>3, FS_Subset, FS_CardinalityType
<1>5. f \in [T -> Y]
  OBVIOUS
<1>6. \A a, b \in T : f[a] = f[b] => a = b
  OBVIOUS
<1>7. f \in Injection(T, Y)
  BY <1>5, <1>6 DEF Injection, IsInjective
<1> HIDE DEF f
<1>8. Cardinality(T) <= Cardinality(Y)
  BY <1>4, <1>7, FS_Injection
<1> QED
  BY <1>4, <1>8

LEMMA PostCountTags ==
    ASSUME Ta!TagConstants, TagsInv, NEW r \in Req, Ta!PostCount(r)
    PROVE  TagsInv'
<1>1. PICK q \in TagRequest : q = retag[r] /\ TagSound(q)
  BY TagFacts
<1>2. PICK counts : counts = [i \in Ta!Id |-> Ta!CountOf(r, i)]
  OBVIOUS
<1> DEFINE c == [q EXCEPT !.pc = "post", !.n = counts]
<1>3. /\ q.pc = "count" /\ retag' = [retag EXCEPT ![r] = c]
      /\ UNCHANGED <<value, counter, synonym, tagged, posted, ids, indexed, jobs, stale, short, unseen, twins, retags>>
  BY <1>1, <1>2, TaCounts DEF Ta!PostCount, Ta!Set, Ta!db, Ta!index, Ta!hist
<1>4. q.add \subseteq Ta!Id /\ q.topic \in Topic /\ q.ins \subseteq Topic \X Ta!Id
  BY DEF TagRequest
<1>5. q.ins = {q.topic} \X q.add /\ q.hold = {} /\ q.rem = {}
  BY <1>1, <1>3 DEF TagSound, Shape, Renaming, Removing
<1>6. tagged \cup q.ins \subseteq Topic \X Ta!Id
  BY <1>4 DEF TagsInv, TagTyped
<1>7. ASSUME NEW i \in Ta!Id PROVE counts[i] \in Nat
  <2>1. counts[i] = Cardinality({x \in tagged \cup q.ins : x[2] = i})
    BY <1>1, <1>2, TaCounts DEF Ta!CountOf
  <2> DEFINE X == tagged \cup q.ins
             E == {}
  <2>3. X \subseteq Topic \X Ta!Id /\ \A u \in E : <<u, i>> \in X
    BY <1>6
  <2> HIDE DEF X, E
  <2>4. Cardinality({x \in X : x[2] = i}) \in Nat
    BY <2>3, TopicsOfTag
  <2> QED
    BY <2>1, <2>4 DEF X
<1>8. ASSUME NEW i \in q.add PROVE Cardinality(Ta!With(i) \cup {q.topic}) <= counts[i]
  <2>1. i \in Ta!Id
    BY <1>4
  <2>2. counts[i] = Cardinality({x \in tagged \cup q.ins : x[2] = i})
    BY <1>1, <1>2, <2>1, TaCounts DEF Ta!CountOf
  <2>3. \A u \in Ta!With(i) \cup {q.topic} : <<u, i>> \in tagged \cup q.ins
    BY <1>5 DEF Ta!With
  <2> QED
    BY <1>6, <2>2, <2>3, TopicsOfTag
<1>9. counts \in [Ta!Id -> Nat]
  BY <1>2, <1>7
<1>10. c \in TagRequest
  BY <1>9, PhasesKnown DEF TagRequest
<1>11. c.pc = "post" /\ c.hold = q.hold /\ c.new = q.new /\ c.ins = q.ins /\ c.rem = q.rem
      /\ c.add = q.add /\ c.topic = q.topic /\ c.n = counts
  BY DEF TagRequest
<1> HIDE DEF c
<1>12. c.pc \in Making /\ c.pc \in Inserting /\ c.pc \notin {"edit", "edited"} \cup Renaming
      /\ c.pc \notin Renaming /\ c.pc \notin OfTag /\ c.pc \notin Moving
  BY <1>11 DEF Making, Inserting, Renaming, OfTag, Moving
<1>13. TagSound(c)
  <2>1. Shape(c)
    BY <1>5, <1>11, <1>12 DEF Shape
  <2>2. NewOnes(c)
    BY <1>1, <1>11, <1>12 DEF NewOnes, TagSound
  <2>3. Keys(c)
    BY <1>1, <1>11 DEF Keys, TagSound
  <2>4. Renames(c) /\ Counted(c) /\ Told(c)
    BY <1>8, <1>11, <1>12 DEF Renames, Counted, Told
  <2> QED
    BY <2>1, <2>2, <2>3, <2>4 DEF TagSound
<1>14. retag[r].pc \notin {"queue", "reindex"} /\ c.new \subseteq retag[r].new
       /\ c.ins \subseteq retag[r].ins /\ c.hold \subseteq retag[r].hold
  BY <1>1, <1>3, <1>11
<1> QED
  BY <1>3, <1>10, <1>12, <1>13, <1>14, LessStays

\* The hourly count holds nothing; what it has counted is what it has seen.
LEMMA SweepTags ==
    ASSUME Ta!TagConstants, TagsInv, NEW r \in Req, NEW none \in SUBSET posted, Ta!Sweep(r, none)
    PROVE  TagsInv'
<1>1. PICK adds, counts, rest :
        /\ adds = {i \in Ta!Id : value[i] # NoName}
        /\ counts = [i \in Ta!Id |-> Cardinality(Ta!With(i) \ none)]
        /\ rest = {x \in tagged : x[1] \in none}
  OBVIOUS
<1> DEFINE c == [Ta!Idle EXCEPT !.pc = "sweep", !.add = adds, !.n = counts, !.hidden = rest]
<1>2. /\ Ta!Ask(r) /\ retag' = [retag EXCEPT ![r] = c]
      /\ UNCHANGED <<value, counter, synonym, tagged, posted, ids, indexed, jobs, stale, short, unseen, twins>>
  BY <1>1, TaCounts DEF Ta!Sweep, Ta!Set, Ta!db, Ta!index, Ta!hist, Ta!Exists
<1>3. \A i \in Ta!Id : Cardinality(Ta!With(i) \ none) \in Nat
  <2>1. \A i \in Ta!Id : Ta!With(i) \ none \in SUBSET Topic
    BY DEF Ta!With
  <2> QED
    BY <2>1, FS_Subset, FS_CardinalityType, TaFinite DEF Ta!TagConstants
<1>4. counts \in [Ta!Id -> Nat] /\ adds \subseteq Ta!Id
  BY <1>1, <1>3
<1>5. rest \subseteq Topic \X Ta!Id
  BY <1>1 DEF TagsInv, TagTyped
<1>6. c \in TagRequest
  <2> HIDE DEF Ta!Id
  <2> QED
    BY <1>4, <1>5, IdleIsTagRequest, PhasesKnown DEF TagRequest
<1>7. c.pc = "sweep" /\ c.new = {} /\ c.ins = {} /\ c.rem = {} /\ c.hold = {}
      /\ c.add = adds /\ c.n = counts /\ c.hidden = rest
  BY DEF Ta!Idle
<1> HIDE DEF c
<1>8. /\ c.pc \notin Making /\ c.pc \notin Inserting /\ c.pc \notin Removing /\ c.pc \notin Moving
      /\ c.pc \notin Renaming /\ c.pc \notin OfTag
      /\ c.pc \notin {"edit", "edited", "count", "post", "copy", "clear", "raise", "merged", "deleted",
                      "renamed", "merge", "rename", "cleared"}
  BY <1>7 DEF Making, Inserting, Removing, Moving, Renaming, OfTag
<1>9. ASSUME NEW i \in c.add PROVE Cardinality(SeenBy(c, i)) <= c.n[i]
  <2>1. i \in Ta!Id
    BY <1>4, <1>7
  <2>2. \A u \in Topic : <<u, i>>[1] = u
    OBVIOUS
  <2>3. SeenBy(c, i) = Ta!With(i) \ none
    BY <1>1, <1>7, <2>2 DEF SeenBy, Ta!With
  <2> QED
    BY <1>1, <1>3, <1>7, <2>1, <2>3
<1>10. TagSound(c)
  <2>1. Shape(c)
    BY <1>7, <1>8 DEF Shape
  <2>2. NewOnes(c) /\ Keys(c)
    BY <1>7, <1>8 DEF NewOnes, Keys
  <2>3. Renames(c) /\ Counted(c) /\ Told(c)
    BY <1>8, <1>9 DEF Renames, Counted, Told
  <2> QED
    BY <2>1, <2>2, <2>3 DEF TagSound
<1>11. \A h \in Req : h # r => Apart(c, retag[h]) /\ Apart(retag[h], c)
  BY <1>7, <1>8 DEF Apart
<1>12. retags' \in 0..MaxTagRequests /\ retag[r].pc \notin {"queue", "reindex"}
  BY <1>2, AskedStays
<1> QED
  BY <1>2, <1>6, <1>10, <1>11, <1>12, OwnStays

-----------------------------------------------------------------------------
(* Renames, deletions and merges begin with a tag that exists. *)

LEMMA OfTagStays ==
    ASSUME Ta!TagConstants, TagsInv, NEW r \in Req, NEW c \in TagRequest,
           retag' = [retag EXCEPT ![r] = c], Ta!Ask(r),
           UNCHANGED <<value, counter, synonym, tagged, posted, ids, indexed, jobs, stale, short, unseen, twins>>,
           c.pc \in {"rename", "delete", "merge"}, c.old \in Ta!Id, value[c.old] # NoName,
           c.pc \in {"rename", "merge"} => c.name \in Name,
           c.pc = "merge" => \E n \in Name : c.chosen = {n} /\ n # c.name,
           c.new = {}, c.ins = {}, c.rem = {}, c.hold = {}
    PROVE  TagsInv'
<1>1. /\ c.pc \in OfTag /\ c.pc \notin Moving /\ c.pc \notin Renaming /\ c.pc \notin {"edit", "edited"} \cup Renaming
      /\ c.pc \notin {"edit", "edited", "count", "post", "copy", "clear", "raise", "merged", "deleted", "renamed"}
  BY DEF OfTag, Moving, Renaming
<1>2. TagSound(c)
  <2>1. Shape(c)
    BY <1>1 DEF Shape
  <2>2. c.old <= ids
    BY DEF TagsInv, TagLinks
  <2>3. NewOnes(c)
    BY <1>1, <2>2 DEF NewOnes
  <2>4. Renames(c) /\ Keys(c) /\ Counted(c) /\ Told(c)
    BY <1>1 DEF Renames, Keys, Counted, Told
  <2> QED
    BY <2>1, <2>3, <2>4 DEF TagSound
<1>3. ASSUME NEW h \in Req, h # r PROVE Apart(c, retag[h]) /\ Apart(retag[h], c)
  <2>1. PICK p \in TagRequest : p = retag[h] /\ TagSound(p)
    BY TagFacts
  <2>2. \A n \in Name : <<c.old, n>> \notin p.new
    BY <2>1 DEF TagSound, NewOnes
  <2>3. Apart(c, p) /\ Apart(p, c)
    BY <1>1, <2>2 DEF Apart
  <2> QED
    BY <2>1, <2>3
<1>4. retags' \in 0..MaxTagRequests /\ retag[r].pc \notin {"queue", "reindex"}
  BY AskedStays
<1> QED
  BY <1>2, <1>3, <1>4, OwnStays

LEMMA RenameTags ==
    ASSUME Ta!TagConstants, TagsInv, NEW r \in Req, NEW i \in Ta!Id, NEW n \in Name, Ta!Rename(r, i, n)
    PROVE  TagsInv'
<1> DEFINE c == [Ta!Idle EXCEPT !.pc = "rename", !.old = i, !.name = n]
<1>1. /\ Ta!Ask(r) /\ value[i] # NoName /\ retag' = [retag EXCEPT ![r] = c]
      /\ UNCHANGED <<value, counter, synonym, tagged, posted, ids, indexed, jobs, stale, short, unseen, twins>>
  BY DEF Ta!Rename, Ta!Set, Ta!db, Ta!index, Ta!hist, Ta!Exists
<1>2. i \in 0..MaxIds
  BY DEF Ta!Id, Ta!TagConstants
<1>3. c \in TagRequest
  BY <1>2, IdleIsTagRequest, PhasesKnown DEF TagRequest
<1>4. c.pc = "rename" /\ c.old = i /\ c.name = n /\ c.new = {} /\ c.ins = {} /\ c.rem = {} /\ c.hold = {}
  BY DEF Ta!Idle
<1> HIDE DEF c
<1> QED
  BY <1>1, <1>3, <1>4, OfTagStays

LEMMA DeleteTags ==
    ASSUME Ta!TagConstants, TagsInv, NEW r \in Req, NEW i \in Ta!Id, Ta!Delete(r, i)
    PROVE  TagsInv'
<1> DEFINE c == [Ta!Idle EXCEPT !.pc = "delete", !.old = i, !.affected = Ta!With(i)]
<1>1. /\ Ta!Ask(r) /\ value[i] # NoName /\ retag' = [retag EXCEPT ![r] = c]
      /\ UNCHANGED <<value, counter, synonym, tagged, posted, ids, indexed, jobs, stale, short, unseen, twins>>
  BY DEF Ta!Delete, Ta!Set, Ta!db, Ta!index, Ta!hist, Ta!Exists
<1>2. i \in 0..MaxIds /\ Ta!With(i) \subseteq Topic
  BY DEF Ta!Id, Ta!TagConstants, Ta!With
<1>3. c \in TagRequest
  BY <1>2, IdleIsTagRequest, PhasesKnown DEF TagRequest
<1>4. c.pc = "delete" /\ c.old = i /\ c.new = {} /\ c.ins = {} /\ c.rem = {} /\ c.hold = {}
  BY DEF Ta!Idle
<1> HIDE DEF c
<1> QED
  BY <1>1, <1>3, <1>4, OfTagStays

LEMMA MergeTags ==
    ASSUME Ta!TagConstants, TagsInv, NEW r \in Req, NEW i \in Ta!Id, NEW n \in Name, NEW syn \in BOOLEAN,
           Ta!Merge(r, i, n, syn)
    PROVE  TagsInv'
<1> DEFINE c == [Ta!Idle EXCEPT !.pc = "merge", !.old = i, !.name = value[i], !.chosen = {n}, !.syn = syn]
<1>1. /\ Ta!Ask(r) /\ value[i] # NoName /\ n # value[i] /\ retag' = [retag EXCEPT ![r] = c]
      /\ UNCHANGED <<value, counter, synonym, tagged, posted, ids, indexed, jobs, stale, short, unseen, twins>>
  BY DEF Ta!Merge, Ta!Set, Ta!db, Ta!index, Ta!hist, Ta!Exists
<1>2. i \in 0..MaxIds /\ value[i] \in Name
  BY <1>1 DEF Ta!Id, Ta!TagConstants, TagsInv, TagTyped
<1>3. c \in TagRequest
  BY ZenonT(40), <1>2, IdleIsTagRequest, PhasesKnown DEF TagRequest
<1>4. c.pc = "merge" /\ c.old = i /\ c.name = value[i] /\ c.chosen = {n}
      /\ c.new = {} /\ c.ins = {} /\ c.rem = {} /\ c.hold = {}
  BY DEF Ta!Idle
<1> HIDE DEF c
<1>5. c.name \in Name /\ n # c.name
  BY <1>1, <1>2, <1>4
<1> QED
  BY <1>1, <1>3, <1>4, <1>5, OfTagStays

LEMMA RenameClearTags ==
    ASSUME Ta!TagConstants, TagsInv, NEW r \in Req, Ta!RenameClear(r)
    PROVE  TagsInv'
<1>1. PICK q \in TagRequest : q = retag[r] /\ TagSound(q)
  BY TagFacts
<1>2. PICK syn : syn = (synonym[q.name] # 0)
  OBVIOUS
<1> DEFINE c == [q EXCEPT !.pc = "cleared", !.syn = syn]
<1>3. /\ q.pc = "rename" /\ retag' = [retag EXCEPT ![r] = c]
      /\ UNCHANGED <<value, counter, synonym, tagged, posted, ids, indexed, jobs, stale, short, unseen, twins, retags>>
  BY <1>1, <1>2 DEF Ta!RenameClear, Ta!Set, Ta!db, Ta!index, Ta!hist
<1>4. c \in TagRequest
  <2>1. syn \in BOOLEAN
    BY <1>2
  <2> QED
    BY ZenonT(40), <2>1, PhasesKnown DEF TagRequest
<1>5. c.pc = "cleared" /\ c.hold = q.hold /\ c.new = q.new /\ c.ins = q.ins /\ c.rem = q.rem
      /\ c.old = q.old /\ c.name = q.name
  BY DEF TagRequest
<1> HIDE DEF c
<1>6. /\ \A p \in {q, c} : /\ p.pc \in OfTag /\ p.pc \notin Making /\ p.pc \notin Inserting
                          /\ p.pc \notin Removing /\ p.pc \notin Moving /\ p.pc \notin Renaming
      /\ \A p \in {q, c} : p.pc \notin {"edit", "edited"} \cup Renaming
      /\ c.pc \notin {"edit", "edited", "count", "post", "copy", "clear", "raise", "merged", "deleted",
                      "renamed", "merge", "sweep"}
  BY <1>3, <1>5 DEF OfTag, Making, Inserting, Removing, Moving, Renaming
<1>7. TagSound(c)
  <2>1. Shape(c)
    BY <1>1, <1>3, <1>5, <1>6 DEF Shape, TagSound
  <2>2. NewOnes(c)
    BY <1>1, <1>5, <1>6 DEF NewOnes, TagSound
  <2>3. Keys(c)
    BY <1>1, <1>5 DEF Keys, TagSound
  <2>4. Renames(c) /\ Counted(c) /\ Told(c)
    BY <1>6 DEF Renames, Counted, Told
  <2> QED
    BY <2>1, <2>2, <2>3, <2>4 DEF TagSound
<1>8. retag[r].pc \notin {"queue", "reindex"} /\ c.new \subseteq retag[r].new
      /\ c.ins \subseteq retag[r].ins /\ c.hold \subseteq retag[r].hold
      /\ retag[r].pc \in OfTag /\ c.old = retag[r].old
  BY <1>1, <1>3, <1>5, <1>6
<1> QED
  BY <1>3, <1>4, <1>6, <1>7, <1>8, LessStays

LEMMA RenameWriteTags ==
    ASSUME Ta!TagConstants, TagsInv, NEW r \in Req, Ta!RenameWrite(r)
    PROVE  TagsInv'
<1>1. PICK q \in TagRequest : q = retag[r] /\ TagSound(q)
  BY TagFacts
<1>2. PICK hold, affected : hold = {q.old} /\ affected = Ta!With(q.old)
  OBVIOUS
<1> DEFINE c == [q EXCEPT !.pc = "tell", !.hold = hold, !.affected = affected]
<1>3. /\ q.pc = "cleared" /\ retag' = [retag EXCEPT ![r] = c] /\ ~Ta!Locked(r, q.old) /\ ~Ta!NameHeld(r, q.name)
      /\ Ta!Canonical(q.name) = {} \/ value[q.old] = NoName
      /\ UNCHANGED <<value, counter, synonym, tagged, posted, ids, indexed, jobs, stale, short, unseen, twins, retags>>
  BY <1>1, <1>2 DEF Ta!RenameWrite, Ta!Set, Ta!db, Ta!index, Ta!hist, Ta!Exists
<1>4. q.pc \in OfTag /\ q.pc \notin Making /\ q.pc \notin Inserting /\ q.pc \notin Removing
  BY <1>3 DEF OfTag, Making, Inserting, Removing
<1>5. q.old \in Ta!Id /\ q.name \in Name /\ q.new = {} /\ q.ins = {} /\ q.rem = {} /\ q.old <= ids
  BY <1>1, <1>3, <1>4 DEF TagSound, Shape, NewOnes
<1>6. hold \subseteq Ta!Id /\ affected \subseteq Topic
  BY <1>2, <1>5 DEF Ta!With
<1>7. c \in TagRequest
  BY <1>6, PhasesKnown DEF TagRequest
<1>8. c.pc = "tell" /\ c.hold = {q.old} /\ c.new = {} /\ c.ins = {} /\ c.rem = {}
      /\ c.old = q.old /\ c.name = q.name /\ c.affected = Ta!With(q.old)
  BY <1>2, <1>5 DEF TagRequest
<1> HIDE DEF c
<1>9. c.pc \in Renaming /\ c.pc \in OfTag /\ c.pc \notin Moving /\ c.pc \notin {"edit", "edited"}
  BY <1>8 DEF Renaming, OfTag, Moving
<1>10. TagSound(c)
  <2>1. Shape(c)
    BY <1>5, <1>8, <1>9 DEF Shape
  <2>2. NewOnes(c)
    BY <1>5, <1>8, <1>9 DEF NewOnes
  <2>3. Renames(c)
    BY <1>3, <1>5, <1>8 DEF Renames, Ta!Canonical, Ta!With
  <2>4. Keys(c) /\ Counted(c) /\ Told(c)
    BY <1>8 DEF Keys, Counted, Told
  <2> QED
    BY <2>1, <2>2, <2>3, <2>4 DEF TagSound
<1>11. ASSUME NEW h \in Req, h # r PROVE Apart(c, retag[h]) /\ Apart(retag[h], c)
  <2>1. PICK p \in TagRequest : p = retag[h] /\ TagSound(p) /\ Apart(q, p) /\ Apart(p, q)
    BY <1>1, <1>11, TagFacts
  <2>2. q.old \notin p.hold /\ \A u \in Topic : <<u, q.old>> \notin p.ins
    BY <1>3, <1>11, <2>1 DEF Ta!Locked, Ta!Shares, Ta!Others
  <2>3. /\ \A i \in Ta!Id : <<i, q.name>> \notin p.new
        /\ p.pc \in Renaming => p.name # q.name
    BY <1>3, <1>11, <2>1 DEF Ta!NameHeld, Ta!Others, Renaming
  <2>4. \A n \in Name : <<q.old, n>> \notin p.new
    BY <1>4, <2>1 DEF Apart
  <2>5. Apart(c, p)
    BY <1>8, <1>9, <2>2, <2>3, <2>4 DEF Apart
  <2>6. Apart(p, c)
    BY <1>8, <1>9, <2>2, <2>3 DEF Apart
  <2> QED
    BY <2>1, <2>5, <2>6
<1>12. retags' \in 0..MaxTagRequests
  BY <1>3 DEF TagsInv, TagTyped
<1>13. retag[r].pc \notin {"queue", "reindex"}
  BY <1>1, <1>3
<1> QED
  BY <1>3, <1>7, <1>10, <1>11, <1>12, <1>13, OwnStays

LEMMA RenameQueueTags ==
    ASSUME Ta!TagConstants, TagsInv, NEW r \in Req, Ta!RenameQueue(r)
    PROVE  TagsInv'
<1>1. PICK q \in TagRequest : q = retag[r] /\ TagSound(q)
  BY TagFacts
<1> DEFINE c == [q EXCEPT !.pc = "renamed"]
<1>2. /\ q.pc = "tell" /\ retag' = [retag EXCEPT ![r] = c] /\ jobs' = jobs \cup q.affected
      /\ UNCHANGED <<value, counter, synonym, tagged, posted, ids, indexed, stale, short, unseen, twins, retags>>
  BY <1>1 DEF Ta!RenameQueue, Ta!RenameTells, Ta!Set, Ta!db, Ta!hist
<1>3. c \in TagRequest
  BY DEF TagRequest, TagPc, OfTag, Renaming
<1>4. c.pc = "renamed" /\ c.hold = q.hold /\ c.new = q.new /\ c.ins = q.ins /\ c.rem = q.rem
      /\ c.old = q.old /\ c.name = q.name /\ c.affected = q.affected
  BY DEF TagRequest
<1> HIDE DEF c
<1>5. /\ c.pc \in Renaming /\ c.pc \in OfTag /\ c.pc \notin Moving /\ c.pc \notin {"edit", "edited"}
      /\ q.pc \in Renaming /\ q.pc \in OfTag /\ q.pc \notin Making /\ q.pc \notin Inserting /\ q.pc \notin Removing
  BY <1>2, <1>4 DEF Renaming, OfTag, Moving, Making, Inserting, Removing
<1>6. TagSound(c)'
  <2>1. Shape(c)
    BY <1>1, <1>2, <1>4, <1>5 DEF Shape, TagSound
  <2>2. NewOnes(c)'
    BY <1>1, <1>2, <1>4, <1>5 DEF NewOnes, TagSound
  <2>3. Renames(c)' /\ Keys(c)'
    BY <1>1, <1>2, <1>4, <1>5 DEF Renames, Keys, TagSound
  <2>4. Counted(c)' /\ Told(c)'
    BY <1>2, <1>4 DEF Counted, Told
  <2> QED
    BY <2>1, <2>2, <2>3, <2>4 DEF TagSound
<1>7. \A h \in Req : h # r => Apart(c, retag[h]) /\ Apart(retag[h], c)
  BY <1>1, <1>4, <1>5, TagFacts, ApartStays
<1>8. retags' \in 0..MaxTagRequests /\ ids' \in 0..MaxIds /\ ids <= ids'
  BY <1>2 DEF TagsInv, TagTyped, Ta!TagConstants
<1>9. jobs' \subseteq Topic
  BY <1>2 DEF TagsInv, TagTyped, TagRequest
<1>10. \A u : ~Awaited(retag[r], u)
  BY <1>1, <1>2 DEF Awaited
<1> QED
  BY <1>2, <1>3, <1>6, <1>7, <1>8, <1>9, <1>10, StatementStays

LEMMA DeleteRowsTags ==
    ASSUME Ta!TagConstants, TagsInv, NEW r \in Req, Ta!DeleteRows(r)
    PROVE  TagsInv'
<1>1. PICK q \in TagRequest : q = retag[r] /\ TagSound(q)
  BY TagFacts
<1>2. PICK gone : gone = {x \in tagged : x[2] = q.old}
  OBVIOUS
<1> DEFINE c == [q EXCEPT !.pc = "deleted", !.rem = gone]
<1>3. /\ q.pc = "delete" /\ retag' = [retag EXCEPT ![r] = c]
      /\ UNCHANGED <<value, counter, synonym, tagged, posted, ids, indexed, jobs, stale, short, unseen, twins, retags>>
  BY <1>1, <1>2 DEF Ta!DeleteRows, Ta!Set, Ta!db, Ta!index, Ta!hist
<1>4. gone \subseteq Topic \X {q.old} /\ gone \subseteq Topic \X Ta!Id
  BY <1>2 DEF TagsInv, TagTyped
<1>5. c \in TagRequest
  BY <1>4, PhasesKnown DEF TagRequest
<1>6. c.pc = "deleted" /\ c.hold = q.hold /\ c.new = q.new /\ c.ins = q.ins /\ c.rem = gone /\ c.old = q.old
  BY DEF TagRequest
<1> HIDE DEF c
<1>7. /\ c.pc \in OfTag /\ c.pc \in Removing /\ c.pc \notin Moving /\ c.pc \notin {"edit", "edited"}
      /\ c.pc \notin Renaming /\ c.pc \notin {"edit", "edited"} \cup Renaming
      /\ q.pc \in OfTag /\ q.pc \notin Making /\ q.pc \notin Inserting /\ q.pc \notin {"edit", "edited"} \cup Renaming
  BY <1>3, <1>6 DEF Renaming, OfTag, Moving, Making, Inserting, Removing
<1>8. TagSound(c)
  <2>1. Shape(c)
    BY <1>1, <1>3, <1>4, <1>6, <1>7 DEF Shape, TagSound
  <2>2. NewOnes(c)
    BY <1>1, <1>3, <1>6, <1>7 DEF NewOnes, TagSound
  <2>3. Keys(c)
    BY <1>1, <1>6 DEF Keys, TagSound
  <2>4. Renames(c) /\ Counted(c) /\ Told(c)
    BY <1>6, <1>7 DEF Renames, Counted, Told
  <2> QED
    BY <2>1, <2>2, <2>3, <2>4 DEF TagSound
<1>9. retag[r].pc \notin {"queue", "reindex"} /\ c.new \subseteq retag[r].new
       /\ c.ins \subseteq retag[r].ins /\ c.hold \subseteq retag[r].hold
       /\ retag[r].pc \in OfTag /\ c.old = retag[r].old
  BY <1>1, <1>3, <1>6, <1>7
<1> QED
  BY <1>3, <1>5, <1>7, <1>8, <1>9, LessStays

\* A merge that knows its target: a tag that is there, or one that it makes.
LEMMA MergeResolveTags ==
    ASSUME Ta!TagConstants, TagsInv, NEW r \in Req, Ta!MergeResolve(r)
    PROVE  TagsInv'
<1>1. PICK q \in TagRequest : q = retag[r] /\ TagSound(q)
  BY TagFacts
<1>2. q.pc = "merge" /\ retag[r].pc \notin {"queue", "reindex"}
      /\ UNCHANGED <<value, counter, synonym, tagged, posted, indexed, jobs, stale, short, unseen, twins, retags>>
  BY <1>1 DEF Ta!MergeResolve, Ta!db, Ta!index, Ta!hist
<1>3. PICK n \in Name : q.chosen = {n} /\ n # q.name
  BY <1>1, <1>2 DEF TagSound, Shape
<1>4. (CHOOSE m \in retag[r].chosen : TRUE) = n
  BY <1>1, <1>3
<1>5. q.pc \in OfTag /\ q.pc \notin Making /\ q.pc \notin Inserting /\ q.pc \notin Removing
      /\ q.pc \notin {"edit", "edited"} \cup Renaming
  BY <1>2 DEF OfTag, Making, Inserting, Removing, Renaming, Moving
<1>6. q.old \in Ta!Id /\ q.name \in Name /\ q.new = {} /\ q.ins = {} /\ q.rem = {} /\ q.hold = {} /\ q.old <= ids
  BY <1>1, <1>2, <1>5 DEF TagSound, Shape, NewOnes
<1>7. retags' \in 0..MaxTagRequests
  BY <1>2 DEF TagsInv, TagTyped
<1>8. "mcount" \in TagPc /\ "mcount" \in Moving /\ "mcount" \in OfTag /\ "mcount" \in Making
      /\ "mcount" \notin Renaming /\ "mcount" \notin Inserting /\ "mcount" \notin Removing
      /\ "mcount" \notin {"edit", "edited"} \cup Renaming
  BY DEF TagPc, Moving, OfTag, Making, Renaming, Inserting, Removing
<1>9. CASE Ta!GetOrCreate(n) # {}
  <2>1. PICK i \in Ta!GetOrCreate(n) \ {q.old} :
           retag' = [retag EXCEPT ![r] = [q EXCEPT !.pc = "mcount", !.chosen = {}, !.target = i]]
           /\ ids' = ids
    BY <1>1, <1>4, <1>9 DEF Ta!MergeResolve, Ta!Set
  <2>2. i \in Ta!Id /\ value[i] # NoName /\ i # q.old
    BY <2>1, KnownIds DEF Ta!GetOrCreate
  <2> DEFINE c == [q EXCEPT !.pc = "mcount", !.chosen = {}, !.target = i]
  <2>3. i \in 0..MaxIds /\ i <= ids
    BY <2>2 DEF Ta!Id, Ta!TagConstants, TagsInv, TagLinks
  <2>4. c \in TagRequest
    BY <1>8, <2>3 DEF TagRequest
  <2>5. c.pc = "mcount" /\ c.hold = {} /\ c.new = {} /\ c.ins = {} /\ c.rem = {} /\ c.old = q.old
        /\ c.name = q.name /\ c.target = i
    BY <1>6 DEF TagRequest
  <2> HIDE DEF c
  <2>6. TagSound(c)
    <3>1. Shape(c)
      BY <1>6, <1>8, <2>2, <2>5 DEF Shape
    <3>2. NewOnes(c)
      BY <1>6, <1>8, <2>3, <2>5 DEF NewOnes
    <3>3. Renames(c) /\ Keys(c) /\ Counted(c) /\ Told(c)
      BY <1>8, <2>5 DEF Renames, Keys, Counted, Told
    <3> QED
      BY <3>1, <3>2, <3>3 DEF TagSound
  <2>7. ASSUME NEW h \in Req, h # r PROVE Apart(c, retag[h]) /\ Apart(retag[h], c)
    <3>1. PICK p \in TagRequest : p = retag[h] /\ TagSound(p) /\ Apart(q, p) /\ Apart(p, q)
      BY <1>1, <2>7, TagFacts
    <3>2. \A m \in Name : <<i, m>> \notin p.new
      BY <2>2, <3>1 DEF TagSound, NewOnes
    <3>3. \A m \in Name : <<q.old, m>> \notin p.new
      BY <1>5, <3>1 DEF Apart
    <3>4. Apart(c, p) /\ Apart(p, c)
      BY <1>8, <2>5, <3>2, <3>3 DEF Apart
    <3> QED
      BY <3>1, <3>4
  <2>8. retag' = [retag EXCEPT ![r] = c]
    BY <2>1 DEF c
  <2> QED
    BY <1>2, <1>7, <2>1, <2>4, <2>6, <2>7, <2>8, OwnStays
<1>10. CASE Ta!GetOrCreate(n) = {}
  <2>1. PICK id, new : id = ids + 1 /\ new = {<<id, n>>}
    OBVIOUS
  <2>2. /\ ids < MaxIds /\ ~Ta!NameHeld(r, n) /\ ids' = ids + 1
        /\ retag' = [retag EXCEPT ![r] = [q EXCEPT !.pc = "mcount", !.chosen = {}, !.target = id,
                                               !.new = new]]
    BY <1>1, <1>4, <1>10, <2>1 DEF Ta!MergeResolve, Ta!Set
  <2> DEFINE none == {n}
             f == [m \in none |-> ids + 1]
  <2>3. ids \in Nat /\ MaxIds \in Nat /\ ids <= MaxIds
    BY DEF TagsInv, TagTyped, Ta!TagConstants
  <2>4. Cardinality(none) = 1
    BY FS_Singleton
  <2>5. f \in [none -> ids + 1..ids + 1] /\ \A a, b \in none : f[a] = f[b] => a = b
    BY <2>3
  <2>6. f \in Ta!Drawn(none)
    BY <2>4, <2>5, TaCounts DEF Ta!Drawn, Ta!IsInjective
  <2>7. Ta!Canonical(n) = {} /\ synonym[n] = 0
    BY <1>10, KnownIds DEF Ta!GetOrCreate
  <2>8. none \in SUBSET Name /\ ids + Cardinality(none) <= MaxIds
        /\ (\A m \in none : ~Ta!NameHeld(r, m) /\ Ta!Canonical(m) = {} /\ synonym[m] = 0)
        /\ f[n] = ids + 1 /\ n \in none
    BY <2>2, <2>3, <2>4, <2>7
  <2> HIDE DEF f, none
  <2>9. id \in Ta!Id /\ value[id] = NoName /\ \A j \in Ta!Id : value[j] # n
    BY <2>1, <2>6, <2>8, MadeNames
  <2>10. \A h \in Req : h # r =>
          /\ \A i \in Ta!Id : <<i, n>> \notin retag[h].new
          /\ \A m \in Name : <<id, m>> \notin retag[h].new
          /\ retag[h].pc \in OfTag => retag[h].old # id
          /\ retag[h].pc \in Moving => retag[h].target # id
          /\ retag[h].pc \in Renaming => retag[h].name # n
    BY <2>1, <2>6, <2>8, MadeNames
  <2> DEFINE c == [q EXCEPT !.pc = "mcount", !.chosen = {}, !.target = id, !.new = new]
  <2>11. id \in 0..MaxIds /\ new \subseteq Ta!Id \X Name
    BY <2>1, <2>2, <2>3, <2>9
  <2>12. c \in TagRequest
    BY <1>8, <2>11 DEF TagRequest
  <2>13. c.pc = "mcount" /\ c.hold = {} /\ c.ins = {} /\ c.rem = {} /\ c.old = q.old
        /\ c.name = q.name /\ c.target = id /\ c.new = new
    BY <1>6 DEF TagRequest
  <2> HIDE DEF c
  <2>14. \A i \in Ta!Id, m \in Name : <<i, m>> \in new => i = id /\ m = n
    BY <2>1
  <2>15. ids' \in 0..MaxIds /\ ids <= ids' /\ q.old # id /\ q.old <= ids'
    BY <1>6, <2>1, <2>2, <2>3, <2>11 DEF Ta!Id
  <2>16. TagSound(c)'
    <3>1. Shape(c)
      BY <1>3, <1>6, <1>8, <2>9, <2>13, <2>14, <2>15 DEF Shape
    <3>2. NewOnes(c)'
      <4>1. \A i \in Ta!Id, m \in Name : <<i, m>> \in c.new =>
              /\ value'[i] = NoName /\ i <= ids' /\ (\A j \in Ta!Id : value'[j] # m) /\ synonym'[m] = 0
        BY <1>2, <2>1, <2>2, <2>3, <2>7, <2>9, <2>13, <2>14
      <4>2. \A i, j \in Ta!Id, m, l \in Name : <<i, m>> \in c.new /\ <<j, l>> \in c.new => (i = j <=> m = l)
        BY <2>13, <2>14
      <4>3. c.old <= ids' /\ (\A m \in Name : <<c.old, m>> \notin c.new) /\ c.target <= ids'
        BY <1>6, <2>1, <2>2, <2>3, <2>13, <2>14, <2>15
      <4> QED
        BY <4>1, <4>2, <4>3 DEF NewOnes
    <3>3. Renames(c)' /\ Keys(c)' /\ Counted(c)' /\ Told(c)'
      BY <1>8, <2>13 DEF Renames, Keys, Counted, Told
    <3> QED
      BY <3>1, <3>2, <3>3 DEF TagSound
  <2>17. ASSUME NEW h \in Req, h # r PROVE Apart(c, retag[h]) /\ Apart(retag[h], c)
    <3>1. PICK p \in TagRequest : p = retag[h] /\ TagSound(p) /\ Apart(q, p) /\ Apart(p, q)
      BY <1>1, <2>17, TagFacts
    <3>2. /\ \A i \in Ta!Id : <<i, n>> \notin p.new
          /\ \A m \in Name : <<id, m>> \notin p.new
          /\ p.pc \in OfTag => p.old # id
          /\ p.pc \in Moving => p.target # id
          /\ p.pc \in Renaming => p.name # n
      BY <2>10, <2>17, <3>1
    <3>3. \A m \in Name : <<q.old, m>> \notin p.new
      BY <1>5, <3>1 DEF Apart
    <3>4. Apart(c, p)
      BY <1>8, <2>13, <2>14, <3>2, <3>3 DEF Apart
    <3>5. Apart(p, c)
      <4>1. p.pc \in OfTag => p.old \in Ta!Id
        BY <3>1 DEF TagSound, Shape
      <4>2. p.pc \in Moving => p.target \in Ta!Id
        BY <3>1 DEF TagSound, Shape
      <4>3. p.pc \in Renaming => p.name \in Name
        BY <3>1 DEF TagSound, Shape
      <4> QED
        BY <1>8, <2>13, <2>14, <3>2, <4>1, <4>2, <4>3 DEF Apart
    <3> QED
      BY <3>1, <3>4, <3>5
  <2>18. retag' = [retag EXCEPT ![r] = c]
    BY <2>1, <2>2 DEF c
  <2> QED
    BY <1>2, <1>7, <2>12, <2>15, <2>16, <2>17, <2>18, HeldStays
<1> QED
  BY <1>9, <1>10

\* The statements of a merge between its lookup and its commit.
LEMMA MergingStays ==
    ASSUME Ta!TagConstants, TagsInv, NEW r \in Req, NEW q \in TagRequest, q = retag[r], q.pc \in Moving,
           NEW c \in TagRequest, retag' = [retag EXCEPT ![r] = c],
           UNCHANGED <<value, counter, synonym, tagged, posted, ids, indexed, jobs, retags, stale, short, unseen, twins>>,
           c.pc \in Moving, c.new = q.new, c.old = q.old, c.target = q.target, c.name = q.name, c.hold = q.hold,
           c.pc \notin Inserting => c.ins = {},
           c.pc \notin Removing => c.rem = {},
           c.ins \subseteq Topic \X {q.target}, c.rem \subseteq Topic \X {q.old},
           Keys(c), Counted(c),
           \A h \in Req : h # r => q.target \notin retag[h].hold \/ c.ins \subseteq q.ins
    PROVE  TagsInv'
<1>1. TagSound(q)
  BY TagFacts
<1>2. /\ \A p \in {q, c} : p.pc \in Making /\ p.pc \in OfTag /\ p.pc \notin Renaming
      /\ \A p \in {q, c} : p.pc \notin {"edit", "edited"} \cup Renaming
      /\ c.pc \notin {"edit", "edited", "count", "post", "merge", "deleted", "renamed", "rename"}
  BY DEF Making, OfTag, Renaming, Moving
<1>3. TagSound(c)
  <2>1. Shape(c)
    BY <1>1, <1>2 DEF Shape, TagSound
  <2>2. NewOnes(c)
    BY <1>1, <1>2 DEF NewOnes, TagSound
  <2>3. Renames(c) /\ Told(c)
    BY <1>2 DEF Renames, Told
  <2> QED
    BY <2>1, <2>2, <2>3 DEF TagSound
<1>4. ASSUME NEW h \in Req, h # r PROVE Apart(c, retag[h]) /\ Apart(retag[h], c)
  <2>1. PICK p \in TagRequest : p = retag[h] /\ Apart(q, p) /\ Apart(p, q)
    BY <1>4, TagFacts
  <2>2. \A i \in p.hold : \A u \in Topic : <<u, i>> \notin c.ins
    <3>1. CASE q.target \notin p.hold
      BY <3>1
    <3>2. CASE c.ins \subseteq q.ins
      BY <2>1, <3>2 DEF Apart
    <3> QED
      BY <1>4, <2>1, <3>1, <3>2
  <2>3. Apart(c, p)
    BY <1>2, <2>1 DEF Apart
  <2>4. Apart(p, c)
    BY <1>2, <2>1, <2>2 DEF Apart
  <2> QED
    BY <2>1, <2>3, <2>4
<1>5. retags' \in 0..MaxTagRequests /\ retag[r].pc \notin {"queue", "reindex"}
  BY DEF TagsInv, TagTyped, Moving
<1> QED
  BY <1>3, <1>4, <1>5, OwnStays

LEMMA MergeCountTags ==
    ASSUME Ta!TagConstants, TagsInv, NEW r \in Req, Ta!MergeCount(r)
    PROVE  TagsInv'
<1>1. PICK q \in TagRequest : q = retag[r] /\ TagSound(q)
  BY TagFacts
<1>2. PICK counts, late : counts = [q.n EXCEPT ![q.target] = Cardinality(Ta!Moved(r))] /\ late = {}
  OBVIOUS
<1> DEFINE c == [q EXCEPT !.pc = "copy", !.n = counts, !.late = late]
<1>3. /\ q.pc = "mcount" /\ retag' = [retag EXCEPT ![r] = [retag[r] EXCEPT !.pc = "copy",
                !.n[retag[r].target] = Cardinality(Ta!Moved(r)), !.late = {}]]
      /\ UNCHANGED <<value, counter, synonym, tagged, posted, ids, indexed, jobs, stale, short, unseen, twins, retags>>
  BY <1>1, TaCounts DEF Ta!MergeCount, Ta!Set, Ta!db, Ta!index, Ta!hist
<1>4. retag' = [retag EXCEPT ![r] = c]
  BY <1>1, <1>2, <1>3 DEF TagRequest
<1>5. q.pc \in Moving /\ q.pc \in Making /\ q.pc \notin Inserting /\ q.pc \notin Removing
      /\ q.pc \notin {"edit", "edited"} \cup Renaming
  BY <1>3 DEF Moving, Making, Inserting, Removing, Renaming
<1>6. q.target \in Ta!Id /\ q.ins = {} /\ q.rem = {} /\ q.hold = {}
  BY <1>1, <1>5 DEF TagSound, Shape
<1>7. Ta!Moved(r) = ToMove(q)
  BY <1>1 DEF Ta!Moved, ToMove, Ta!With
<1>8. Cardinality(ToMove(q)) \in Nat
  <2>1. ToMove(q) \in SUBSET Topic
    BY DEF ToMove
  <2> QED
    BY <2>1, FS_Subset, FS_CardinalityType, TaFinite DEF Ta!TagConstants
<1>9. counts \in [Ta!Id -> Nat] /\ counts[q.target] = Cardinality(ToMove(q))
  BY <1>2, <1>6, <1>7, <1>8 DEF TagRequest
<1>10. c \in TagRequest
  <2>1. late \in SUBSET ({"got", "lost"} \X Ta!Id) /\ "copy" \in TagPc
    BY <1>2 DEF TagPc, Making
  <2> HIDE DEF Ta!Id
  <2> QED
    BY <1>9, <2>1 DEF TagRequest
<1>11. c.pc = "copy" /\ c.hold = q.hold /\ c.ins = {} /\ c.rem = {} /\ c.old = q.old
       /\ c.name = q.name /\ c.target = q.target /\ c.new = q.new /\ c.n = counts
  BY <1>6 DEF TagRequest
<1> HIDE DEF c
<1>12. c.pc \in Moving
  BY <1>11 DEF Moving
<1>13. ToMove(c) = ToMove(q)
  BY <1>11 DEF ToMove
<1>14. Keys(c) /\ Counted(c)
  BY <1>8, <1>9, <1>11, <1>13 DEF Keys, Counted
<1>15. c.ins \subseteq q.ins /\ c.ins \subseteq Topic \X {q.target} /\ c.rem \subseteq Topic \X {q.old}
  BY <1>11
<1> QED
  BY <1>1, <1>3, <1>4, <1>5, <1>10, <1>11, <1>12, <1>14, <1>15, MergingStays

LEMMA MergeCopyTags ==
    ASSUME Ta!TagConstants, TagsInv, NEW r \in Req, Ta!MergeCopy(r)
    PROVE  TagsInv'
<1>1. PICK q \in TagRequest : q = retag[r] /\ TagSound(q)
  BY TagFacts
<1>2. PICK ins, missed : /\ ins = (Ta!With(q.old) \X {q.target}) \ tagged
                         /\ missed = ({<<"got", q.old>>, <<"lost", q.target>>} \cap q.late # {})
  OBVIOUS
<1> DEFINE c == [q EXCEPT !.pc = "clear", !.ins = ins, !.missed = missed]
<1>3. /\ q.pc = "copy" /\ retag' = [retag EXCEPT ![r] = c] /\ ~Ta!Keyed(r, q.target)
      /\ ins = {} \/ value[q.target] # NoName \/ q.new # {}
      /\ UNCHANGED <<value, counter, synonym, tagged, posted, ids, indexed, jobs, stale, short, unseen, twins, retags>>
  BY <1>1, <1>2 DEF Ta!MergeCopy, Ta!Set, Ta!db, Ta!index, Ta!hist, Ta!Exists
<1>4. q.pc \in Moving /\ q.pc \in Making /\ q.pc \notin Inserting /\ q.pc \notin Removing
      /\ q.pc \notin {"edit", "edited"} \cup Renaming
  BY <1>3 DEF Moving, Making, Inserting, Removing, Renaming
<1>5. q.target \in Ta!Id /\ q.ins = {} /\ q.rem = {} /\ q.hold = {}
      /\ \A i \in Ta!Id, n \in Name : <<i, n>> \in q.new => i = q.target
  BY <1>1, <1>4 DEF TagSound, Shape
<1>6. ins \subseteq Topic \X {q.target} /\ ins \subseteq Topic \X Ta!Id
  BY <1>2, <1>5 DEF Ta!With
<1>7. missed \in BOOLEAN
  BY <1>2
<1>8. c \in TagRequest
  BY <1>6, <1>7, PhasesKnown DEF TagRequest
<1>9. c.pc = "clear" /\ c.hold = q.hold /\ c.ins = ins /\ c.rem = {} /\ c.old = q.old
       /\ c.name = q.name /\ c.target = q.target /\ c.new = q.new /\ c.n = q.n /\ c.missed = missed
  BY <1>5 DEF TagRequest
<1> HIDE DEF c
<1>10. c.pc \in Moving /\ c.pc \in Inserting
  BY <1>9 DEF Moving, Inserting
<1>11. Keys(c)
  <2>1. q.new # {} => \E n \in Name : <<q.target, n>> \in q.new
    BY <1>5 DEF TagRequest
  <2>2. \A u \in Topic, i \in Ta!Id : <<u, i>> \in c.ins => i = q.target /\ ins # {}
    BY <1>6, <1>9
  <2> QED
    BY <1>3, <1>9, <2>1, <2>2 DEF Keys
<1>12. GotBy(c) = ToMove(q)
  BY <1>2, <1>9 DEF GotBy, ToMove, Ta!With
<1>13. Counted(c)
  <2>1. Targeted(c) = Targeted(q)
    BY <1>9 DEF Targeted
  <2>2. ~missed => <<"got", q.old>> \notin q.late /\ <<"lost", q.target>> \notin q.late
    BY <1>2
  <2>3. Targeted(q) /\ ~missed => Cardinality(ToMove(q)) <= q.n[q.target]
    BY <1>1, <1>3, <2>2 DEF TagSound, Counted
  <2> QED
    BY <1>9, <1>12, <2>1, <2>3 DEF Counted
<1>14. \A h \in Req : h # r => q.target \notin retag[h].hold
  BY <1>3 DEF Ta!Keyed, Ta!Others
<1>15. c.rem \subseteq Topic \X {q.old}
  BY <1>9
<1> QED
  BY <1>1, <1>3, <1>4, <1>6, <1>8, <1>9, <1>10, <1>11, <1>13, <1>14, <1>15, MergingStays

LEMMA MergeClearTags ==
    ASSUME Ta!TagConstants, TagsInv, NEW r \in Req, Ta!MergeClear(r)
    PROVE  TagsInv'
<1>1. PICK q \in TagRequest : q = retag[r] /\ TagSound(q)
  BY TagFacts
<1>2. PICK gone : gone = {x \in tagged : x[2] = q.old}
  OBVIOUS
<1> DEFINE c == [q EXCEPT !.pc = "raise", !.rem = gone]
<1>3. /\ q.pc = "clear" /\ retag' = [retag EXCEPT ![r] = c]
      /\ UNCHANGED <<value, counter, synonym, tagged, posted, ids, indexed, jobs, stale, short, unseen, twins, retags>>
  BY <1>1, <1>2 DEF Ta!MergeClear, Ta!Set, Ta!db, Ta!index, Ta!hist
<1>4. gone \subseteq Topic \X {q.old} /\ gone \subseteq Topic \X Ta!Id
  BY <1>2 DEF TagsInv, TagTyped
<1>5. c \in TagRequest
  BY <1>4, PhasesKnown DEF TagRequest
<1>6. c.pc = "raise" /\ c.hold = q.hold /\ c.ins = q.ins /\ c.rem = gone /\ c.old = q.old
       /\ c.name = q.name /\ c.target = q.target /\ c.new = q.new /\ c.n = q.n /\ c.missed = q.missed
  BY DEF TagRequest
<1> HIDE DEF c
<1>7. q.pc \in Moving /\ c.pc \in Moving /\ c.pc \in Inserting /\ c.pc \in Removing
  BY <1>3, <1>6 DEF Moving, Inserting, Removing
<1>8. Keys(c) /\ q.ins \subseteq Topic \X {q.target}
  BY <1>1, <1>3, <1>6 DEF Keys, TagSound, Shape
<1>9. Counted(c)
  BY <1>1, <1>3, <1>6 DEF Counted, TagSound, Targeted, GotBy
<1> QED
  BY <1>1, <1>3, <1>4, <1>5, <1>6, <1>7, <1>8, <1>9, MergingStays

LEMMA MergeRaiseTags ==
    ASSUME Ta!TagConstants, TagsInv, NEW r \in Req, Ta!MergeRaise(r)
    PROVE  TagsInv'
<1>1. PICK q \in TagRequest : q = retag[r] /\ TagSound(q)
  BY TagFacts
<1>2. PICK weak : weak = {q.target}
  OBVIOUS
<1> DEFINE c == [q EXCEPT !.pc = "merged", !.weak = weak]
<1>3. /\ q.pc = "raise" /\ retag' = [retag EXCEPT ![r] = c]
      /\ UNCHANGED <<value, counter, synonym, tagged, posted, ids, indexed, jobs, stale, short, unseen, twins, retags>>
  BY <1>1, <1>2 DEF Ta!MergeRaise, Ta!Set, Ta!db, Ta!index, Ta!hist
<1>4. q.pc \in Moving
  BY <1>3 DEF Moving
<1>5. q.target \in Ta!Id
  BY <1>1, <1>4 DEF TagSound, Shape
<1>6. c \in TagRequest
  BY <1>2, <1>5, PhasesKnown DEF TagRequest
<1>7. c.pc = "merged" /\ c.hold = q.hold /\ c.ins = q.ins /\ c.rem = q.rem /\ c.old = q.old
       /\ c.name = q.name /\ c.target = q.target /\ c.new = q.new /\ c.n = q.n /\ c.missed = q.missed
  BY DEF TagRequest
<1> HIDE DEF c
<1>8. c.pc \in Moving /\ c.pc \in Inserting /\ c.pc \in Removing
  BY <1>7 DEF Moving, Inserting, Removing
<1>9. Keys(c) /\ q.ins \subseteq Topic \X {q.target} /\ q.rem \subseteq Topic \X {q.old}
  BY <1>1, <1>3, <1>7 DEF Keys, TagSound, Shape
<1>10. Counted(c)
  BY <1>1, <1>3, <1>7 DEF Counted, TagSound, Targeted, GotBy
<1> QED
  BY <1>1, <1>3, <1>4, <1>6, <1>7, <1>8, <1>9, <1>10, MergingStays

-----------------------------------------------------------------------------
(* Steps of no request. *)

LEMMA DropSynonymTags ==
    ASSUME Ta!TagConstants, TagsInv, NEW n \in Name, Ta!DropSynonym(n)
    PROVE  TagsInv'
<1>1. synonym' = [synonym EXCEPT ![n] = 0]
      /\ UNCHANGED <<value, counter, tagged, posted, ids, jobs, indexed, retag, retags, stale, short, unseen, twins>>
  BY DEF Ta!DropSynonym, Ta!index, Ta!hist
<1>2. \A m \in Name : synonym'[m] = 0 \/ synonym'[m] = synonym[m]
  BY <1>1 DEF TagsInv, TagTyped
<1>3. TagTyped'
  BY <1>1 DEF TagsInv, TagTyped, Ta!TagConstants
<1>4. TagLinks' /\ Ta!NotShort' /\ Ta!NamesOnce'
  <2>1. TagLinks'
    BY <1>1, <1>2 DEF TagsInv, TagLinks
  <2>2. Ta!NotShort'
    BY <1>1, TaCounts DEF TagsInv, Ta!NotShort, Ta!Exists, Ta!With
  <2>3. Ta!NamesOnce'
    BY <1>1, <1>2 DEF TagsInv, Ta!NamesOnce, Ta!Canonical
  <2> QED
    BY <2>1, <2>2, <2>3
<1>5. Documents'
  BY <1>1 DEF TagsInv, Documents, Awaited, Ta!NamesOf, Ta!IdsOf
<1>6. TagsApart'
  <2>1. ASSUME NEW h \in Req PROVE TagSound(retag[h])'
    <3>1. PICK q \in TagRequest : q = retag[h] /\ TagSound(q)
      BY TagFacts
    <3>2. NewOnes(q)'
      BY <1>1, <1>2, <3>1 DEF TagSound, NewOnes
    <3>3. Renames(q)' /\ Keys(q)' /\ Counted(q)' /\ Told(q)'
      BY <1>1, <3>1 DEF TagSound, Renames, Keys, Counted, Told, Ta!With, ToMove, Targeted, SeenBy
    <3>4. TagSound(q)'
      BY <3>1, <3>2, <3>3 DEF TagSound
    <3> QED
      BY <1>1, <3>1, <3>4
  <2>2. \A h, k \in Req : h # k => Apart(retag[h], retag[k])'
    BY <1>1 DEF TagsInv, TagsApart
  <2> QED
    BY <2>1, <2>2 DEF TagsApart
<1> QED
  BY <1>3, <1>4, <1>5, <1>6 DEF TagsInv

LEMMA IndexTags ==
    ASSUME Ta!TagConstants, TagsInv, NEW u \in Topic, Ta!Index(u)
    PROVE  TagsInv'
<1>1. /\ u \in jobs /\ jobs' = jobs \ {u} /\ indexed' = [indexed EXCEPT ![u] = Ta!NamesOf(u)]
      /\ stale' = IF \E r \in Req : retag[r].pc = "renamed" /\ u \in retag[r].affected
                  THEN stale \cup {u} ELSE stale \ {u}
      /\ UNCHANGED <<value, counter, synonym, tagged, posted, ids, retag, retags, short, unseen, twins>>
  BY DEF Ta!Index, Ta!db
<1>2. DOMAIN indexed = Topic /\ indexed = [w \in Topic |-> indexed[w]]
  BY DEF TagsInv, TagTyped
<1>3. indexed'[u] = Ta!NamesOf(u) /\ \A w \in Topic : w # u => indexed'[w] = indexed[w]
  BY <1>1, <1>2
<1>4. TagTyped'
  <2>1. DOMAIN indexed' = Topic /\ indexed' = [w \in Topic |-> indexed'[w]]
    BY <1>1, <1>2
  <2> QED
    BY <1>1, <2>1 DEF TagsInv, TagTyped
<1>5. TagLinks' /\ Ta!NotShort' /\ Ta!NamesOnce'
  <2>1. TagLinks'
    BY <1>1 DEF TagsInv, TagLinks
  <2>2. Ta!NotShort'
    BY <1>1, TaCounts DEF TagsInv, Ta!NotShort, Ta!Exists, Ta!With
  <2>3. Ta!NamesOnce'
    BY <1>1 DEF TagsInv, Ta!NamesOnce, Ta!Canonical
  <2> QED
    BY <2>1, <2>2, <2>3
<1>6. Documents'
  <2> SUFFICES ASSUME NEW w \in posted \ (jobs' \cup stale'),
                      \A h \in Req : ~Awaited(retag[h], w)'
               PROVE  indexed'[w] = Ta!NamesOf(w)'
    BY <1>1 DEF Documents
  <2>0. Ta!NamesOf(w)' = Ta!NamesOf(w)
    BY <1>1 DEF Ta!NamesOf, Ta!IdsOf
  <2>1. \A h \in Req : ~Awaited(retag[h], w)
    BY <1>1 DEF Awaited
  <2>2. w \in Topic
    BY DEF TagsInv, TagTyped
  <2>3. CASE w = u
    BY <1>3, <2>0, <2>3
  <2>4. CASE w # u
    <3>1. w \notin jobs /\ w \notin stale
      BY <1>1, <2>4
    <3>2. indexed[w] = Ta!NamesOf(w)
      BY <2>1, <3>1 DEF TagsInv, Documents
    <3> QED
      BY <1>3, <2>0, <2>2, <2>4, <3>2
  <2> QED
    BY <2>3, <2>4
<1>7. TagsApart'
  <2>1. ASSUME NEW h \in Req PROVE TagSound(retag[h])'
    <3>1. PICK q \in TagRequest : q = retag[h] /\ TagSound(q)
      BY TagFacts
    <3>2. q.pc = "renamed" => q.affected \subseteq jobs \cup stale
      BY <3>1 DEF TagSound, Told
    <3>3. q.pc = "renamed" /\ u \in q.affected => u \in stale'
      BY <1>1, <3>1
    <3>4. \A w : w \in jobs \cup stale /\ w # u => w \in jobs' \cup stale'
      BY <1>1
    <3>5. q.pc = "renamed" => q.affected \subseteq jobs' \cup stale'
      BY <3>2, <3>3, <3>4
    <3>6. ids <= ids' /\ ids \in Int /\ ids' \in Int
      BY <1>1 DEF Ta!TagConstants, TagsInv, TagTyped
    <3>7. TagSound(q)'
      BY <1>1, <3>1, <3>5, <3>6, SoundStays
    <3> QED
      BY <1>1, <3>1, <3>7
  <2>2. \A h, k \in Req : h # k => Apart(retag[h], retag[k])'
    BY <1>1 DEF TagsInv, TagsApart
  <2> QED
    BY <2>1, <2>2 DEF TagsApart
<1> QED
  BY <1>4, <1>5, <1>6, <1>7 DEF TagsInv

-----------------------------------------------------------------------------
(* A commit: the rows of tags change, and others note which. *)

\* A request q that is d after a commit.
Later(q, d, done) ==
    /\ d.pc = q.pc /\ d.topic = q.topic /\ d.chosen = q.chosen /\ d.old = q.old
    /\ d.target = q.target /\ d.name = q.name /\ d.new = q.new /\ d.add = q.add /\ d.del = q.del
    /\ d.ins = q.ins /\ d.rem = q.rem /\ d.hold = q.hold /\ d.n = q.n /\ d.hidden = q.hidden
    /\ d.affected = q.affected /\ d.missed = q.missed /\ d.late = q.late \cup done

\* What the commit of p does to the names, the rows and the synonyms.
CommitsNames(p) ==
    \A i \in Ta!Id, n \in Name : value'[i] = n =>
        \/ value[i] = n
        \/ <<i, n>> \in p.new
        \/ p.pc = "renamed" /\ n = p.name /\ value[i] # NoName
Spares(q) ==
    \A i \in Ta!Id : value[i] # NoName /\ value'[i] = NoName => \A u \in Topic : <<u, i>> \notin q.ins
CommitsRows(p, done) ==
    \A u \in Topic, i \in Ta!Id :
        /\ <<u, i>> \in tagged' /\ <<u, i>> \notin tagged => <<u, i>> \in p.ins /\ <<"got", i>> \in done
        /\ <<u, i>> \in tagged /\ <<u, i>> \notin tagged' => <<"lost", i>> \in done \/ value'[i] = NoName
CommitsSynonyms ==
    \A n \in Name : n \notin twins' /\ synonym'[n] # 0 => synonym[n] # 0 \/ \E i \in Ta!Id : value[i] = n

LEMMA LaterCounted ==
    ASSUME Ta!TagConstants, TagsInv, NEW p \in TagRequest, NEW q \in TagRequest, NEW d \in TagRequest,
           NEW done, TagSound(q), Apart(q, p), Later(q, d, done), TagTyped',
           CommitsNames(p), CommitsRows(p, done), p.pc = "renamed" => p.name \in Name
    PROVE  Counted(d)'
<1>1. Counted(q) /\ Shape(q) /\ NewOnes(q)
  BY DEF TagSound
<1>2. ASSUME d.pc = "post", NEW i \in d.add, <<"got", i>> \notin d.late
      PROVE  Cardinality((Ta!With(i) \cup {d.topic})') <= d.n[i]
  <2>1. Cardinality(Ta!With(i) \cup {q.topic}) <= q.n[i]
    BY <1>1, <1>2 DEF Counted, Later
  <2>2. i \in Ta!Id /\ q.topic \in Topic
    BY <1>2 DEF Later, TagRequest
  <2>3. \A u \in Topic : <<u, i>> \in tagged' => <<u, i>> \in tagged
    BY <1>2, <2>2 DEF CommitsRows, Later
  <2>4. {u \in Topic : <<u, i>> \in tagged'} \cup {q.topic} \in SUBSET (Ta!With(i) \cup {q.topic})
    BY <2>3 DEF Ta!With
  <2>5. Ta!With(i) \cup {q.topic} \in SUBSET Topic
    BY <2>2 DEF Ta!With
  <2>6. IsFiniteSet(Ta!With(i) \cup {q.topic})
    BY <2>5, FS_Subset, TaFinite DEF Ta!TagConstants
  <2>7. /\ Cardinality({u \in Topic : <<u, i>> \in tagged'} \cup {q.topic}) \in Nat
        /\ Cardinality({u \in Topic : <<u, i>> \in tagged'} \cup {q.topic}) <= Cardinality(Ta!With(i) \cup {q.topic})
        /\ Cardinality(Ta!With(i) \cup {q.topic}) \in Nat
    BY <2>4, <2>6, FS_Subset, FS_CardinalityType
  <2>8. q.n[i] \in Nat /\ d.n[i] = q.n[i] /\ d.topic = q.topic
    BY <2>2 DEF TagRequest, Later
  <2>9. Cardinality({u \in Topic : <<u, i>> \in tagged'} \cup {q.topic}) <= q.n[i]
    BY <2>1, <2>7, <2>8
  <2> QED
    BY <2>8, <2>9 DEF Ta!With
<1>3. ASSUME d.pc \in Moving, Targeted(d)'
      PROVE  Targeted(q)
  <2>1. q.target \in Ta!Id /\ q.pc \in Moving /\ d.target = q.target /\ d.new = q.new
    BY <1>1, <1>3 DEF Shape, Later
  <2>2. CASE q.new # {}
    BY <2>2 DEF Targeted
  <2>3. CASE q.new = {}
    <3>1. value'[q.target] # NoName
      BY <1>3, <2>1, <2>3 DEF Targeted
    <3>2. value'[q.target] \in Name
      BY <2>1, <3>1 DEF TagTyped
    <3>3. <<q.target, value'[q.target]>> \notin p.new
      BY <2>1, <3>2 DEF Apart
    <3>4. value[q.target] = value'[q.target] \/ value[q.target] # NoName
      BY <2>1, <3>2, <3>3 DEF CommitsNames
    <3> QED
      BY <3>1, <3>4 DEF Targeted
  <2> QED
    BY <2>2, <2>3
<1>4. ASSUME d.pc = "copy", Targeted(d)', <<"got", d.old>> \notin d.late, <<"lost", d.target>> \notin d.late
      PROVE  Cardinality(ToMove(d)') <= d.n[d.target]
  <2>1. q.pc = "copy" /\ q.pc \in Moving /\ d.pc \in Moving /\ d.target = q.target /\ d.old = q.old /\ d.new = q.new
    BY <1>4 DEF Later, Moving
  <2>2. q.target \in Ta!Id /\ q.old \in Ta!Id /\ \A i \in Ta!Id, n \in Name : <<i, n>> \in q.new => i = q.target
    BY <1>1, <2>1 DEF Shape, OfTag
  <2>3. Targeted(q)
    BY <1>3, <1>4, <2>1
  <2>4. Cardinality(ToMove(q)) <= q.n[q.target]
    BY <1>1, <1>4, <2>1, <2>3 DEF Counted, Later
  <2>5. \A u \in Topic : <<u, q.old>> \in tagged' => <<u, q.old>> \in tagged
    BY <1>4, <2>1, <2>2 DEF CommitsRows, Later
  <2>6. \A u \in Topic : <<u, q.target>> \in tagged => <<u, q.target>> \in tagged'
    <3> SUFFICES ASSUME NEW u \in Topic, <<u, q.target>> \in tagged, <<u, q.target>> \notin tagged' PROVE FALSE
      OBVIOUS
    <3>1. value'[q.target] = NoName
      BY <1>4, <2>1, <2>2 DEF CommitsRows, Later
    <3>2. q.new # {}
      BY <1>4, <2>1, <3>1 DEF Targeted
    <3>3. PICK i \in Ta!Id, n \in Name : <<i, n>> \in q.new
      <4>1. PICK x \in q.new : x \in Ta!Id \X Name
        BY <3>2 DEF TagRequest
      <4>2. PICK i \in Ta!Id, n \in Name : x = <<i, n>>
        BY <4>1
      <4> QED
        BY <4>1, <4>2
    <3>4. value[q.target] = NoName
      BY <1>1, <2>2, <3>3 DEF NewOnes
    <3> QED
      BY <2>2, <3>4 DEF TagsInv, TagLinks
  <2>7. {u \in Topic : <<u, q.old>> \in tagged' /\ <<u, q.target>> \notin tagged'} \in SUBSET ToMove(q)
    BY <2>5, <2>6 DEF ToMove
  <2>8. ToMove(q) \in SUBSET Topic
    BY DEF ToMove
  <2>9. IsFiniteSet(ToMove(q)) /\ Cardinality(ToMove(q)) \in Nat
    BY <2>8, FS_Subset, FS_CardinalityType, TaFinite DEF Ta!TagConstants
  <2>10. /\ Cardinality({u \in Topic : <<u, q.old>> \in tagged' /\ <<u, q.target>> \notin tagged'}) \in Nat
         /\ Cardinality({u \in Topic : <<u, q.old>> \in tagged' /\ <<u, q.target>> \notin tagged'})
              <= Cardinality(ToMove(q))
    BY <2>7, <2>9, FS_Subset, FS_CardinalityType
  <2>11. q.n[q.target] \in Nat /\ d.n[d.target] = q.n[q.target]
    BY <2>1, <2>2 DEF TagRequest, Later
  <2>12. Cardinality({u \in Topic : <<u, q.old>> \in tagged' /\ <<u, q.target>> \notin tagged'}) <= q.n[q.target]
    BY <2>4, <2>9, <2>10, <2>11
  <2> QED
    BY <2>1, <2>11, <2>12 DEF ToMove
<1>5. ASSUME d.pc \in {"clear", "raise", "merged"}, Targeted(d)', ~d.missed
      PROVE  Cardinality(GotBy(d)) <= d.n[d.target]
  <2>1. d.pc \in Moving /\ q.pc \in {"clear", "raise", "merged"}
    BY <1>5 DEF Moving, Later
  <2>2. Targeted(q) /\ ~q.missed
    BY <1>3, <1>5, <2>1 DEF Later
  <2> QED
    BY <1>1, <2>1, <2>2 DEF Counted, Later, GotBy
<1>6. ASSUME d.pc = "sweep", NEW i \in d.add, <<"got", i>> \notin d.late
      PROVE  Cardinality(SeenBy(d, i)') <= d.n[i]
  <2>1. Cardinality(SeenBy(q, i)) <= q.n[i]
    BY <1>1, <1>6 DEF Counted, Later
  <2>2. i \in Ta!Id
    BY <1>6 DEF TagRequest
  <2>3. \A u \in Topic : <<u, i>> \in tagged' => <<u, i>> \in tagged
    BY <1>6, <2>2 DEF CommitsRows, Later
  <2>4. SeenBy(d, i)' \in SUBSET SeenBy(q, i)
    BY <2>3 DEF SeenBy, Ta!With, Later
  <2>5. SeenBy(q, i) \in SUBSET Topic
    BY DEF SeenBy, Ta!With
  <2>6. IsFiniteSet(SeenBy(q, i)) /\ Cardinality(SeenBy(q, i)) \in Nat
    BY <2>5, FS_Subset, FS_CardinalityType, TaFinite DEF Ta!TagConstants
  <2>7. Cardinality(SeenBy(d, i)') \in Nat /\ Cardinality(SeenBy(d, i)') <= Cardinality(SeenBy(q, i))
    BY <2>4, <2>6, FS_Subset, FS_CardinalityType
  <2>8. q.n[i] \in Nat /\ d.n[i] = q.n[i]
    BY <2>2 DEF TagRequest, Later
  <2> QED
    BY <2>1, <2>6, <2>7, <2>8
<1> QED
  BY <1>2, <1>4, <1>5, <1>6 DEF Counted, GotBy

LEMMA LaterSound ==
    ASSUME Ta!TagConstants, TagsInv, NEW p \in TagRequest, NEW q \in TagRequest, NEW d \in TagRequest,
           NEW done, TagSound(q), Apart(p, q), Apart(q, p), Later(q, d, done), TagTyped',
           CommitsNames(p), CommitsRows(p, done), CommitsSynonyms, Spares(q),
           p.pc = "renamed" => p.name \in Name,
           ids' = ids, jobs' = jobs, stale \subseteq stale', twins \subseteq twins'
    PROVE  TagSound(d)'
<1>1. Shape(q) /\ NewOnes(q) /\ Renames(q) /\ Keys(q) /\ Told(q)
  BY DEF TagSound
<1>2. Shape(d)
  BY <1>1 DEF Shape, Later
<1>3. NewOnes(d)'
  <2>1. ASSUME NEW i \in Ta!Id, NEW n \in Name, <<i, n>> \in q.new
        PROVE  /\ value'[i] = NoName /\ i <= ids'
               /\ \A j \in Ta!Id : value'[j] # n
               /\ n \notin twins' => synonym'[n] = 0
    <3>1. value[i] = NoName /\ i <= ids /\ (\A j \in Ta!Id : value[j] # n) /\ (n \notin twins => synonym[n] = 0)
      BY <1>1, <2>1 DEF NewOnes
    <3>2. value'[i] = NoName
      <4>1. \A m \in Name : <<i, m>> \notin p.new
        BY <2>1 DEF Apart
      <4>2. \A m \in Name : value'[i] # m
        BY <3>1, <4>1 DEF CommitsNames, Ta!TagConstants
      <4> QED
        BY <4>2 DEF TagTyped
    <3>3. ASSUME NEW j \in Ta!Id, value'[j] = n PROVE FALSE
      <4>1. <<j, n>> \notin p.new
        BY <2>1 DEF Apart
      <4>2. p.pc = "renamed" => n # p.name
        BY <2>1 DEF Apart, Renaming
      <4> QED
        BY <3>1, <3>3, <4>1, <4>2 DEF CommitsNames
    <3>4. n \notin twins' => synonym'[n] = 0
      BY <3>1 DEF CommitsSynonyms
    <3> QED
      BY <3>1, <3>2, <3>3, <3>4
  <2>2. \A i, j \in Ta!Id, m, n \in Name : <<i, m>> \in q.new /\ <<j, n>> \in q.new => (i = j <=> m = n)
    BY <1>1 DEF NewOnes
  <2>3. /\ q.pc \in OfTag => q.old <= ids' /\ \A n \in Name : <<q.old, n>> \notin q.new
        /\ q.pc \in Moving => q.target <= ids'
    BY <1>1 DEF NewOnes
  <2>4. NewOnes(q)'
    BY <2>1, <2>2, <2>3 DEF NewOnes
  <2> QED
    BY <2>4 DEF NewOnes, Later
<1>4. Renames(d)'
  <2> SUFFICES ASSUME q.pc \in Renaming
               PROVE  /\ value'[q.old] = NoName \/ \A j \in Ta!Id : value'[j] # q.name
                      /\ \A u \in Topic : <<u, q.old>> \in tagged' => u \in q.affected
    BY DEF Renames, Later
  <2>1. q.old \in Ta!Id /\ q.name \in Name /\ q.hold = {q.old} /\ q.pc \in OfTag
    BY <1>1 DEF Shape, OfTag
  <2>2. value[q.old] = NoName \/ \A j \in Ta!Id : value[j] # q.name
    BY <1>1 DEF Renames
  <2>3. ASSUME value[q.old] = NoName PROVE value'[q.old] = NoName
    <3>1. \A m \in Name : <<q.old, m>> \notin p.new
      BY <2>1 DEF Apart
    <3>2. \A m \in Name : value'[q.old] # m
      BY <2>1, <2>3, <3>1 DEF CommitsNames, Ta!TagConstants
    <3> QED
      BY <2>1, <3>2 DEF TagTyped
  <2>4. ASSUME \A j \in Ta!Id : value[j] # q.name, NEW j \in Ta!Id, value'[j] = q.name PROVE FALSE
    <3>1. <<j, q.name>> \notin p.new
      BY <2>1 DEF Apart
    <3>2. p.pc = "renamed" => p.name # q.name
      BY DEF Apart, Renaming
    <3> QED
      BY <2>1, <2>4, <3>1, <3>2 DEF CommitsNames
  <2>5. ASSUME NEW u \in Topic, <<u, q.old>> \in tagged' PROVE u \in q.affected
    <3>1. <<u, q.old>> \notin p.ins
      BY <2>1 DEF Apart
    <3>2. <<u, q.old>> \in tagged
      BY <2>1, <2>5, <3>1 DEF CommitsRows
    <3> QED
      BY <1>1, <3>2 DEF Renames
  <2> QED
    BY <2>2, <2>3, <2>4, <2>5
<1>5. Keys(d)'
  <2>1. Keys(q)'
    BY <1>1 DEF Keys, Spares
  <2> QED
    BY <2>1 DEF Keys, Later
<1>6. Counted(d)'
  BY LaterCounted
<1>7. Told(d)'
  BY <1>1 DEF Told, Later
<1> QED
  BY <1>2, <1>3, <1>4, <1>5, <1>6, <1>7 DEF TagSound

LEMMA CommitStays ==
    ASSUME Ta!TagConstants, TagsInv, NEW r \in Req, NEW p \in TagRequest, p = retag[r],
           NEW c \in TagRequest, Plain(c), NEW done, retag' \in [Req -> TagRequest], retag'[r] = c,
           \A h \in Req : h # r => \/ retag'[h] = Ta!Idle /\ retag[h].pc = "idle"
                                   \/ Later(retag[h], retag'[h], done),
           p.pc \notin {"idle", "queue", "reindex"}, TagTyped',
           CommitsNames(p), CommitsRows(p, done), CommitsSynonyms,
           \A h \in Req : h # r => Spares(retag[h]),
           ids' = ids, jobs' = jobs, indexed' = indexed, stale \subseteq stale', twins \subseteq twins',
           TagLinks', Ta!NamesOnce', Ta!NotShort',
           \A u \in Topic : u \in posted' \ (jobs' \cup stale') /\ ~Awaited(c, u)' =>
                /\ u \in posted
                /\ \A i \in Ta!Id : /\ <<u, i>> \in tagged' <=> <<u, i>> \in tagged
                                    /\ <<u, i>> \in tagged => value'[i] = value[i]
    PROVE  TagsInv'
<1>1. p.pc = "renamed" => p.name \in Name
  BY TagFacts DEF TagSound, Shape, Renaming
<1>2. Plain(Ta!Idle) /\ Ta!Idle.hold = {}
  BY DEF Plain, Ta!Idle
<1>3. Documents'
  <2> SUFFICES ASSUME NEW u \in (posted \ (jobs \cup stale))',
                      \A h \in Req : ~Awaited(retag[h], u)'
               PROVE  (indexed[u] = Ta!NamesOf(u))'
    BY DEF Documents
  <2>1. u \in Topic
    BY DEF TagTyped
  <2>2. ~Awaited(retag[r], u)'
    OBVIOUS
  <2>3. ~Awaited(c, u)'
    BY <2>2 DEF Awaited
  <2>4. /\ u \in posted
        /\ \A i \in Ta!Id : /\ <<u, i>> \in tagged' <=> <<u, i>> \in tagged
                            /\ <<u, i>> \in tagged => value'[i] = value[i]
    BY <2>1, <2>3
  <2>5. ASSUME NEW h \in Req PROVE ~Awaited(retag[h], u)
    <3>0. ~Awaited(retag[h], u)'
      OBVIOUS
    <3>1. PICK q \in TagRequest, d \in TagRequest : q = retag[h] /\ d = retag'[h] /\ ~Awaited(d, u)'
      BY <3>0, TagFacts
    <3>2. CASE h = r
      BY <3>2 DEF Awaited
    <3>3. CASE h # r /\ retag[h].pc = "idle"
      BY <3>3 DEF Awaited
    <3>4. CASE h # r /\ Later(q, d, done)
      <4>1. \A i : <<u, i>> \in tagged => i \in Ta!Id
        BY DEF TagsInv, TagTyped
      <4> QED
        BY <2>4, <3>1, <3>4, <4>1 DEF Awaited, Later
    <3> QED
      BY <3>1, <3>2, <3>3, <3>4
  <2>6. indexed[u] = Ta!NamesOf(u)
    BY <2>4, <2>5 DEF TagsInv, Documents
  <2>7. Ta!IdsOf(u)' = Ta!IdsOf(u)
    BY <2>4 DEF Ta!IdsOf
  <2>8. Ta!NamesOf(u)' = Ta!NamesOf(u)
    BY <2>4, <2>7 DEF Ta!NamesOf, Ta!IdsOf
  <2> QED
    BY <2>6, <2>8
<1>4. ASSUME NEW h \in Req PROVE TagSound(retag[h])'
  <2>1. CASE h = r
    <3>1. TagSound(c)'
      BY PlainIsSound
    <3> QED
      BY <2>1, <3>1
  <2>2. CASE h # r
    <3>1. PICK q \in TagRequest, d \in TagRequest :
             q = retag[h] /\ d = retag'[h] /\ TagSound(q) /\ Apart(p, q) /\ Apart(q, p)
      BY <2>2, TagFacts
    <3>2. CASE d = Ta!Idle
      <4>1. TagSound(d)'
        BY <1>2, <3>2, PlainIsSound
      <4> QED
        BY <3>1, <4>1
    <3>3. CASE Later(q, d, done)
      <4>1. Spares(q)
        BY <2>2, <3>1
      <4>2. TagSound(d)'
        BY <1>1, <3>1, <3>3, <4>1, LaterSound
      <4> QED
        BY <3>1, <4>2
    <3> QED
      BY <2>2, <3>1, <3>2, <3>3
  <2> QED
    BY <2>1, <2>2
<1>5. ASSUME NEW h \in Req, NEW k \in Req, h # k PROVE Apart(retag[h], retag[k])'
  <2>1. PICK d \in TagRequest, e \in TagRequest : d = retag'[h] /\ e = retag'[k]
    OBVIOUS
  <2>2. d.hold \subseteq Ta!Id /\ e.hold \subseteq Ta!Id
    BY DEF TagRequest
  <2>3. CASE Plain(d) \/ Plain(e)
    BY <2>1, <2>2, <2>3, PlainIsApart
  <2>4. CASE ~Plain(d) /\ ~Plain(e)
    <3>1. h # r /\ k # r
      BY <2>1, <2>4
    <3>2. Later(retag[h], d, done) /\ Later(retag[k], e, done)
      BY <1>2, <2>1, <2>4, <3>1
    <3>3. Apart(retag[h], retag[k])
      BY <1>5, TagFacts
    <3>4. Apart(d, e)
      BY <3>2, <3>3 DEF Apart, Later
    <3> QED
      BY <2>1, <3>4
  <2> QED
    BY <2>3, <2>4
<1>6. TagsApart'
  BY <1>4, <1>5 DEF TagsApart
<1> QED
  BY <1>3, <1>6 DEF TagsInv

LEMMA CommitsAre ==
    ASSUME Ta!TagConstants, TagsInv, NEW r \in Req, NEW c \in TagRequest, Ta!Commits(r, c)
    PROVE  \E done : /\ retag' \in [Req -> TagRequest] /\ retag'[r] = c
                     /\ \A h \in Req : h # r => \/ retag'[h] = Ta!Idle /\ retag[h].pc = "idle"
                                                \/ Later(retag[h], retag'[h], done)
                     /\ \A u \in Topic, i \in Ta!Id : /\ <<u, i>> \in retag[r].ins => <<"got", i>> \in done
                                                      /\ <<u, i>> \in retag[r].rem => <<"lost", i>> \in done
<1> DEFINE done == ({"got"} \X {x[2] : x \in retag[r].ins}) \cup ({"lost"} \X {x[2] : x \in retag[r].rem})
<1>1. retag' = [q \in Req |-> IF q = r THEN c ELSE IF retag[q].pc = "idle" THEN Ta!Idle
                            ELSE [retag[q] EXCEPT !.late = @ \cup done]]
  BY DEF Ta!Commits
<1>2. done \subseteq {"got", "lost"} \X Ta!Id
  <2>1. retag[r].ins \subseteq Topic \X Ta!Id /\ retag[r].rem \subseteq Topic \X Ta!Id
    BY TagFacts DEF TagRequest
  <2>2. \A x \in retag[r].ins \cup retag[r].rem : x[2] \in Ta!Id
    BY <2>1
  <2> QED
    BY <2>2
<1>3. \A u \in Topic, i \in Ta!Id : /\ <<u, i>> \in retag[r].ins => <<"got", i>> \in done
                                    /\ <<u, i>> \in retag[r].rem => <<"lost", i>> \in done
  <2>1. \A u \in Topic, i \in Ta!Id : <<u, i>>[2] = i
    OBVIOUS
  <2> QED
    BY <2>1
<1> HIDE DEF done
<1>4. ASSUME NEW h \in Req, h # r, retag[h].pc # "idle"
      PROVE  retag'[h] \in TagRequest /\ Later(retag[h], retag'[h], done)
  <2>1. PICK q \in TagRequest : q = retag[h]
    BY TagFacts
  <2>2. retag'[h] = [q EXCEPT !.late = q.late \cup done]
    BY <1>1, <1>4, <2>1
  <2>3. q.late \cup done \in SUBSET ({"got", "lost"} \X Ta!Id)
    BY <1>2 DEF TagRequest
  <2>4. [q EXCEPT !.late = q.late \cup done] \in TagRequest
    BY <2>3 DEF TagRequest
  <2>5. Later(q, [q EXCEPT !.late = q.late \cup done], done)
    BY DEF Later, TagRequest
  <2> QED
    BY <2>1, <2>2, <2>4, <2>5
<1>5. \A h \in Req : h # r /\ retag[h].pc = "idle" => retag'[h] = Ta!Idle
  BY <1>1
<1>6. retag'[r] = c
  BY <1>1
<1>7. \A h \in Req : retag'[h] \in TagRequest
  BY <1>4, <1>5, <1>6, IdleIsTagRequest
<1>8. retag' \in [Req -> TagRequest]
  BY <1>1, <1>7
<1>9. \A h \in Req : h # r => \/ retag'[h] = Ta!Idle /\ retag[h].pc = "idle"
                              \/ Later(retag[h], retag'[h], done)
  BY <1>4, <1>5
<1> QED
  BY <1>3, <1>6, <1>8, <1>9

\* The names after the tags of a request are made.
LEMMA ValuesAre ==
    ASSUME Ta!TagConstants, TagsInv, NEW r \in Req, NEW v, v = Ta!Values(r)
    PROVE  /\ v \in [Ta!Id -> Name \cup {NoName}]
           /\ \A i \in Ta!Id, n \in Name : /\ v[i] = n => value[i] = n \/ <<i, n>> \in retag[r].new
                                           /\ <<i, n>> \in retag[r].new => v[i] = n
                                           /\ v[i] = n /\ n \notin twins => value[i] = n \/ synonym[n] = 0
           /\ \A i \in Ta!Id : /\ value[i] # NoName => v[i] = value[i]
                               /\ v[i] # NoName => i <= ids
           /\ \A i, j \in Ta!Id : v[i] # NoName /\ v[i] = v[j] => i = j
<1>1. PICK p \in TagRequest : p = retag[r] /\ NewOnes(p)
  BY TagFacts DEF TagSound
<1>2. v = [i \in Ta!Id |-> IF \E n \in Name : <<i, n>> \in p.new
                        THEN CHOOSE n \in Name : <<i, n>> \in p.new ELSE value[i]]
  BY <1>1 DEF Ta!Values
<1>3. ASSUME NEW i \in Ta!Id, NEW n \in Name, <<i, n>> \in p.new
      PROVE  v[i] = n
  <2>1. v[i] = CHOOSE m \in Name : <<i, m>> \in p.new
    BY <1>2, <1>3
  <2>2. v[i] \in Name /\ <<i, v[i]>> \in p.new
    BY <1>3, <2>1
  <2> QED
    BY <1>1, <1>3, <2>2 DEF NewOnes
<1>4. \A i \in Ta!Id : ~(\E n \in Name : <<i, n>> \in p.new) => v[i] = value[i]
  BY <1>2
<1>5. value \in [Ta!Id -> Name \cup {NoName}] /\ NoName \notin Name
  BY DEF TagsInv, TagTyped, Ta!TagConstants
<1>6. \A i \in Ta!Id : v[i] \in Name \cup {NoName}
  BY <1>3, <1>4, <1>5
<1>7. v \in [Ta!Id -> Name \cup {NoName}]
  BY <1>2, <1>6
<1>8. ASSUME NEW i \in Ta!Id, NEW n \in Name, v[i] = n PROVE value[i] = n \/ <<i, n>> \in p.new
  BY <1>3, <1>4, <1>8
<1>9. ASSUME NEW i \in Ta!Id, value[i] # NoName PROVE v[i] = value[i]
  <2>1. ~(\E n \in Name : <<i, n>> \in p.new)
    BY <1>1, <1>9 DEF NewOnes
  <2> QED
    BY <1>4, <2>1
<1>10. ASSUME NEW i \in Ta!Id, v[i] # NoName PROVE i <= ids
  <2>1. v[i] \in Name
    BY <1>6, <1>10
  <2>2. value[i] = v[i] \/ <<i, v[i]>> \in p.new
    BY <1>8, <2>1
  <2> QED
    BY <1>1, <1>10, <2>1, <2>2 DEF NewOnes, TagsInv, TagLinks
<1>11. ASSUME NEW i \in Ta!Id, NEW j \in Ta!Id, v[i] # NoName, v[i] = v[j] PROVE i = j
  <2>1. PICK n \in Name : n = v[i] /\ n = v[j]
    BY <1>6, <1>11
  <2>2. (value[i] = n \/ <<i, n>> \in p.new) /\ (value[j] = n \/ <<j, n>> \in p.new)
    BY <1>8, <2>1
  <2>3. <<i, n>> \in p.new \/ <<j, n>> \in p.new => \A k \in Ta!Id : value[k] # n
    BY <1>1 DEF NewOnes
  <2>4. <<i, n>> \in p.new /\ <<j, n>> \in p.new => i = j
    BY <1>1 DEF NewOnes
  <2>5. value[i] = n /\ value[j] = n => i = j
    BY <1>5 DEF TagsInv, TagLinks
  <2> QED
    BY <2>2, <2>3, <2>4, <2>5
<1>12. ASSUME NEW i \in Ta!Id, NEW n \in Name, v[i] = n, n \notin twins PROVE value[i] = n \/ synonym[n] = 0
  BY <1>1, <1>8, <1>12 DEF NewOnes
<1> QED
  BY <1>1, <1>3, <1>7, <1>8, <1>9, <1>10, <1>11, <1>12

\* What holds of names and synonyms when nothing but new tags come.
LEMMA MadeLinks ==
    ASSUME Ta!TagConstants, TagsInv, NEW r \in Req, value' = Ta!Values(r), ids' = ids,
           UNCHANGED <<synonym, twins>>, tagged' = Ta!Rows(r)
    PROVE  /\ TagLinks' /\ Ta!NamesOnce'
           /\ value' \in [Ta!Id -> Name \cup {NoName}] /\ tagged' \subseteq Topic \X Ta!Id
           /\ CommitsNames(retag[r]) /\ CommitsSynonyms
           /\ \A i \in Ta!Id : value[i] # NoName => value'[i] = value[i]
           /\ \A h \in Req : Spares(retag[h])
<1>1. PICK p \in TagRequest : p = retag[r] /\ Keys(p) /\ NewOnes(p)
  BY TagFacts DEF TagSound
<1>2. tagged' = (tagged \ p.rem) \cup p.ins
  BY <1>1 DEF Ta!Rows
<1>3. /\ value' \in [Ta!Id -> Name \cup {NoName}]
      /\ \A i \in Ta!Id, n \in Name : /\ value'[i] = n => value[i] = n \/ <<i, n>> \in p.new
                                      /\ <<i, n>> \in p.new => value'[i] = n
                                      /\ value'[i] = n /\ n \notin twins => value[i] = n \/ synonym[n] = 0
      /\ \A i \in Ta!Id : /\ value[i] # NoName => value'[i] = value[i]
                          /\ value'[i] # NoName => i <= ids
      /\ \A i, j \in Ta!Id : value'[i] # NoName /\ value'[i] = value'[j] => i = j
  <2>1. PICK v : v = value'
    OBVIOUS
  <2> QED
    BY <1>1, <2>1, ValuesAre
<1>4. NoName \notin Name /\ tagged \subseteq Topic \X Ta!Id /\ p.ins \subseteq Topic \X Ta!Id
      /\ synonym \in [Name -> 0..MaxIds]
  BY DEF Ta!TagConstants, TagsInv, TagTyped, TagRequest
<1>5. ASSUME NEW u \in Topic, NEW i \in Ta!Id, <<u, i>> \in tagged' PROVE value'[i] # NoName
  <2>1. CASE <<u, i>> \in tagged
    BY <1>3, <2>1 DEF TagsInv, TagLinks
  <2>2. CASE <<u, i>> \in p.ins
    <3>1. value[i] # NoName \/ \E n \in Name : <<i, n>> \in p.new
      BY <1>1, <2>2 DEF Keys
    <3> QED
      BY <1>3, <1>4, <3>1
  <2> QED
    BY <1>2, <1>5, <2>1, <2>2
<1>6. ASSUME NEW n \in Name, synonym[n] # 0 PROVE value'[synonym[n]] # NoName
  <2>1. synonym[n] \in Ta!Id
    BY <1>4, <1>6 DEF Ta!Id, Ta!TagConstants
  <2>2. value[synonym[n]] # NoName
    BY <1>6 DEF TagsInv, TagLinks
  <2> QED
    BY <1>3, <2>1, <2>2
<1>7. TagLinks'
  BY <1>3, <1>5, <1>6 DEF TagLinks
<1>8. Ta!NamesOnce'
  <2> SUFFICES ASSUME NEW n \in Name \ twins, NEW i \in Ta!Id, value'[i] = n
               PROVE  synonym[n] = 0
    BY DEF Ta!NamesOnce, Ta!Canonical
  <2>1. value[i] = n => synonym[n] = 0
    BY DEF TagsInv, Ta!NamesOnce, Ta!Canonical
  <2> QED
    BY <1>3, <2>1
<1>9. CommitsNames(p) /\ CommitsSynonyms /\ \A h \in Req : Spares(retag[h])
  BY <1>3 DEF CommitsNames, CommitsSynonyms, Spares
<1> QED
  BY <1>1, <1>2, <1>3, <1>4, <1>7, <1>8, <1>9

LEMMA QueueRecord ==
    ASSUME Ta!TagConstants, NEW u, u \in Topic
    PROVE  LET c == [Ta!Idle EXCEPT !.pc = "queue", !.affected = {u}] IN
           c \in TagRequest /\ Plain(c) /\ c.pc = "queue" /\ c.affected = {u}
<1>1. {u} \in SUBSET Topic
  OBVIOUS
<1>2. [Ta!Idle EXCEPT !.pc = "queue", !.affected = {u}] \in TagRequest
  BY <1>1, IdleIsTagRequest DEF TagRequest, TagPc
<1> QED
  BY <1>2 DEF Plain, Ta!Idle

\* The topics that a tag should be counted for.
Seen(i) == {u \in Ta!With(i) : <<u, i>> \notin unseen}

LEMMA EnoughIsCounted ==
    ASSUME Ta!TagConstants, TagsInv, NEW i \in Ta!Id
    PROVE  /\ IsFiniteSet(Seen(i)) /\ Cardinality(Seen(i)) \in Nat /\ counter[i] \in Nat
           /\ i \notin short => Cardinality(Seen(i)) <= counter[i]
           /\ \A T \in SUBSET Seen(i) : Cardinality(T) \in Nat /\ Cardinality(T) <= Cardinality(Seen(i))
<1>1. Seen(i) \in SUBSET Topic
  BY DEF Seen, Ta!With
<1>2. IsFiniteSet(Seen(i)) /\ Cardinality(Seen(i)) \in Nat
  BY <1>1, FS_Subset, FS_CardinalityType, TaFinite DEF Ta!TagConstants
<1>3. counter[i] \in Nat
  BY DEF TagsInv, TagTyped
<1>4. ASSUME i \notin short PROVE Cardinality(Seen(i)) <= counter[i]
  <2>1. CASE value[i] # NoName
    BY <1>2, <1>3, <1>4, <2>1, TaCounts DEF TagsInv, Ta!NotShort, Ta!Exists, Seen
  <2>2. CASE value[i] = NoName
    <3>1. Seen(i) = {}
      BY <2>2 DEF Seen, Ta!With, TagsInv, TagLinks
    <3>2. Cardinality(Seen(i)) = 0
      BY <3>1, FS_EmptySet
    <3> QED
      BY <1>3, <3>2
  <2> QED
    BY <2>1, <2>2
<1>5. \A T \in SUBSET Seen(i) : Cardinality(T) \in Nat /\ Cardinality(T) <= Cardinality(Seen(i))
  BY <1>2, FS_Subset, FS_CardinalityType
<1> QED
  BY <1>2, <1>3, <1>4, <1>5

\* What is to show of the counters that a commit leaves.
LEMMA CountedEnough ==
    ASSUME Ta!TagConstants, counter' \in [Ta!Id -> Nat],
           \A i \in Ta!Id \ short' : value'[i] # NoName => Cardinality(Seen(i)') <= counter'[i]
    PROVE  Ta!NotShort'
<1>1. \A i \in Ta!Id : Seen(i)' \in SUBSET Topic
  BY DEF Seen, Ta!With
<1>2. \A i \in Ta!Id : Cardinality(Seen(i)') \in Nat /\ counter'[i] \in Nat
  BY <1>1, FS_Subset, FS_CardinalityType, TaFinite DEF Ta!TagConstants
<1> QED
  BY <1>2, TaCounts DEF Ta!NotShort, Ta!Exists, Seen

LEMMA EditCommitTags ==
    ASSUME Ta!TagConstants, TagsInv, NEW r \in Req, Ta!EditCommit(r)
    PROVE  TagsInv'
<1>1. PICK p \in TagRequest : p = retag[r] /\ TagSound(p)
  BY TagFacts
<1> DEFINE c == [Ta!Idle EXCEPT !.pc = "queue", !.affected = {p.topic}]
<1>2. /\ p.pc = "edited" /\ tagged' = Ta!Rows(r) /\ value' = Ta!Values(r) /\ Ta!Commits(r, c)
      /\ counter' = [i \in Ta!Id |-> IF i \in Ta!Raised(r) THEN counter[i] + 1 ELSE counter[i]]
      /\ unseen' = unseen \cap tagged'
      /\ UNCHANGED <<synonym, posted, ids, jobs, indexed, retags, stale, short, twins>>
  BY <1>1 DEF Ta!EditCommit, Ta!index
<1>3. p.topic \in Topic /\ p.ins \subseteq Topic \X Ta!Id
  BY DEF TagRequest
<1>4. c \in TagRequest /\ Plain(c) /\ c.pc = "queue" /\ c.affected = {p.topic}
  BY <1>3, QueueRecord
<1> HIDE DEF c
<1>5. PICK done : /\ retag' \in [Req -> TagRequest] /\ retag'[r] = c
                  /\ \A h \in Req : h # r => \/ retag'[h] = Ta!Idle /\ retag[h].pc = "idle"
                                             \/ Later(retag[h], retag'[h], done)
                  /\ \A u \in Topic, i \in Ta!Id : /\ <<u, i>> \in p.ins => <<"got", i>> \in done
                                                   /\ <<u, i>> \in p.rem => <<"lost", i>> \in done
  BY <1>1, <1>2, <1>4, CommitsAre
<1>6. /\ TagLinks' /\ Ta!NamesOnce'
      /\ value' \in [Ta!Id -> Name \cup {NoName}] /\ tagged' \subseteq Topic \X Ta!Id
      /\ CommitsNames(p) /\ CommitsSynonyms
      /\ \A i \in Ta!Id : value[i] # NoName => value'[i] = value[i]
      /\ \A h \in Req : Spares(retag[h])
  BY <1>1, <1>2, MadeLinks
<1>7. tagged' = (tagged \ p.rem) \cup p.ins
  BY <1>1, <1>2 DEF Ta!Rows
<1>8. CommitsRows(p, done)
  BY <1>5, <1>7 DEF CommitsRows
<1>9. \A i \in Ta!Id : counter[i] \in Nat
  BY DEF TagsInv, TagTyped
<1>10. counter' \in [Ta!Id -> Nat]
  BY <1>2, <1>9
<1>11. TagTyped'
  BY <1>2, <1>5, <1>6, <1>10 DEF TagsInv, TagTyped
<1>12. p.ins \subseteq {p.topic} \X p.add /\ p.rem \subseteq {p.topic} \X p.del
  BY <1>1, <1>2 DEF TagSound, Shape
<1>13. Ta!NotShort'
  <2> SUFFICES ASSUME NEW i \in Ta!Id, i \notin short PROVE Cardinality(Seen(i)') <= counter'[i]
    BY <1>2, <1>10, CountedEnough
  <2>1. /\ IsFiniteSet(Seen(i)) /\ Cardinality(Seen(i)) \in Nat /\ Cardinality(Seen(i)) <= counter[i]
    BY EnoughIsCounted
  <2>2. CASE i \in Ta!Raised(r)
    <3>1. counter'[i] = counter[i] + 1
      BY <1>2, <2>2
    <3>2. Seen(i)' \in SUBSET (Seen(i) \cup {p.topic})
      BY <1>2, <1>7, <1>12 DEF Seen, Ta!With
    <3>3. IsFiniteSet(Seen(i) \cup {p.topic}) /\ Cardinality(Seen(i) \cup {p.topic}) <= Cardinality(Seen(i)) + 1
          /\ Cardinality(Seen(i) \cup {p.topic}) \in Nat
      <4>1. IsFiniteSet(Seen(i) \cup {p.topic})
        BY <2>1, FS_AddElement
      <4>2. Cardinality(Seen(i) \cup {p.topic}) \in Nat
        BY <4>1, FS_CardinalityType
      <4>3. \/ Cardinality(Seen(i) \cup {p.topic}) = Cardinality(Seen(i))
            \/ Cardinality(Seen(i) \cup {p.topic}) = Cardinality(Seen(i)) + 1
        BY <2>1, FS_AddElement
      <4> QED
        BY <2>1, <4>1, <4>2, <4>3
    <3>4. Cardinality(Seen(i)') <= Cardinality(Seen(i) \cup {p.topic}) /\ Cardinality(Seen(i)') \in Nat
      BY <3>2, <3>3, FS_Subset, FS_CardinalityType
    <3> QED
      BY <1>9, <2>1, <3>1, <3>3, <3>4
  <2>3. CASE i \notin Ta!Raised(r)
    <3>1. counter'[i] = counter[i]
      BY <1>2, <2>3
    <3>2. Seen(i)' \in SUBSET Seen(i)
      BY <1>1, <1>2, <1>7, <1>12, <2>3 DEF Seen, Ta!With, Ta!Raised
    <3>3. Cardinality(Seen(i)') \in Nat /\ Cardinality(Seen(i)') <= Cardinality(Seen(i))
      BY <3>2, EnoughIsCounted
    <3> QED
      BY <1>9, <2>1, <3>1, <3>3
  <2> QED
    BY <2>2, <2>3
<1>14. ASSUME NEW u \in Topic, u \in posted' \ (jobs' \cup stale'), ~Awaited(c, u)'
       PROVE  /\ u \in posted
              /\ \A i \in Ta!Id : /\ <<u, i>> \in tagged' <=> <<u, i>> \in tagged
                                  /\ <<u, i>> \in tagged => value'[i] = value[i]
  <2>1. u # p.topic
    BY <1>4, <1>14 DEF Awaited
  <2>2. \A i \in Ta!Id : <<u, i>> \in tagged' <=> <<u, i>> \in tagged
    BY <1>7, <1>12, <2>1
  <2>3. \A i \in Ta!Id : <<u, i>> \in tagged => value[i] # NoName
    BY DEF TagsInv, TagLinks
  <2> QED
    BY <1>2, <1>6, <1>14, <2>2, <2>3
<1>15. p.pc \notin {"idle", "queue", "reindex"} /\ stale \subseteq stale' /\ twins \subseteq twins'
  BY <1>2
<1> QED
  BY <1>1, <1>2, <1>4, <1>5, <1>6, <1>8, <1>11, <1>13, <1>14, <1>15, CommitStays

LEMMA PostCommitTags ==
    ASSUME Ta!TagConstants, TagsInv, NEW r \in Req, Ta!PostCommit(r)
    PROVE  TagsInv'
<1>1. PICK p \in TagRequest : p = retag[r] /\ TagSound(p)
  BY TagFacts
<1> DEFINE c == [Ta!Idle EXCEPT !.pc = "queue", !.affected = {p.topic}]
<1>2. /\ p.pc = "post" /\ tagged' = Ta!Rows(r) /\ value' = Ta!Values(r) /\ Ta!Commits(r, c)
      /\ counter' = [i \in Ta!Id |-> IF i \in p.add THEN p.n[i] ELSE counter[i]]
      /\ short' = (short \ p.add) \cup {i \in p.add : <<"got", i>> \in p.late}
      /\ unseen' = {x \in unseen : x[2] \notin p.add}
      /\ posted' = posted \cup {p.topic}
      /\ UNCHANGED <<synonym, ids, jobs, indexed, retags, stale, twins>>
  BY <1>1 DEF Ta!PostCommit, Ta!index
<1>3. p.topic \in Topic /\ p.ins \subseteq Topic \X Ta!Id /\ p.add \subseteq Ta!Id /\ p.n \in [Ta!Id -> Nat]
  BY DEF TagRequest
<1>4. c \in TagRequest /\ Plain(c) /\ c.pc = "queue" /\ c.affected = {p.topic}
  BY <1>3, QueueRecord
<1> HIDE DEF c
<1>5. PICK done : /\ retag' \in [Req -> TagRequest] /\ retag'[r] = c
                  /\ \A h \in Req : h # r => \/ retag'[h] = Ta!Idle /\ retag[h].pc = "idle"
                                             \/ Later(retag[h], retag'[h], done)
                  /\ \A u \in Topic, i \in Ta!Id : /\ <<u, i>> \in p.ins => <<"got", i>> \in done
                                                   /\ <<u, i>> \in p.rem => <<"lost", i>> \in done
  BY <1>1, <1>2, <1>4, CommitsAre
<1>6. /\ TagLinks' /\ Ta!NamesOnce'
      /\ value' \in [Ta!Id -> Name \cup {NoName}] /\ tagged' \subseteq Topic \X Ta!Id
      /\ CommitsNames(p) /\ CommitsSynonyms
      /\ \A i \in Ta!Id : value[i] # NoName => value'[i] = value[i]
      /\ \A h \in Req : Spares(retag[h])
  BY <1>1, <1>2, MadeLinks
<1>7. tagged' = (tagged \ p.rem) \cup p.ins
  BY <1>1, <1>2 DEF Ta!Rows
<1>8. CommitsRows(p, done)
  BY <1>5, <1>7 DEF CommitsRows
<1>9. \A i \in Ta!Id : counter[i] \in Nat
  BY DEF TagsInv, TagTyped
<1>10. counter' \in [Ta!Id -> Nat]
  BY <1>2, <1>3, <1>9
<1>11. TagTyped'
  BY <1>2, <1>3, <1>5, <1>6, <1>10 DEF TagsInv, TagTyped
<1>12. p.ins = {p.topic} \X p.add /\ p.rem = {}
  BY <1>1, <1>2 DEF TagSound, Shape, Removing
<1>13. Ta!NotShort'
  <2> SUFFICES ASSUME NEW i \in Ta!Id, i \notin short' PROVE Cardinality(Seen(i)') <= counter'[i]
    BY <1>10, CountedEnough
  <2>1. CASE i \in p.add
    <3>1. counter'[i] = p.n[i] /\ <<"got", i>> \notin p.late
      BY <1>2, <2>1
    <3>2. Cardinality(Ta!With(i) \cup {p.topic}) <= p.n[i]
      BY <1>1, <1>2, <2>1, <3>1 DEF TagSound, Counted
    <3>3. Seen(i)' \in SUBSET (Ta!With(i) \cup {p.topic})
      BY <1>7, <1>12 DEF Seen, Ta!With
    <3>4. Ta!With(i) \cup {p.topic} \in SUBSET Topic
      BY <1>3 DEF Ta!With
    <3>5. IsFiniteSet(Ta!With(i) \cup {p.topic}) /\ Cardinality(Ta!With(i) \cup {p.topic}) \in Nat
      BY <3>4, FS_Subset, FS_CardinalityType, TaFinite DEF Ta!TagConstants
    <3>6. Cardinality(Seen(i)') <= Cardinality(Ta!With(i) \cup {p.topic}) /\ Cardinality(Seen(i)') \in Nat
      BY <3>3, <3>5, FS_Subset, FS_CardinalityType
    <3>7. p.n[i] \in Nat
      BY <1>3
    <3> QED
      BY <3>1, <3>2, <3>5, <3>6, <3>7
  <2>2. CASE i \notin p.add
    <3>1. counter'[i] = counter[i] /\ i \notin short
      BY <1>2, <2>2
    <3>2. Seen(i)' \in SUBSET Seen(i)
      <4>1. \A u \in Topic : <<u, i>> \in unseen => <<u, i>> \in unseen'
        BY <1>2, <2>2
      <4> QED
        BY <1>7, <1>12, <2>2, <4>1 DEF Seen, Ta!With
    <3>3. Cardinality(Seen(i)') \in Nat /\ Cardinality(Seen(i)') <= Cardinality(Seen(i))
      BY <3>2, EnoughIsCounted
    <3>4. Cardinality(Seen(i)) \in Nat /\ Cardinality(Seen(i)) <= counter[i]
      BY <3>1, EnoughIsCounted
    <3> QED
      BY <1>9, <3>1, <3>3, <3>4
  <2> QED
    BY <2>1, <2>2
<1>14. ASSUME NEW u \in Topic, u \in posted' \ (jobs' \cup stale'), ~Awaited(c, u)'
       PROVE  /\ u \in posted
              /\ \A i \in Ta!Id : /\ <<u, i>> \in tagged' <=> <<u, i>> \in tagged
                                  /\ <<u, i>> \in tagged => value'[i] = value[i]
  <2>1. u # p.topic
    BY <1>4, <1>14 DEF Awaited
  <2>2. \A i \in Ta!Id : <<u, i>> \in tagged' <=> <<u, i>> \in tagged
    BY <1>7, <1>12, <2>1
  <2>3. \A i \in Ta!Id : <<u, i>> \in tagged => value[i] # NoName
    BY DEF TagsInv, TagLinks
  <2> QED
    BY <1>2, <1>6, <1>14, <2>1, <2>2, <2>3
<1>15. p.pc \notin {"idle", "queue", "reindex"} /\ stale \subseteq stale' /\ twins \subseteq twins'
  BY <1>2
<1> QED
  BY <1>1, <1>2, <1>4, <1>5, <1>6, <1>8, <1>11, <1>13, <1>14, <1>15, CommitStays, SMTT(30)

\* One request ends, and no other notes it.
LEMMA NoteOne ==
    ASSUME Ta!TagConstants, TagsInv, NEW r \in Req, NEW c \in TagRequest, retag' = [retag EXCEPT ![r] = c]
    PROVE  /\ retag' \in [Req -> TagRequest] /\ retag'[r] = c
           /\ \A h \in Req : h # r => Later(retag[h], retag'[h], {})
<1> QED
  BY DEF TagsInv, TagTyped, Later

LEMMA RenameCommitTags ==
    ASSUME Ta!TagConstants, TagsInv, NEW r \in Req, Ta!RenameCommit(r)
    PROVE  TagsInv'
<1>1. PICK p \in TagRequest : p = retag[r] /\ TagSound(p)
  BY TagFacts
<1>2. /\ p.pc = "renamed"
      /\ synonym' = IF p.syn THEN [synonym EXCEPT ![p.name] = 0] ELSE synonym
      /\ twins' = IF value[p.old] # NoName /\ synonym[p.name] # 0 /\ ~p.syn THEN twins \cup {p.name} ELSE twins
      /\ value' = IF value[p.old] # NoName THEN [value EXCEPT ![p.old] = p.name] ELSE value
      /\ retag' = [retag EXCEPT ![r] = Ta!Idle]
      /\ UNCHANGED <<counter, tagged, posted, ids, jobs, indexed, retags, stale, short, unseen>>
  BY <1>1 DEF Ta!RenameCommit, Ta!Done, Ta!Set, Ta!index, Ta!Exists
<1>3. p.pc \in Renaming /\ p.pc \in OfTag
  BY <1>2 DEF Renaming, OfTag
<1>4. p.old \in Ta!Id /\ p.name \in Name
  BY <1>1, <1>3 DEF TagSound, Shape
<1>5. /\ value[p.old] = NoName \/ \A j \in Ta!Id : value[j] # p.name
      /\ \A u \in Topic : <<u, p.old>> \in tagged => u \in jobs \cup stale
  BY <1>1, <1>2, <1>3 DEF TagSound, Renames, Told
<1>6. Ta!Idle \in TagRequest /\ Plain(Ta!Idle)
  BY IdleIsTagRequest DEF Plain, Ta!Idle
<1>7. /\ value \in [Ta!Id -> Name \cup {NoName}] /\ synonym \in [Name -> 0..MaxIds]
      /\ NoName \notin Name /\ 0 \in 0..MaxIds
  BY DEF TagsInv, TagTyped, Ta!TagConstants
<1>8. /\ value' \in [Ta!Id -> Name \cup {NoName}] /\ synonym' \in [Name -> 0..MaxIds]
      /\ p.syn => synonym'[p.name] = 0
      /\ \A n \in Name : n # p.name \/ ~p.syn => synonym'[n] = synonym[n]
      /\ \A i \in Ta!Id : i # p.old => value'[i] = value[i]
      /\ value[p.old] = NoName => value'[p.old] = NoName
      /\ value[p.old] # NoName => value'[p.old] = p.name
  BY <1>2, <1>4, <1>7
<1>9. /\ retag' \in [Req -> TagRequest] /\ retag'[r] = Ta!Idle
      /\ \A h \in Req : h # r => Later(retag[h], retag'[h], {})
  BY <1>2, <1>6, NoteOne
<1>10. TagTyped'
  BY <1>2, <1>8, <1>9 DEF TagsInv, TagTyped
<1>11. CommitsNames(p) /\ CommitsRows(p, {}) /\ CommitsSynonyms /\ \A h \in Req : Spares(retag[h])
  <2>1. CommitsNames(p)
    BY <1>2, <1>7, <1>8 DEF CommitsNames
  <2>2. CommitsRows(p, {})
    BY <1>2 DEF CommitsRows
  <2>3. CommitsSynonyms
    BY <1>8 DEF CommitsSynonyms
  <2>4. \A h \in Req : Spares(retag[h])
    BY <1>4, <1>7, <1>8 DEF Spares
  <2> QED
    BY <2>1, <2>2, <2>3, <2>4
<1>12. TagLinks'
  <2>1. \A i \in Ta!Id : value[i] # NoName <=> value'[i] # NoName
    BY <1>4, <1>7, <1>8
  <2>2. \A u \in Topic, i \in Ta!Id : <<u, i>> \in tagged' => value'[i] # NoName
    BY <1>2, <2>1 DEF TagsInv, TagLinks
  <2>3. ASSUME NEW n \in Name, synonym'[n] # 0 PROVE value'[synonym'[n]] # NoName
    <3>1. synonym'[n] = synonym[n] /\ synonym[n] \in Ta!Id
      BY <1>2, <1>4, <1>7, <1>8, <2>3 DEF Ta!Id, Ta!TagConstants
    <3> QED
      BY <2>1, <2>3, <3>1 DEF TagsInv, TagLinks
  <2>4. ASSUME NEW i \in Ta!Id, NEW j \in Ta!Id, value'[i] # NoName, value'[i] = value'[j] PROVE i = j
    <3>1. CASE i # p.old /\ j # p.old
      BY <1>8, <2>4, <3>1 DEF TagsInv, TagLinks
    <3>2. CASE (i = p.old \/ j = p.old) /\ value[p.old] # NoName
      BY <1>5, <1>8, <2>4, <3>2
    <3>3. CASE (i = p.old \/ j = p.old) /\ value[p.old] = NoName
      BY <1>8, <2>4, <3>3
    <3> QED
      BY <3>1, <3>2, <3>3
  <2>5. \A i \in Ta!Id : value'[i] # NoName => i <= ids'
    BY <1>2, <2>1 DEF TagsInv, TagLinks
  <2> QED
    BY <2>2, <2>3, <2>4, <2>5 DEF TagLinks
<1>13. Ta!NamesOnce'
  <2> SUFFICES ASSUME NEW n \in Name, n \notin twins', NEW i \in Ta!Id, value'[i] = n PROVE synonym'[n] = 0
    BY DEF Ta!NamesOnce, Ta!Canonical
  <2>1. n \notin twins /\ (value[i] = n => synonym[n] = 0)
    BY <1>2 DEF TagsInv, Ta!NamesOnce, Ta!Canonical
  <2>2. CASE n = p.name /\ p.syn
    BY <1>8, <2>2
  <2>3. CASE n # p.name \/ ~p.syn
    <3>1. synonym'[n] = synonym[n]
      BY <1>8, <2>3
    <3>2. CASE value[i] = n
      BY <2>1, <3>1, <3>2
    <3>3. CASE value[i] # n
      <4>1. i = p.old /\ value[p.old] # NoName /\ n = p.name
        BY <1>7, <1>8, <3>3
      <4> QED
        BY <1>2, <2>3, <3>1, <4>1
    <3> QED
      BY <3>2, <3>3
  <2> QED
    BY <2>2, <2>3
<1>14. Ta!NotShort'
  <2>1. \A i \in Ta!Id : value[i] # NoName <=> value'[i] # NoName
    BY <1>4, <1>7, <1>8
  <2> QED
    BY <1>2, <2>1, TaCounts DEF TagsInv, Ta!NotShort, Ta!Exists, Ta!With
<1>15. ASSUME NEW u \in Topic, u \in posted' \ (jobs' \cup stale'), ~Awaited(Ta!Idle, u)'
       PROVE  /\ u \in posted
              /\ \A i \in Ta!Id : /\ <<u, i>> \in tagged' <=> <<u, i>> \in tagged
                                  /\ <<u, i>> \in tagged => value'[i] = value[i]
  BY <1>2, <1>5, <1>8, <1>15
<1>16. p.pc \notin {"idle", "queue", "reindex"} /\ stale \subseteq stale' /\ twins \subseteq twins'
  BY <1>2
<1> QED
  BY <1>1, <1>2, <1>6, <1>9, <1>10, <1>11, <1>12, <1>13, <1>14, <1>15, <1>16, CommitStays

LEMMA SweepCommitTags ==
    ASSUME Ta!TagConstants, TagsInv, NEW r \in Req, Ta!SweepCommit(r)
    PROVE  TagsInv'
<1>1. PICK p \in TagRequest : p = retag[r] /\ TagSound(p)
  BY TagFacts
<1>2. PICK counted : counted = {i \in p.add : value[i] # NoName}
  OBVIOUS
<1>3. /\ p.pc = "sweep" /\ retag' = [retag EXCEPT ![r] = Ta!Idle]
      /\ counter' = [i \in Ta!Id |-> IF i \in counted THEN p.n[i] ELSE counter[i]]
      /\ short' = (short \ counted) \cup {i \in counted : <<"got", i>> \in p.late}
      /\ unseen' = {x \in tagged : IF x[2] \in counted THEN x \in p.hidden ELSE x \in unseen}
      /\ UNCHANGED <<value, synonym, tagged, posted, ids, jobs, indexed, retags, stale, twins>>
  BY <1>1, <1>2 DEF Ta!SweepCommit, Ta!Done, Ta!Set, Ta!index, Ta!Exists
<1>4. p.n \in [Ta!Id -> Nat] /\ p.add \subseteq Ta!Id
  BY DEF TagRequest
<1>5. Ta!Idle \in TagRequest /\ Plain(Ta!Idle)
  BY IdleIsTagRequest DEF Plain, Ta!Idle
<1>6. /\ retag' \in [Req -> TagRequest] /\ retag'[r] = Ta!Idle
      /\ \A h \in Req : h # r => Later(retag[h], retag'[h], {})
  BY <1>3, <1>5, NoteOne
<1>7. \A i \in Ta!Id : counter[i] \in Nat
  BY DEF TagsInv, TagTyped
<1>8. counter' \in [Ta!Id -> Nat]
  BY <1>3, <1>4, <1>7
<1>9. TagTyped'
  BY <1>3, <1>6, <1>8 DEF TagsInv, TagTyped
<1>10. CommitsNames(p) /\ CommitsRows(p, {}) /\ CommitsSynonyms /\ \A h \in Req : Spares(retag[h])
  BY <1>3 DEF CommitsNames, CommitsRows, CommitsSynonyms, Spares
<1>11. TagLinks' /\ Ta!NamesOnce'
  BY <1>3 DEF TagsInv, TagLinks, Ta!NamesOnce, Ta!Canonical
<1>12. Ta!NotShort'
  <2> SUFFICES ASSUME NEW i \in Ta!Id, i \notin short' PROVE Cardinality(Seen(i)') <= counter'[i]
    BY <1>8, CountedEnough
  <2>1. \A u \in Topic : <<u, i>>[2] = i
    OBVIOUS
  <2>2. CASE i \in counted
    <3>1. i \in p.add /\ <<"got", i>> \notin p.late /\ counter'[i] = p.n[i]
      BY <1>2, <1>3, <2>2
    <3>2. Cardinality(SeenBy(p, i)) <= p.n[i]
      BY <1>1, <1>3, <3>1 DEF TagSound, Counted
    <3>3. Seen(i)' = SeenBy(p, i)
      BY <1>3, <2>1, <2>2 DEF Seen, SeenBy, Ta!With
    <3> QED
      BY <3>1, <3>2, <3>3
  <2>3. CASE i \notin counted
    <3>1. i \notin short /\ counter'[i] = counter[i]
      BY <1>3, <2>3
    <3>2. Seen(i)' = Seen(i)
      BY <1>3, <2>1, <2>3 DEF Seen, Ta!With
    <3> QED
      BY <3>1, <3>2, EnoughIsCounted
  <2> QED
    BY <2>2, <2>3
<1>13. ASSUME NEW u \in Topic, u \in posted' \ (jobs' \cup stale')
       PROVE  /\ u \in posted
              /\ \A i \in Ta!Id : /\ <<u, i>> \in tagged' <=> <<u, i>> \in tagged
                                  /\ <<u, i>> \in tagged => value'[i] = value[i]
  BY <1>3, <1>13
<1>14. p.pc \notin {"idle", "queue", "reindex"} /\ stale \subseteq stale' /\ twins \subseteq twins'
  BY <1>3
<1> QED
  BY <1>1, <1>3, <1>5, <1>6, <1>9, <1>10, <1>11, <1>12, <1>13, <1>14, CommitStays

LEMMA DeleteCommitTags ==
    ASSUME Ta!TagConstants, TagsInv, NEW r \in Req, Ta!DeleteCommit(r)
    PROVE  TagsInv'
<1>1. PICK p \in TagRequest : p = retag[r] /\ TagSound(p)
  BY TagFacts
<1> DEFINE c == [Ta!Idle EXCEPT !.pc = "queue", !.affected = p.affected]
<1>2. /\ p.pc = "deleted" /\ ~Ta!Locked(r, p.old) /\ {x \in tagged : x[2] = p.old} \subseteq p.rem
      /\ tagged' = (tagged \ p.rem) \cup p.ins
      /\ value' = [value EXCEPT ![p.old] = NoName]
      /\ synonym' = [n \in Name |-> IF synonym[n] = p.old THEN 0 ELSE synonym[n]]
      /\ stale' = stale \cup ({x[1] : x \in p.rem} \ p.affected)
      /\ retag' = [retag EXCEPT ![r] = c]
      /\ unseen' = unseen \cap tagged'
      /\ UNCHANGED <<counter, posted, ids, jobs, indexed, retags, short, twins>>
  BY <1>1 DEF Ta!DeleteCommit, Ta!Set, Ta!index, Ta!Unused, Ta!Rows
<1>3. p.pc \in OfTag /\ p.pc \notin Inserting
  BY <1>2 DEF OfTag, Inserting
<1>4. p.old \in Ta!Id /\ p.ins = {} /\ p.rem \subseteq Topic \X {p.old} /\ p.affected \subseteq Topic
  BY <1>1, <1>2, <1>3 DEF TagSound, Shape, TagRequest
<1>5. c \in TagRequest
  BY <1>4, IdleIsTagRequest, PhasesKnown DEF TagRequest
<1>6. Plain(c) /\ c.pc = "queue" /\ c.affected = p.affected
  BY DEF Plain, Ta!Idle
<1> HIDE DEF c
<1>7. /\ retag' \in [Req -> TagRequest] /\ retag'[r] = c
      /\ \A h \in Req : h # r => Later(retag[h], retag'[h], {})
  BY <1>2, <1>5, NoteOne
<1>8. /\ value \in [Ta!Id -> Name \cup {NoName}] /\ synonym \in [Name -> 0..MaxIds]
      /\ NoName \notin Name /\ 0 \in 0..MaxIds /\ tagged \subseteq Topic \X Ta!Id
  BY DEF TagsInv, TagTyped, Ta!TagConstants
<1>9. /\ value' \in [Ta!Id -> Name \cup {NoName}] /\ synonym' \in [Name -> 0..MaxIds]
      /\ value'[p.old] = NoName /\ \A i \in Ta!Id : i # p.old => value'[i] = value[i]
      /\ \A n \in Name : synonym'[n] = 0 \/ (synonym'[n] = synonym[n] /\ synonym[n] # p.old)
  BY <1>2, <1>4, <1>8
<1>10. tagged' \subseteq tagged /\ \A u \in Topic, i \in Ta!Id : <<u, i>> \in tagged /\ i # p.old => <<u, i>> \in tagged'
  BY <1>2, <1>4
<1>11. \A u \in Topic : <<u, p.old>> \notin tagged'
  <2>1. \A u \in Topic : <<u, p.old>> \in tagged => <<u, p.old>> \in p.rem
    BY <1>2
  <2> QED
    BY <1>2, <1>4, <2>1
<1>12. TagTyped'
  BY <1>2, <1>7, <1>9, <1>10 DEF TagsInv, TagTyped
<1>13. CommitsNames(p) /\ CommitsRows(p, {}) /\ CommitsSynonyms
  <2>1. CommitsNames(p)
    BY <1>8, <1>9 DEF CommitsNames
  <2>2. CommitsRows(p, {})
    BY <1>9, <1>10 DEF CommitsRows
  <2>3. CommitsSynonyms
    BY <1>9 DEF CommitsSynonyms
  <2> QED
    BY <2>1, <2>2, <2>3
<1>14. ASSUME NEW h \in Req, h # r PROVE Spares(retag[h])
  <2>1. \A u \in Topic : <<u, p.old>> \notin retag[h].ins
    BY <1>2, <1>14 DEF Ta!Locked, Ta!Shares, Ta!Others
  <2> QED
    BY <1>9, <2>1 DEF Spares
<1>15. TagLinks'
  <2>1. \A u \in Topic, i \in Ta!Id : <<u, i>> \in tagged' => value'[i] # NoName
    BY <1>9, <1>10, <1>11 DEF TagsInv, TagLinks
  <2>2. ASSUME NEW n \in Name, synonym'[n] # 0 PROVE value'[synonym'[n]] # NoName
    <3>1. synonym'[n] = synonym[n] /\ synonym[n] \in Ta!Id /\ synonym[n] # p.old
      BY <1>8, <1>9, <2>2 DEF Ta!Id, Ta!TagConstants
    <3> QED
      BY <1>9, <2>2, <3>1 DEF TagsInv, TagLinks
  <2>3. \A i, j \in Ta!Id : value'[i] # NoName /\ value'[i] = value'[j] => i = j
    BY <1>9 DEF TagsInv, TagLinks
  <2>4. \A i \in Ta!Id : value'[i] # NoName => i <= ids'
    BY <1>2, <1>9 DEF TagsInv, TagLinks
  <2> QED
    BY <2>1, <2>2, <2>3, <2>4 DEF TagLinks
<1>16. Ta!NamesOnce'
  <2> SUFFICES ASSUME NEW n \in Name \ twins, NEW i \in Ta!Id, value'[i] = n PROVE synonym'[n] = 0
    BY <1>2 DEF Ta!NamesOnce, Ta!Canonical
  <2>1. value[i] = n
    BY <1>8, <1>9
  <2> QED
    BY <1>9, <2>1 DEF TagsInv, Ta!NamesOnce, Ta!Canonical
<1>17. Ta!NotShort'
  <2>1. ASSUME NEW i \in Ta!Id, i \notin short PROVE Cardinality(Seen(i)') <= counter[i]
    <3>1. Seen(i)' \in SUBSET Seen(i)
      BY <1>2, <1>10 DEF Seen, Ta!With
    <3>2. Cardinality(Seen(i)') \in Nat /\ Cardinality(Seen(i)') <= Cardinality(Seen(i))
      BY <3>1, EnoughIsCounted
    <3>3. Cardinality(Seen(i)) \in Nat /\ Cardinality(Seen(i)) <= counter[i] /\ counter[i] \in Nat
      BY <2>1, EnoughIsCounted
    <3> QED
      BY <3>2, <3>3
  <2>2. counter' \in [Ta!Id -> Nat]
    BY <1>12 DEF TagTyped
  <2> QED
    BY <1>2, <2>1, <2>2, CountedEnough
<1>18. ASSUME NEW u \in Topic, u \in posted' \ (jobs' \cup stale'), ~Awaited(c, u)'
       PROVE  /\ u \in posted
              /\ \A i \in Ta!Id : /\ <<u, i>> \in tagged' <=> <<u, i>> \in tagged
                                  /\ <<u, i>> \in tagged => value'[i] = value[i]
  <2>1. u \notin p.affected
    BY <1>6, <1>18 DEF Awaited
  <2>2. <<u, p.old>> \notin p.rem
    <3>1. <<u, p.old>>[1] = u
      OBVIOUS
    <3>2. <<u, p.old>> \in p.rem => u \in {x[1] : x \in p.rem}
      BY <3>1
    <3> QED
      BY <1>2, <1>18, <2>1, <3>2
  <2>3. <<u, p.old>> \notin tagged
    BY <1>2, <2>2
  <2> QED
    BY <1>2, <1>9, <1>10, <1>18, <2>3
<1>19. p.pc \notin {"idle", "queue", "reindex"} /\ stale \subseteq stale' /\ twins \subseteq twins'
  BY <1>2
<1> QED
  BY <1>1, <1>2, <1>5, <1>6, <1>7, <1>12, <1>13, <1>14, <1>15, <1>16, <1>17, <1>18, <1>19, CommitStays

LEMMA MergeCommitTags ==
    ASSUME Ta!TagConstants, TagsInv, NEW r \in Req, Ta!MergeCommit(r)
    PROVE  TagsInv'
<1>1. PICK p \in TagRequest : p = retag[r] /\ TagSound(p)
  BY TagFacts
<1>2. PICK v : v = Ta!Values(r)
  OBVIOUS
<1> DEFINE c == [Ta!Idle EXCEPT !.pc = "reindex", !.target = p.target]
           Follows(n) == (p.syn /\ n = p.name) \/ synonym[n] = p.old
<1>3. /\ p.pc = "merged" /\ ~Ta!Locked(r, p.old) /\ {x \in tagged : x[2] = p.old} \subseteq p.rem
      /\ \/ value[p.target] # NoName \/ p.new # {}
         \/ \A n \in Name : (IF Follows(n) THEN p.target ELSE synonym[n]) # p.target
      /\ tagged' = (tagged \ p.rem) \cup p.ins
      /\ value' = [v EXCEPT ![p.old] = NoName]
      /\ counter' = [counter EXCEPT ![p.target] = @ + p.n[p.target]]
      /\ synonym' = [n \in Name |-> IF Follows(n) THEN p.target ELSE synonym[n]]
      /\ twins' = IF p.syn /\ value[p.old] # p.name THEN twins \cup {p.name} ELSE twins
      /\ short' = IF p.missed THEN short \cup {p.target} ELSE short
      /\ stale' = stale \cup {x[1] : x \in {y \in p.rem : <<y[1], p.target>> \notin tagged'}}
      /\ unseen' = unseen \cap tagged'
      /\ Ta!Commits(r, c)
      /\ UNCHANGED <<posted, ids, jobs, indexed, retags>>
  BY <1>1, <1>2 DEF Ta!MergeCommit, Ta!index, Ta!Unused, Ta!Rows, Ta!Follow, Ta!Leads, Ta!Exists
<1>4. p.pc \in OfTag /\ p.pc \in Moving
  BY <1>3 DEF OfTag, Moving
<1>5. /\ p.old \in Ta!Id /\ p.target \in Ta!Id /\ p.target # p.old /\ p.name \in Name
      /\ p.ins \subseteq Topic \X {p.target} /\ p.rem \subseteq Topic \X {p.old}
      /\ \A i \in Ta!Id, n \in Name : <<i, n>> \in p.new => i = p.target
  BY <1>1, <1>3, <1>4 DEF TagSound, Shape
<1>6. p.new \subseteq Ta!Id \X Name /\ p.target \in 0..MaxIds /\ p.syn \in BOOLEAN /\ p.n[p.target] \in Nat
  BY <1>5 DEF TagRequest
<1>7. p.new # {} => \E n \in Name : <<p.target, n>> \in p.new
  <2> SUFFICES ASSUME NEW x \in p.new PROVE \E n \in Name : <<p.target, n>> \in p.new
    OBVIOUS
  <2>1. PICK i \in Ta!Id, n \in Name : x = <<i, n>>
    BY <1>6
  <2> QED
    BY <1>5, <2>1
<1>8. c \in TagRequest /\ Plain(c) /\ c.pc = "reindex" /\ c.target = p.target
  <2>1. c \in TagRequest
    BY <1>6, IdleIsTagRequest, PhasesKnown DEF TagRequest
  <2> QED
    BY <2>1 DEF Plain, Ta!Idle
<1> HIDE DEF c, Follows
<1>9. PICK done : /\ retag' \in [Req -> TagRequest] /\ retag'[r] = c
                  /\ \A h \in Req : h # r => \/ retag'[h] = Ta!Idle /\ retag[h].pc = "idle"
                                             \/ Later(retag[h], retag'[h], done)
                  /\ \A u \in Topic, i \in Ta!Id : /\ <<u, i>> \in p.ins => <<"got", i>> \in done
                                                   /\ <<u, i>> \in p.rem => <<"lost", i>> \in done
  BY <1>1, <1>3, <1>8, CommitsAre
<1>10. /\ v \in [Ta!Id -> Name \cup {NoName}]
       /\ \A i \in Ta!Id, n \in Name : /\ v[i] = n => value[i] = n \/ <<i, n>> \in p.new
                                       /\ <<i, n>> \in p.new => v[i] = n
                                       /\ v[i] = n /\ n \notin twins => value[i] = n \/ synonym[n] = 0
       /\ \A i \in Ta!Id : /\ value[i] # NoName => v[i] = value[i]
                           /\ v[i] # NoName => i <= ids
       /\ \A i, j \in Ta!Id : v[i] # NoName /\ v[i] = v[j] => i = j
  BY <1>1, <1>2, ValuesAre
<1>11. /\ synonym \in [Name -> 0..MaxIds] /\ NoName \notin Name /\ 0 \in 0..MaxIds
       /\ tagged \subseteq Topic \X Ta!Id /\ counter \in [Ta!Id -> Nat] /\ value \in [Ta!Id -> Name \cup {NoName}]
  BY DEF TagsInv, TagTyped, Ta!TagConstants
<1>12. /\ value' \in [Ta!Id -> Name \cup {NoName}] /\ value'[p.old] = NoName
       /\ \A i \in Ta!Id : i # p.old => value'[i] = v[i]
  BY <1>3, <1>5, <1>10
<1>13. synonym' \in [Name -> 0..MaxIds]
       /\ \A n \in Name : /\ Follows(n) => synonym'[n] = p.target
                          /\ ~Follows(n) => synonym'[n] = synonym[n]
  BY <1>3, <1>6, <1>11
<1>14. /\ counter' \in [Ta!Id -> Nat] /\ counter'[p.target] = counter[p.target] + p.n[p.target]
       /\ \A i \in Ta!Id : i # p.target => counter'[i] = counter[i]
  BY <1>3, <1>5, <1>6, <1>11
<1>15. tagged' \subseteq Topic \X Ta!Id
  BY <1>3, <1>5, <1>11
<1>16. TagTyped'
  BY <1>3, <1>9, <1>12, <1>13, <1>14, <1>15 DEF TagsInv, TagTyped
<1>17. p.old # 0
  BY <1>5 DEF Ta!Id, Ta!TagConstants
<1>18. \A u \in Topic : <<u, p.old>> \notin tagged'
  <2>1. \A u \in Topic : <<u, p.old>> \in tagged => <<u, p.old>> \in p.rem
    BY <1>3
  <2> QED
    BY <1>3, <1>5, <2>1
<1>19. CommitsNames(p) /\ CommitsRows(p, done)
  <2>1. CommitsNames(p)
    BY <1>10, <1>11, <1>12 DEF CommitsNames
  <2>2. CommitsRows(p, done)
    BY <1>3, <1>9 DEF CommitsRows
  <2> QED
    BY <2>1, <2>2
<1>20. CommitsSynonyms
  <2> SUFFICES ASSUME NEW n \in Name, n \notin twins', synonym'[n] # 0, synonym[n] = 0
               PROVE  \E i \in Ta!Id : value[i] = n
    BY DEF CommitsSynonyms
  <2>1. p.syn /\ n = p.name
    BY <1>13, <1>17 DEF Follows
  <2> QED
    BY <1>3, <1>5, <2>1
<1>21. ASSUME NEW h \in Req, h # r PROVE Spares(retag[h])
  <2>1. \A u \in Topic : <<u, p.old>> \notin retag[h].ins
    BY <1>3, <1>21 DEF Ta!Locked, Ta!Shares, Ta!Others
  <2> QED
    BY <1>10, <1>12, <2>1 DEF Spares
<1>22. TagLinks'
  <2>1. ASSUME NEW u \in Topic, NEW i \in Ta!Id, <<u, i>> \in tagged' PROVE value'[i] # NoName
    <3>1. i # p.old
      BY <1>18, <2>1
    <3>2. CASE <<u, i>> \in tagged
      BY <1>10, <1>12, <3>1, <3>2 DEF TagsInv, TagLinks
    <3>3. CASE <<u, i>> \in p.ins
      <4>1. value[i] # NoName \/ \E n \in Name : <<i, n>> \in p.new
        BY <1>1, <3>3 DEF TagSound, Keys
      <4>2. ASSUME value[i] # NoName PROVE v[i] # NoName
        BY <1>10, <4>2
      <4>3. ASSUME NEW n \in Name, <<i, n>> \in p.new PROVE v[i] # NoName
        BY <1>10, <1>11, <4>3
      <4>4. v[i] # NoName
        BY <4>1, <4>2, <4>3
      <4> QED
        BY <1>12, <3>1, <4>4
    <3> QED
      BY <1>3, <2>1, <3>2, <3>3
  <2>2. ASSUME NEW n \in Name, synonym'[n] # 0 PROVE value'[synonym'[n]] # NoName
    <3>1. CASE Follows(n)
      <4>1. value[p.target] # NoName \/ p.new # {}
        BY <1>3, <3>1
      <4>2. v[p.target] # NoName
        <5>1. ASSUME value[p.target] # NoName PROVE v[p.target] # NoName
          BY <1>5, <1>10, <5>1
        <5>2. ASSUME NEW m \in Name, <<p.target, m>> \in p.new PROVE v[p.target] # NoName
          BY <1>5, <1>10, <1>11, <5>2
        <5> QED
          BY <1>7, <4>1, <5>1, <5>2
      <4> QED
        BY <1>5, <1>12, <1>13, <3>1, <4>2
    <3>2. CASE ~Follows(n)
      <4>1. synonym'[n] = synonym[n] /\ synonym[n] \in Ta!Id /\ synonym[n] # p.old
        BY <1>11, <1>13, <2>2, <3>2 DEF Ta!Id, Ta!TagConstants, Follows
      <4>2. value[synonym[n]] # NoName
        BY <2>2, <4>1 DEF TagsInv, TagLinks
      <4> QED
        BY <1>10, <1>12, <4>1, <4>2
    <3> QED
      BY <3>1, <3>2
  <2>3. ASSUME NEW i \in Ta!Id, NEW j \in Ta!Id, value'[i] # NoName, value'[i] = value'[j] PROVE i = j
    BY <1>10, <1>12, <2>3
  <2>4. \A i \in Ta!Id : value'[i] # NoName => i <= ids'
    BY <1>3, <1>10, <1>12
  <2> QED
    BY <2>1, <2>2, <2>3, <2>4 DEF TagLinks
<1>23. Ta!NamesOnce'
  <2> SUFFICES ASSUME NEW n \in Name, n \notin twins', NEW i \in Ta!Id, value'[i] = n PROVE synonym'[n] = 0
    BY DEF Ta!NamesOnce, Ta!Canonical
  <2>1. n \notin twins /\ i # p.old /\ v[i] = n
    BY <1>3, <1>11, <1>12
  <2>2. synonym[n] = 0
    BY <1>10, <2>1 DEF TagsInv, Ta!NamesOnce, Ta!Canonical
  <2>3. ~Follows(n)
    <3> SUFFICES ASSUME Follows(n) PROVE FALSE
      OBVIOUS
    <3>1. p.syn /\ n = p.name
      BY <1>17, <2>2 DEF Follows
    <3>2. value[p.old] = n
      BY <1>3, <3>1
    <3>3. v[p.old] = n /\ n # NoName
      BY <1>5, <1>10, <1>11, <3>2
    <3> QED
      BY <1>5, <1>10, <2>1, <3>3
  <2> QED
    BY <1>13, <2>2, <2>3
<1>24. Ta!NotShort'
  <2>1. ASSUME NEW i \in Ta!Id, i \notin short', value'[i] # NoName
        PROVE  Cardinality(Seen(i)') <= counter'[i]
    <3>1. IsFiniteSet(Seen(i)) /\ Cardinality(Seen(i)) \in Nat /\ Cardinality(Seen(i)) <= counter[i]
          /\ counter[i] \in Nat
      BY <1>3, <2>1, EnoughIsCounted
    <3>2. CASE i = p.target
      <4>1. ~p.missed
        BY <1>3, <2>1, <3>2
      <4>2. Targeted(p)
        <5>1. v[p.target] \in Name
          BY <1>5, <1>10, <1>12, <2>1, <3>2
        <5>2. PICK m \in Name : v[p.target] = m
          BY <5>1
        <5>3. value[p.target] = m \/ <<p.target, m>> \in p.new
          BY <1>5, <1>10, <5>2
        <5> QED
          BY <1>11, <5>2, <5>3 DEF Targeted
      <4>3. Cardinality(GotBy(p)) <= p.n[p.target]
        BY <1>1, <1>3, <4>1, <4>2 DEF TagSound, Counted
      <4>4. Seen(i)' \in SUBSET (Seen(i) \cup GotBy(p))
        BY <1>3, <3>2 DEF Seen, Ta!With, GotBy
      <4>5. GotBy(p) \in SUBSET Topic
        BY DEF GotBy
      <4>6. IsFiniteSet(GotBy(p)) /\ Cardinality(GotBy(p)) \in Nat
        BY <4>5, FS_Subset, FS_CardinalityType, TaFinite DEF Ta!TagConstants
      <4>7. IsFiniteSet(Seen(i) \cap GotBy(p)) /\ Cardinality(Seen(i) \cap GotBy(p)) \in Nat
        <5>1. IsFiniteSet(Seen(i) \cap GotBy(p))
          BY <3>1, FS_Intersection
        <5> QED
          BY <5>1, FS_CardinalityType
      <4>8. IsFiniteSet(Seen(i) \cup GotBy(p)) /\ Cardinality(Seen(i) \cup GotBy(p))
                = Cardinality(Seen(i)) + Cardinality(GotBy(p)) - Cardinality(Seen(i) \cap GotBy(p))
        BY <3>1, <4>6, FS_Union
      <4>9. Cardinality(Seen(i)') \in Nat /\ Cardinality(Seen(i)') <= Cardinality(Seen(i) \cup GotBy(p))
        BY <4>4, <4>8, FS_Subset, FS_CardinalityType
      <4>10. counter'[i] = counter[i] + p.n[p.target]
        BY <1>14, <3>2
      <4> QED
        BY <1>6, <3>1, <4>3, <4>6, <4>7, <4>8, <4>9, <4>10
    <3>3. CASE i # p.target
      <4>1. Seen(i)' \in SUBSET Seen(i)
        BY <1>3, <1>5, <3>3 DEF Seen, Ta!With
      <4>2. Cardinality(Seen(i)') \in Nat /\ Cardinality(Seen(i)') <= Cardinality(Seen(i))
        BY <4>1, EnoughIsCounted
      <4> QED
        BY <1>14, <3>1, <3>3, <4>2
    <3> QED
      BY <3>2, <3>3
  <2> QED
    BY <1>14, <2>1, CountedEnough
<1>25. ASSUME NEW u \in Topic, u \in posted' \ (jobs' \cup stale'), ~Awaited(c, u)'
       PROVE  /\ u \in posted
              /\ \A i \in Ta!Id : /\ <<u, i>> \in tagged' <=> <<u, i>> \in tagged
                                  /\ <<u, i>> \in tagged => value'[i] = value[i]
  <2>1. <<u, p.target>> \notin tagged'
    BY <1>8, <1>25 DEF Awaited
  <2>2. <<u, p.old>> \notin p.rem
    <3>1. <<u, p.old>>[1] = u
      OBVIOUS
    <3>2. <<u, p.old>> \in p.rem => u \in {x[1] : x \in {y \in p.rem : <<y[1], p.target>> \notin tagged'}}
      BY <2>1, <3>1
    <3> QED
      BY <1>3, <1>25, <3>2
  <2>3. <<u, p.old>> \notin tagged
    BY <1>3, <2>2
  <2>4. \A i \in Ta!Id : <<u, i>> \in tagged' <=> <<u, i>> \in tagged
    BY <1>3, <1>5, <2>1, <2>2
  <2>5. \A i \in Ta!Id : <<u, i>> \in tagged => value[i] # NoName /\ i # p.old
    BY <2>3 DEF TagsInv, TagLinks
  <2> QED
    BY <1>3, <1>10, <1>12, <1>25, <2>4, <2>5
<1>26. p.pc \notin {"idle", "queue", "reindex"} /\ stale \subseteq stale' /\ twins \subseteq twins'
  BY <1>3
<1> QED
  BY ZenonT(40), <1>1, <1>3, <1>8, <1>9, <1>16, <1>19, <1>20, <1>21, <1>22, <1>23, <1>24, <1>25,
     <1>26, CommitStays

-----------------------------------------------------------------------------
(* Together *)

\* There are names for the first ids, each another one.
LEMMA NamesAreThere ==
    ASSUME Ta!TagConstants
    PROVE  /\ Cardinality(Name) - 1 \in 2..MaxIds
           /\ \E f \in [1..Cardinality(Name)-1 -> Name \ {Free}] : Ta!IsInjective(f)
<1>1. IsFiniteSet(Name \ {Free}) /\ Cardinality(Name \ {Free}) = Cardinality(Name) - 1
  BY FS_RemoveElement, TaFinite, TaCounts DEF Ta!TagConstants
<1>2. ExistsBijection(1..Cardinality(Name)-1, Name \ {Free})
  BY <1>1, FS_CardinalityType
<1> QED
  BY <1>2, TaCounts DEF ExistsBijection, Bijection, Injection, IsInjective, Ta!IsInjective, Ta!TagConstants

LEMMA InitTags ==
    ASSUME Ta!TagConstants, Ta!Init
    PROVE  TagsInv
<1>1. PICK k : k = Cardinality(Name) - 1
  OBVIOUS
<1>2. PICK f : f = CHOOSE g \in [1..Cardinality(Name)-1 -> Name \ {Free}] : Ta!IsInjective(g)
  OBVIOUS
<1>3. k \in 2..MaxIds /\ f \in [1..k -> Name \ {Free}] /\ \A i, j \in 1..k : f[i] = f[j] => i = j
  <2>1. Cardinality(Name) - 1 \in 2..MaxIds
        /\ \E g \in [1..Cardinality(Name)-1 -> Name \ {Free}] : Ta!IsInjective(g)
    BY NamesAreThere
  <2>2. f \in [1..Cardinality(Name)-1 -> Name \ {Free}] /\ Ta!IsInjective(f)
    BY <1>2, <2>1
  <2>3. DOMAIN f = 1..k
    BY <1>1, <2>2
  <2> QED
    BY <1>1, <2>1, <2>2, <2>3 DEF Ta!IsInjective
<1>4. PICK s \in {0, 2} : synonym = [n \in Name |-> IF n = Free THEN s ELSE 0]
  BY DEF Ta!Init
<1>5. PICK as \in {{1}, {1, 2}} : tagged = {First} \X as
  BY DEF Ta!Init
<1>6. value = [i \in Ta!Id |-> IF i \in DOMAIN f THEN f[i] ELSE NoName] /\ DOMAIN f = 1..k
  BY <1>2, <1>3, TaCounts DEF Ta!Init
<1>7. /\ First \in Topic /\ Free \in Name /\ NoName \notin Name /\ MaxIds \in Nat /\ MaxTagRequests \in Nat
      /\ IsFiniteSet(Topic) /\ 1..k \subseteq Ta!Id /\ 1 \in 1..k /\ 2 \in 1..k /\ k \in 0..MaxIds
  BY <1>3, TaFinite DEF Ta!TagConstants, Ta!Id
<1>8. /\ \A i \in Ta!Id : value[i] = NoName \/ i \in 1..k
      /\ \A i \in 1..k : value[i] = f[i] /\ value[i] \in Name /\ value[i] # Free
  BY <1>3, <1>6, <1>7
<1>9. value \in [Ta!Id -> Name \cup {NoName}]
  BY <1>3, <1>6, <1>7
<1>10. as \subseteq 1..k
  BY <1>7
<1>11. tagged \subseteq Topic \X Ta!Id
  BY <1>5, <1>7, <1>10
<1>12. synonym \in [Name -> 0..MaxIds] /\ \A n \in Name : synonym[n] # 0 => n = Free /\ synonym[n] = 2
  BY <1>3, <1>4, <1>7
<1>13. /\ ids = k /\ posted = {First} /\ jobs = {} /\ retags = 0
       /\ counter = [i \in Ta!Id |-> Cardinality(Ta!With(i))]
       /\ indexed = [u \in Topic |-> Ta!NamesOf(u)] /\ retag = [h \in Req |-> Ta!Idle]
  BY <1>1, TaCounts DEF Ta!Init
<1>14. \A i \in Ta!Id : Cardinality(Ta!With(i)) \in Nat
  <2>1. \A i \in Ta!Id : Ta!With(i) \in SUBSET Topic
    BY DEF Ta!With
  <2> QED
    BY <1>7, <2>1, FS_Subset, FS_CardinalityType
<1>15. TagTyped
  <2>1. retag \in [Req -> TagRequest]
    BY <1>13, IdleIsTagRequest
  <2>2. counter \in [Ta!Id -> Nat] /\ retags \in 0..MaxTagRequests
    BY <1>7, <1>13, <1>14
  <2> QED
    BY <1>7, <1>9, <1>11, <1>12, <1>13, <2>1, <2>2 DEF TagTyped
<1>16. TagLinks
  <2>1. \A u \in Topic, i \in Ta!Id : <<u, i>> \in tagged => value[i] # NoName
    BY <1>5, <1>7, <1>8, <1>10
  <2>2. \A n \in Name : synonym[n] # 0 => value[synonym[n]] # NoName
    BY <1>7, <1>8, <1>12
  <2>3. \A i, j \in Ta!Id : value[i] # NoName /\ value[i] = value[j] => i = j
    BY <1>3, <1>8
  <2>4. \A i \in Ta!Id : value[i] # NoName => i <= ids
    BY <1>3, <1>8, <1>13
  <2> QED
    BY <2>1, <2>2, <2>3, <2>4 DEF TagLinks
<1>17. Ta!NamesOnce
  BY <1>7, <1>8, <1>12 DEF Ta!NamesOnce, Ta!Canonical
<1>18. Ta!NotShort
  <2> SUFFICES ASSUME NEW i \in Ta!Id PROVE counter[i] >= Cardinality(Seen(i))
    BY TaCounts DEF Ta!NotShort, Seen
  <2>1. unseen = {}
    BY DEF Ta!Init
  <2>2. Seen(i) = Ta!With(i)
    BY <2>1 DEF Seen
  <2> QED
    BY <1>13, <1>14, <2>2
<1>19. Documents
  BY <1>7, <1>13 DEF Documents
<1>20. TagsApart
  <2>1. Plain(Ta!Idle) /\ Ta!Idle.hold \subseteq Ta!Id
    BY DEF Plain, Ta!Idle
  <2>2. TagSound(Ta!Idle) /\ Apart(Ta!Idle, Ta!Idle)
    BY <2>1, PlainIsSound, PlainIsApart
  <2> QED
    BY <1>13, <2>2 DEF TagsApart
<1> QED
  BY <1>15, <1>16, <1>17, <1>18, <1>19, <1>20 DEF TagsInv

\* A step of nobody.
LEMMA RestTags ==
    ASSUME Ta!TagConstants, TagsInv, UNCHANGED Ta!vars
    PROVE  TagsInv'
<1> USE DEF Ta!vars
<1>1. TagTyped' /\ TagLinks'
  BY DEF TagsInv, TagTyped, TagLinks
<1>2. Ta!NamesOnce' /\ Ta!NotShort'
  BY TaCounts DEF TagsInv, Ta!NamesOnce, Ta!NotShort, Ta!Canonical, Ta!Exists, Ta!With
<1>3. Documents'
  BY DEF TagsInv, Documents, Awaited, Ta!NamesOf, Ta!IdsOf
<1>4. ASSUME NEW h \in Req PROVE TagSound(retag[h])'
  <2>1. PICK q \in TagRequest : q = retag[h] /\ TagSound(q)
    BY TagFacts
  <2>2. TagSound(q)'
    BY <2>1, SoundStays DEF TagsInv, TagTyped, TagSound, Told
  <2> QED
    BY <2>1, <2>2
<1>5. \A h, k \in Req : h # k => Apart(retag[h], retag[k])'
  BY DEF TagsInv, TagsApart, Apart
<1>6. TagsApart'
  BY <1>4, <1>5 DEF TagsApart
<1> QED
  BY <1>1, <1>2, <1>3, <1>6 DEF TagsInv

LEMMA NextTags ==
    ASSUME Ta!TagConstants, TagsInv, [Ta!Next]_(Ta!vars)
    PROVE  TagsInv'
<1>1. ASSUME NEW r \in Req, NEW u \in Topic, NEW chosen \in SUBSET Name,
             Ta!EditRead(r, u, chosen) \/ Ta!Post(r, u, chosen)
      PROVE  TagsInv'
  BY <1>1, EditReadTags, PostTags
<1>2. ASSUME NEW r \in Req, Ta!EditResolve(r) \/ Ta!EditLock(r) \/ Ta!EditWrite(r) \/ Ta!EditCommit(r)
      PROVE  TagsInv'
  BY <1>2, EditResolveTags, EditLockTags, EditWriteTags, EditCommitTags
<1>3. ASSUME NEW r \in Req, Ta!PostInsert(r) \/ Ta!PostCount(r) \/ Ta!PostCommit(r)
      PROVE  TagsInv'
  BY <1>3, PostInsertTags, PostCountTags, PostCommitTags
<1>4. ASSUME NEW r \in Req, NEW i \in Ta!Id, Ta!Delete(r, i)
      PROVE  TagsInv'
  BY <1>4, DeleteTags
<1>5. ASSUME NEW r \in Req, NEW i \in Ta!Id, NEW n \in Name, Ta!Rename(r, i, n)
      PROVE  TagsInv'
  BY <1>5, RenameTags
<1>6. ASSUME NEW r \in Req, NEW i \in Ta!Id, NEW n \in Name, NEW syn \in BOOLEAN, Ta!Merge(r, i, n, syn)
      PROVE  TagsInv'
  BY <1>6, MergeTags
<1>7. ASSUME NEW r \in Req, Ta!RenameClear(r) \/ Ta!RenameWrite(r) \/ Ta!RenameQueue(r) \/ Ta!RenameCommit(r)
                            \/ Ta!DeleteRows(r) \/ Ta!DeleteCommit(r)
      PROVE  TagsInv'
  BY <1>7, RenameClearTags, RenameWriteTags, RenameQueueTags, RenameCommitTags, DeleteRowsTags, DeleteCommitTags
<1>8. ASSUME NEW r \in Req, Ta!MergeResolve(r) \/ Ta!MergeCount(r) \/ Ta!MergeCopy(r) \/ Ta!MergeClear(r)
                            \/ Ta!MergeRaise(r) \/ Ta!MergeCommit(r) \/ Ta!MergeReindex(r)
      PROVE  TagsInv'
  BY <1>8, MergeResolveTags, MergeCountTags, MergeCopyTags, MergeClearTags, MergeRaiseTags,
     MergeCommitTags, MergeReindexTags
<1>9. ASSUME NEW r \in Req, Ta!Queue(r) \/ Ta!QueueFails(r) \/ Ta!Abort(r)
      PROVE  TagsInv'
  BY <1>9, QueueTags, QueueFailsTags, AbortTags
<1>10. ASSUME NEW n \in Name, Ta!DropSynonym(n)
       PROVE  TagsInv'
  BY <1>10, DropSynonymTags
<1>11. ASSUME NEW u \in Topic, Ta!Index(u)
       PROVE  TagsInv'
  BY <1>11, IndexTags
<1>12. ASSUME NEW r \in Req, (\E none \in SUBSET posted : Ta!Sweep(r, none)) \/ Ta!SweepCommit(r)
       PROVE  TagsInv'
  BY <1>12, SweepTags, SweepCommitTags
<1>13. CASE UNCHANGED Ta!vars
  BY <1>13, RestTags
<1> QED
  BY <1>1, <1>2, <1>3, <1>4, <1>5, <1>6, <1>7, <1>8, <1>9, <1>10, <1>11, <1>12, <1>13 DEF Ta!Next

\* At most one tag has a name.
LEMMA OneTag ==
    ASSUME Ta!TagConstants, TagsInv, NEW n \in Name
    PROVE  Cardinality(Ta!Canonical(n)) <= 1
<1>1. \A i, j \in Ta!Canonical(n) : i = j
  BY DEF TagsInv, TagLinks, Ta!Canonical, Ta!TagConstants
<1>2. CASE Ta!Canonical(n) = {}
  BY <1>2, FS_EmptySet
<1>3. CASE Ta!Canonical(n) # {}
  <2>1. PICK i : Ta!Canonical(n) = {i}
    BY <1>1, <1>3
  <2> QED
    BY <2>1, FS_Singleton
<1> QED
  BY <1>2, <1>3

LEMMA TagsFollow ==
    ASSUME Ta!TagConstants, TagsInv
    PROVE  Ta!TagsConsistent
<1>1. Ta!TagsTypeOK
  <2>1. tagged \subseteq Topic \X {i \in Ta!Id : Ta!Exists(i)}
    <3> SUFFICES ASSUME NEW x \in tagged PROVE x \in Topic \X {i \in Ta!Id : Ta!Exists(i)}
      OBVIOUS
    <3>1. PICK u \in Topic, i \in Ta!Id : x = <<u, i>>
      BY DEF TagsInv, TagTyped
    <3> QED
      BY <3>1 DEF TagsInv, TagLinks, Ta!Exists
  <2>2. ASSUME NEW n \in Name PROVE synonym[n] = 0 \/ Ta!Exists(synonym[n])
    BY DEF TagsInv, TagLinks, Ta!Exists
  <2>3. \A i \in Ta!Id : counter[i] >= 0
    BY DEF TagsInv, TagTyped
  <2> QED
    BY <2>1, <2>2, <2>3, OneTag, TaCounts DEF Ta!TagsTypeOK, TagsInv, TagTyped
<1>2. Ta!IndexedRight
  <2> SUFFICES ASSUME NEW u \in posted \ (jobs \cup stale),
                      \A h \in Req : u \notin retag[h].affected /\ retag[h].pc # "reindex"
               PROVE  indexed[u] = Ta!NamesOf(u)
    BY DEF Ta!IndexedRight
  <2>1. \A h \in Req : ~Awaited(retag[h], u)
    BY DEF Awaited
  <2> QED
    BY <2>1 DEF TagsInv, Documents
<1> QED
  BY <1>1, <1>2 DEF Ta!TagsConsistent, TagsInv

\* However edits, posts, renames, deletions, merges, the hourly count and the queue
\* interleave and fail, a row and a synonym are of a tag that exists, a name is one
\* tag's and no synonym besides, a tag is counted for the topics that have it and
\* that the last count saw, and the document of a topic that nobody is about to
\* queue has its tags, but for what the code really leaves behind (vReplaceTagsTx,
\* vReplaceTags, change_tag, delete_tag, vRecalculateTagCounters).
THEOREM TagsStayConsistent ==
    ASSUME Ta!TagConstants
    PROVE  Ta!Spec => []TagsConsistent
<1>1. Ta!Init => TagsInv
  BY InitTags
<1>2. TagsInv /\ [Ta!Next]_(Ta!vars) => TagsInv'
  BY NextTags
<1>3. TagsInv => TagsConsistent
  BY TagsFollow DEF TagsConsistent
<1> QED
  BY <1>1, <1>2, <1>3, PTL DEF Ta!Spec
=============================================================================
