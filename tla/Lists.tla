------------------------------- MODULE Lists -------------------------------
(***************************************************************************)
(* Who sees one topic on which list, and who may open it, while requests   *)
(* publish, confirm, move, delete, restore, pin and warn about it.         *)
(*                                                                         *)
(* A request checks the topic at one moment and updates its row at another *)
(* (or finds nothing to update); others may come in between.  An           *)
(* administrator may do all of it, so only what binds everyone is a guard. *)
(* A list is the condition of its query; paging, tags, and the windows by  *)
(* activity, which only shorten lists, are left out.                       *)
(***************************************************************************)
EXTENDS Integers, FiniteSets

CONSTANTS
    Group, SectionOf,             \* groups.section
    Forum, Gallery, Articles,     \* sections that queries name
    Front,                        \* the sections of the front page
    Premoderated,                 \* sections.moderate
    Scroll,                       \* sections.scroll_mode: "SECTION", "GROUP" or "NO_SCROLL"
    Expire,                       \* sections.expire
    Fortnight, Month, Quarter, HalfYear,  \* intervals of the code
    Viewer,                       \* those who look (records, see ViewerType)
    MaxTime, MaxOpen              \* bounds: the clock, requests under way

Never == -1

ViewerType == [auth : BOOLEAN, author : BOOLEAN, moderator : BOOLEAN, corrector : BOOLEAN,
               score : Nat, restricted : BOOLEAN,   \* frozen, or in slow mode
               ignores : BOOLEAN]                   \* he ignores the author

ASSUME ViewersAreUsers ==
    /\ Viewer \subseteq ViewerType
    /\ \A v \in Viewer :
         /\ ~v.auth => ~(v.author \/ v.moderator \/ v.corrector \/ v.ignores) /\ v.score = 0
         /\ ~(v.author /\ v.ignores)

ASSUME SectionsAreKnown ==
    /\ "all" \notin Group
    /\ \A g \in Group : SectionOf[g] \in DOMAIN Scroll /\ SectionOf[g] \in DOMAIN Expire
    /\ Forum \notin Premoderated /\ Front \subseteq Premoderated
    /\ \A w \in {Fortnight, Month, Quarter, HalfYear, MaxTime, MaxOpen} : w \in Nat

VARIABLES
    t,      \* the topic's row, as the queries call it, with del_info.deldate
    now,    \* CURRENT_TIMESTAMP
    open    \* requests that have checked the topic and not yet changed it

listvars == <<t, now, open>>

Section == SectionOf[t.group]
Premod  == Section \in Premoderated
Written == IF t.commit # Never THEN t.commit ELSE t.post     \* COALESCE(commitdate, postdate)
Age(w)  == now - w

\* NOT t.sticky AND COALESCE(commitdate, postdate) < now() - s.expire
Expired == ~t.sticky /\ Age(Written) > Expire[Section]

Request == [op : {"publish", "confirm", "uncommit", "delete", "undelete", "warn", "forgive",
                  "pin", "unpin"}, to : {"none"}]
           \cup [op : {"move"}, to : Group]

Init ==
    /\ \E g \in Group, d \in BOOLEAN :
         t = [group |-> g, draft |-> d, deleted |-> FALSE, sticky |-> FALSE, moderate |-> FALSE,
              commit |-> Never, post |-> 0, deldate |-> Never, warned |-> FALSE]
    /\ now = 0 /\ open = {}

-----------------------------------------------------------------------------
(* The requests *)

\* bPublish is taken for a draft; nothing deleted is edited.
MayPublish  == t.draft /\ ~t.deleted
\* bCommittable, stCheckCommit
MayConfirm  == ~t.moderate /\ Premod /\ ~t.deleted
\* optUncommitRestriction
MayUncommit == ~Expired /\ ~t.deleted /\ t.moderate
\* optMoveRestriction
MayMove     == ~t.deleted
\* optDeleteRestriction, optUndeleteRestriction for an administrator
MayDelete   == ~t.deleted
MayUndelete == t.deleted
\* bCanPostWarning
MayWarn     == ~t.deleted /\ ~t.draft /\ ~Expired

\* stSet, and the closing of a warning, ask nothing of the topic.
Passes(op) == CASE op = "publish"  -> MayPublish
                [] op = "confirm"  -> MayConfirm
                [] op = "uncommit" -> MayUncommit
                [] op = "move"     -> MayMove
                [] op = "delete"   -> MayDelete
                [] op = "undelete" -> MayUndelete
                [] op = "warn"     -> MayWarn
                [] OTHER           -> TRUE

Begin(r) ==
    /\ Cardinality(open) < MaxOpen /\ r \notin open
    /\ Passes(r.op)
    /\ open' = open \cup {r}
    /\ UNCHANGED <<t, now>>

Close(r) == r \in open /\ open' = open \ {r} /\ UNCHANGED now

\* UPDATE ... SET draft=false, postdate=CURRENT_TIMESTAMP ... WHERE id=$1 AND draft
Published(row) == IF row.draft THEN [row EXCEPT !.draft = FALSE, !.post = now] ELSE row

\* Mutant: a confirmation leaves a draft a draft.
ConfirmedAsItIs(row) == [row EXCEPT !.moderate = TRUE, !.commit = now]
\* A draft that is confirmed is published; moderate and commitdate go together.
Confirmed(row) == [Published(row) EXCEPT !.moderate = TRUE, !.commit = now]

Publish  == \E r \in open : r.op = "publish" /\ Close(r) /\ t' = Published(t)
Confirm  == \E r \in open : r.op = "confirm" /\ Close(r) /\ t' = Confirmed(t)
Uncommit == \E r \in open : r.op = "uncommit" /\ Close(r)
                              /\ t' = [t EXCEPT !.moderate = FALSE, !.commit = Never]
Move     == \E r \in open : r.op = "move" /\ Close(r) /\ t' = [t EXCEPT !.group = r.to]

\* UPDATE ... SET deleted=true, sticky=false WHERE id=$1 AND NOT deleted
Delete ==
    \E r \in open :
      /\ r.op = "delete" /\ Close(r)
      /\ t' = IF t.deleted THEN t
              ELSE [t EXCEPT !.deleted = TRUE, !.sticky = FALSE, !.deldate = now]

Undelete == \E r \in open : r.op = "undelete" /\ Close(r)
                              /\ t' = [t EXCEPT !.deleted = FALSE, !.deldate = Never]
Pin      == \E r \in open : r.op \in {"pin", "unpin"} /\ Close(r)
                              /\ t' = [t EXCEPT !.sticky = (r.op = "pin")]
\* The third warning, and the closing of one of three.
Warn     == \E r \in open : r.op \in {"warn", "forgive"} /\ Close(r)
                              /\ t' = [t EXCEPT !.warned = (r.op = "warn")]

\* A request is over before the clock goes on by what a tick stands for.
Tick == now < MaxTime /\ open = {} /\ now' = now + 1 /\ UNCHANGED <<t, open>>

Next ==
    \/ \E r \in Request : Begin(r)
    \/ Publish \/ Confirm \/ Uncommit \/ Move \/ Delete \/ Undelete \/ Pin \/ Warn \/ Tick

Spec == Init /\ [][Next]_listvars

-----------------------------------------------------------------------------
(* Who may open the topic *)

VIEW_DELETED_SCORE == 200
CAN_VIEW_ALL_DELETED_SCORE == 50

\* Of what is deleted, another's topic needs score, and an author who does not moderate.
SeesDeleted(v, byModerator) ==
    /\ ~Expired /\ v.auth
    /\ v.author \/ /\ Age(t.deldate) <= Fortnight
                   /\ ~v.restricted /\ v.score >= VIEW_DELETED_SCORE /\ ~byModerator

\* enTopicViewPolicy
Viewable(v, byModerator) ==
    \/ v.moderator
    \/ /\ t.deleted => SeesDeleted(v, byModerator)
       /\ t.draft => v.author /\ ~Expired
       /\ v.auth \/ ~t.warned

-----------------------------------------------------------------------------
(* The lists *)

Standing   == ~t.deleted /\ ~t.draft
Approved   == t.moderate \/ ~Premod                    \* t.moderate OR NOT s.moderate
Committed  == (Premod /\ t.commit # Never) \/ ~Premod
Sorted     == IF Premod THEN t.commit ELSE t.post
Unhidden(v) == v.auth \/ ~t.warned                     \* open_warnings<=2
Heeded(v)   == ~v.ignores                              \* NOT IN ignore_list

\* S_LIST_TOPICS_SQL: a section's page (g = "all"), a group's page.
Feed(s, g) ==
    /\ s = Section /\ g \in {"all", t.group}
    /\ Standing /\ Committed
    /\ s = Forum /\ g = "all" => Age(t.post) < HalfYear

FrontPage(v) == Standing /\ Unhidden(v) /\ t.commit # Never /\ Section \in Front /\ Age(t.commit) <= Quarter

Rss(v) ==
    /\ Standing /\ Unhidden(v) /\ Committed /\ Age(Sorted) <= Quarter
    /\ Premod \/ Heeded(v)

\* The links to the previous and the next topic on another topic's page.
Neighbour(v) ==
    /\ Standing /\ ~t.sticky
    /\ CASE Scroll[Section] = "SECTION" -> t.commit # Never /\ Approved
         [] Scroll[Section] = "GROUP"   -> Heeded(v)
         [] OTHER                       -> FALSE

\* A forum group: the page by date or by activity (recent: the latter's window).
MayShowDeleted(v) == v.auth /\ v.score >= CAN_VIEW_ALL_DELETED_SCORE /\ ~v.restricted
GroupMain(v, lastmod, showDeleted, showIgnored) ==
    /\ Section = Forum /\ Approved /\ ~t.draft /\ Unhidden(v)
    /\ lastmod \/ ~t.sticky
    /\ t.deleted => showDeleted /\ MayShowDeleted(v) /\ ~lastmod
    /\ Heeded(v) \/ (showIgnored /\ ~lastmod)
    /\ ~lastmod => Age(t.post) < HalfYear
GroupSticky(v, lastmod) ==
    /\ Section = Forum /\ ~lastmod
    /\ t.sticky /\ Standing /\ Approved /\ Unhidden(v)

\* The queue of what waits for a confirmation, and its number on other pages.
Awaiting      == Standing /\ ~t.moderate /\ Premod
Waiting       == Awaiting /\ Age(t.post) <= Quarter
WaitingOnPage == IF Awaiting /\ Age(t.post) <= Quarter THEN 1 ELSE 0
WaitingCount  == IF Awaiting /\ Age(t.post) < Quarter THEN 1 ELSE 0

\* What concerns one user: his topics, drafts, deleted topics, favourites, watched.
SelfOrModerator(v) == v.author \/ v.moderator
UserFeed         == Standing
Drafts(v)        == SelfOrModerator(v) /\ ~t.deleted /\ t.draft
                    /\ (v.author \/ (Premod /\ t.commit # Never) \/ Heeded(v))
DeletedTopics(v) == SelfOrModerator(v) /\ t.deleted /\ t.deldate # Never
Favourites(v)    == Standing /\ Unhidden(v)
Tracked(v)       == v.auth /\ ~t.deleted
CountDrafts      == IF t.draft THEN 1 ELSE 0
FrontDrafts      == IF t.draft /\ ~t.deleted THEN 1 ELSE 0

\* A tag's pages.
TagFeed(v)  == Standing /\ Committed /\ Unhidden(v) /\ (Premod \/ Heeded(v))
TagForum(v) == Standing /\ Approved /\ Unhidden(v) /\ Heeded(v)
TagPage(v) ==
    IF Section = Forum THEN Standing /\ Unhidden(v) /\ Heeded(v)
    ELSE IF Section = Gallery THEN ~t.deleted /\ t.moderate /\ t.commit # Never
    ELSE Standing /\ Premod /\ t.commit # Never /\ Unhidden(v)

Tracker(v, all) ==
    /\ Standing /\ Heeded(v) /\ Unhidden(v)
    /\ (all \/ v.moderator \/ v.corrector) \/ Approved

Archive      == Standing /\ Approved
ArchiveCount == IF ~t.deleted /\ Approved THEN 1 ELSE 0

\* The boxes at the side of the front page, and the Telegram channel.
GalleryBox   == t.moderate /\ Section = Gallery /\ ~t.deleted /\ t.commit # Never
TopBox       == Age(t.post) <= Month /\ ~t.deleted /\ ~t.warned
ArticlesBox  == ~t.deleted /\ t.moderate /\ t.commit # Never /\ Section = Articles
Channel      == Standing /\ ~t.warned

-----------------------------------------------------------------------------
(* Properties *)

ListTypeOK ==
    /\ t \in [group : Group, draft : BOOLEAN, deleted : BOOLEAN, sticky : BOOLEAN,
              moderate : BOOLEAN, commit : {Never} \cup (0 .. now), post : 0 .. now,
              deldate : {Never} \cup (0 .. now), warned : BOOLEAN]
    /\ now \in 0 .. MaxTime
    /\ open \subseteq Request /\ Cardinality(open) <= MaxOpen

\* Whoever finds the topic on a list may open it.  The lists that know no
\* warnings also show a guest what he may not open; the top of the month and the
\* watched topics show drafts, and an author finds a draft that has expired.
ListedIsViewable ==
    \A v \in Viewer, m \in BOOLEAN : ~Viewable(v, m) =>
      /\ ~(FrontPage(v) \/ Rss(v) \/ TagFeed(v) \/ TagForum(v) \/ Favourites(v) \/ Channel)
      /\ \A b \in BOOLEAN : ~Tracker(v, b) /\ ~GroupMain(v, b, FALSE, TRUE) /\ ~GroupSticky(v, b)
      /\ Feed(Section, t.group) \/ UserFeed \/ Archive \/ Neighbour(v) \/ Waiting
         \/ TagPage(v) \/ GalleryBox \/ ArticlesBox => ~v.auth /\ t.warned
      /\ Tracked(v) \/ TopBox => t.draft
      /\ Drafts(v) => Expired

\* A topic that stands is found in its section and its group, or waits for a
\* confirmation, and not both; a part of the forum's old topics is found in the
\* group alone, and what was not confirmed in three months is found nowhere.  One
\* that does not stand is found by its author and by moderators, in one list; a
\* moderator does not find the drafts of a user he ignores.
NothingIsLost ==
    /\ Standing =>
         /\ Feed(Section, t.group) # Awaiting
         /\ Feed(Section, t.group) => Feed(Section, "all") \/ (Section = Forum /\ Age(t.post) >= HalfYear)
         /\ Awaiting => Waiting \/ Age(t.post) > Quarter
         /\ Feed(Section, t.group) = Archive
    /\ ~Standing =>
         \A v \in Viewer : v.author \/ (v.moderator /\ Heeded(v)) => Drafts(v) # DeletedTopics(v)

\* A forum topic is on its group's page once at most, and once if it stands, is
\* pinned or not half a year old, and is not hidden from the one who looks.
OnceOnGroupPage ==
    Section = Forum =>
      \A v \in Viewer, lastmod, del, ign \in BOOLEAN :
        /\ ~(GroupMain(v, lastmod, del, ign) /\ GroupSticky(v, lastmod))
        /\ Standing /\ Unhidden(v) /\ Heeded(v) /\ (t.sticky \/ Age(t.post) < HalfYear) =>
             GroupMain(v, lastmod, del, ign) \/ GroupSticky(v, lastmod)

\* Who may open another's deleted topic finds it on its group's page when asking
\* for the deleted ones, unless it was pinned after it had been deleted.
DeletedIsFound ==
    t.deleted /\ Section = Forum /\ ~t.draft /\ ~t.sticky /\ Age(t.post) < HalfYear =>
      \A v \in Viewer, m \in BOOLEAN :
        ~v.author /\ ~v.moderator /\ Viewable(v, m) => GroupMain(v, FALSE, TRUE, TRUE)

\* A number beside a link is the number of topics on the page it leads to, but
\* for topics exactly three months old, the archive's and the profile's drafts.
CountsMatch ==
    /\ WaitingCount = WaitingOnPage \/ Age(t.post) = Quarter
    /\ ArchiveCount = (IF Archive THEN 1 ELSE 0) \/ (t.draft /\ ~Premod)
    /\ \A v \in Viewer : v.author =>
         /\ FrontDrafts = (IF Drafts(v) THEN 1 ELSE 0)
         /\ CountDrafts = FrontDrafts \/ t.deleted

\* Lists show what may be opened, all of it, once, and are counted rightly.
ListsConsistent ==
    /\ ListTypeOK
    /\ ListedIsViewable /\ NothingIsLost
    /\ OnceOnGroupPage /\ DeletedIsFound /\ CountsMatch
=============================================================================
