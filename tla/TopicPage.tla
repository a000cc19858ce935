------------------------------ MODULE TopicPage ------------------------------
(***************************************************************************)
(* What a reader of a topic gets to see: a page of its comments, a jump to *)
(* one of them, the replies below one, the view with the deleted ones, and *)
(* the copy a browser keeps of an old topic.  A request reads the topic's  *)
(* row, the comments and the ignored users by statements of their own,     *)
(* without a transaction, while others post, delete and restore; the       *)
(* writers' transactions are taken whole here (CommentDeletion has their   *)
(* statements).  Pages are counted by topics.stat1 and cut from the list.  *)
(* Readers do not disturb each other, so there is one, whoever he is.      *)
(***************************************************************************)
EXTENDS Integers, FiniteSets

CONSTANTS
    Comment,          \* ids, 1 .. n: the order of the list
    ReplyTo, Author,  \* what each comment answers (0: the topic), and whose it is
    Reader, Guest,    \* who reads; the guest is not logged in
    Moderator,        \* readers who moderate
    Trusted,          \* readers who may see what is deleted
    PerPage,          \* comments on a page
    MaxVisits,        \* bound: how often each reader comes
    MaxWrites, MaxTime              \* bounds

\* Ids are numbers in the order in which they are drawn: an answer is younger than
\* what it answers.  Whoever moderates may see what is deleted.
PageConstants ==
    /\ IsFiniteSet(Comment) /\ Comment = 1 .. Cardinality(Comment)
    /\ \A c \in Comment : ReplyTo[c] \in 0 .. c - 1
    /\ Moderator \subseteq Trusted /\ Guest \notin Trusted
    /\ PerPage \in Nat \ {0} /\ MaxVisits \in [Reader -> Nat]
    /\ MaxWrites \in Nat /\ MaxTime \in Nat

VARIABLES
    state,            \* of each comment: "none", "drawn" (an id, no commit yet), "live", "deleted"
    stat1, lastmod,   \* the topic's row
    hides,            \* the topic is set not to show its comments (never changed here)
    expired,          \* the topic is closed by its age
    reader,           \* who reads
    ignores,          \* whom he ignores
    now, writes,
    visit, visits,    \* the visit under way, and how many there were
    copy,             \* the guest's copy of the first page
    late              \* history: a change was stamped no later than the second of the one before

rows   == <<state, stat1, lastmod, hides, expired, reader, ignores, now, writes, late>>
pgvars == <<rows, visit, visits, copy>>

Second(t) == t \div 2     \* a Last-Modified header has seconds
NoCopy    == [etag |-> -1, modified |-> -1, body |-> {}]

Is(s)      == {c \in Comment : state[c] = s}
Standing   == Is("live")
Pages(n)   == (n + PerPage - 1) \div PerPage
PageOf(list, c) == Cardinality({d \in list : d < c}) \div PerPage

\* The comments of list that are below one of roots, which are in the list or not.
Below(list, roots) ==
    LET reach[n \in 0 .. Cardinality(list)] ==
          IF n = 0 THEN roots
          ELSE reach[n - 1] \cup {c \in list : ReplyTo[c] \in reach[n - 1]}
    IN  reach[Cardinality(list)]

\* An ignored author's comments and everything below them.
Hidden(list, ignored) == Below(list, {c \in list : Author[c] \in ignored})

\* Mutant: what is hidden is taken off the list before it is cut into pages.
SliceFiltered(list, page, hidden) ==
    {c \in list \ hidden : PageOf(list \ hidden, c) = page}
\* The list is cut into pages first, so nothing moves to an earlier page.
Slice(list, page, hidden) == {c \in list : PageOf(list, c) = page} \ hidden

Visit == [pc : {"idle", "fetch", "meta", "resolve", "filter", "list", "render", "done"},
          kind : {"jump", "page", "walk", "thread", "deleted"},
          at : 0 .. Cardinality(Comment),     \* a page, or the comment asked for
          skip : BOOLEAN, show : BOOLEAN,     \* ?skipdeleted, ?filter=show
          post : BOOLEAN,                     \* the deleted ones were asked for by POST
          stat1 : Int, lastmod : Nat, expired : BOOLEAN, list : SUBSET Comment,
          shown : SUBSET Comment,
          \* history:
          target : Comment \cup {0},          \* what a jump found
          start : SUBSET Comment,             \* what stood when the visit began
          seen : SUBSET Comment,
          exact : BOOLEAN,                    \* stat1 was right whenever it was read
          moved : BOOLEAN]                    \* the list lost something or got something inside
Idle == [pc |-> "idle", kind |-> "page", at |-> 0, skip |-> FALSE, show |-> FALSE,
         post |-> FALSE, stat1 |-> 0, lastmod |-> 0, expired |-> FALSE, list |-> {},
         shown |-> {}, target |-> 0, start |-> {}, seen |-> {}, exact |-> TRUE, moved |-> FALSE]

Init ==
    /\ \E n \in Comment, gone \in SUBSET Comment :
         state = [c \in Comment |-> IF c > n THEN "none"
                                   ELSE IF c \in gone THEN "deleted" ELSE "live"]
    /\ stat1 = Cardinality(Standing) /\ lastmod = 0
    /\ hides \in BOOLEAN /\ expired = FALSE
    /\ reader \in Reader /\ ignores = {}
    /\ now = 0 /\ writes = 0 /\ late = FALSE
    /\ visit = Idle /\ visits = 0 /\ copy = NoCopy

-----------------------------------------------------------------------------
(* Those who change the topic *)

Write == writes < MaxWrites /\ writes' = writes + 1

\* A transaction stamps the topic with the instant it began at.
Touch ==
    \E t \in {now, now - 1} \cap Nat :
      /\ lastmod' = t
      /\ late' = (late \/ Second(t) <= Second(lastmod))

\* History: the visit learns that the list is not the old one with more at its end.
Disturb(yes) == visit' = [visit EXCEPT !.moved = @ \/ yes]

\* A comment gets its id before its transaction commits.
Draw(c) ==
    /\ state[c] = "none" /\ (\A d \in Comment : d < c => state[d] # "none")
    /\ ~expired /\ ReplyTo[c] \in {0} \cup Standing
    /\ state' = [state EXCEPT ![c] = "drawn"]
    /\ UNCHANGED <<stat1, lastmod, hides, expired, reader, ignores, now, writes, late, visit, visits, copy>>

\* The trigger comins counts the comment and stamps the topic.
Post(c) ==
    /\ state[c] = "drawn" /\ ReplyTo[c] \in {0} \cup Standing
    /\ Write /\ Touch
    /\ state' = [state EXCEPT ![c] = "live"]
    /\ stat1' = stat1 + 1
    /\ Disturb(\E d \in Standing : d > c)
    /\ UNCHANGED <<hides, expired, reader, ignores, now, visits, copy>>

\* Alone, or with everything below it.
Delete(c, deep) ==
    /\ state[c] = "live"
    /\ Write /\ Touch
    /\ LET gone == IF deep THEN Below(Standing, {c}) ELSE {c}
       IN  /\ state' = [d \in Comment |-> IF d \in gone THEN "deleted" ELSE state[d]]
           /\ stat1' = stat1 - Cardinality(gone)
    /\ Disturb(TRUE)
    /\ UNCHANGED <<hides, expired, reader, ignores, now, visits, copy>>

\* The counter is not raised again.
Undelete(c) ==
    /\ state[c] = "deleted" /\ ~expired
    /\ Write /\ Touch
    /\ state' = [state EXCEPT ![c] = "live"]
    /\ Disturb(TRUE)
    /\ UNCHANGED <<stat1, hides, expired, reader, ignores, now, visits, copy>>

\* stat_update(), every hour.
Recount ==
    /\ stat1 # Cardinality(Standing)
    /\ stat1' = Cardinality(Standing)
    /\ UNCHANGED <<state, lastmod, hides, expired, reader, ignores, now, writes, late, visit, visits, copy>>

Ignore(u) ==
    /\ reader # Guest /\ u # reader /\ Write
    /\ ignores' = IF u \in ignores THEN ignores \ {u} ELSE ignores \cup {u}
    /\ Disturb(TRUE)
    /\ UNCHANGED <<state, stat1, lastmod, hides, expired, reader, now, late, visits, copy>>

Tick ==
    /\ now < MaxTime /\ now' = now + 1
    /\ expired' \in {expired, TRUE}
    /\ UNCHANGED <<state, stat1, lastmod, hides, reader, ignores, writes, late, visit, visits, copy>>

-----------------------------------------------------------------------------
(* A visit *)

Ask(kind, at, skip, show, post) ==
    /\ visit.pc \in {"idle", "done"} /\ visits < MaxVisits[reader]
    /\ visits' = visits + 1
    /\ visit' = [Idle EXCEPT !.pc = "fetch", !.kind = kind, !.at = at,
                   !.skip = skip, !.show = show, !.post = post, !.start = Standing]
    /\ UNCHANGED <<rows, copy>>

AskJump(c, skip)  == state[c] # "none" /\ Ask("jump", c, skip, FALSE, FALSE)
Open              == Ask("page", 0, FALSE, FALSE, FALSE)
Walk              == Ask("walk", 0, FALSE, FALSE, FALSE)
AskThread(c, show) == state[c] # "none" /\ Ask("thread", c, FALSE, show, FALSE)
AskDeleted(post)  == Ask("deleted", 0, FALSE, FALSE, post)

\* The topic's row is read; a plain reader's GET of the deleted ones is redirected.
FetchTopic ==
    LET v == visit
        refused == v.kind = "deleted" /\ reader \notin Moderator /\ ~v.post
    IN  /\ v.pc = "fetch"
        /\ visit' = [visit EXCEPT
             !.stat1 = stat1, !.lastmod = lastmod,
             !.exact = @ /\ stat1 = Cardinality(Standing),
             !.kind = IF refused THEN "page" ELSE @,
             !.pc = IF refused THEN "fetch"
                       ELSE IF v.kind = "jump" THEN "resolve"
                       ELSE IF v.kind = "deleted" /\ reader \notin Trusted THEN "done" ELSE "meta"]
        /\ UNCHANGED <<rows, visits, copy>>

\* A tag that matches is enough; else the date decides, by whole seconds.
NotModified(v) ==
    /\ v.expired /\ copy # NoCopy
    /\ copy.etag = v.lastmod \/ (copy.modified # -1 /\ Second(v.lastmod) <= Second(copy.modified))

FirstPage == reader = Guest /\ visit.kind \in {"page", "walk"} /\ visit.at = 0

\* Whether the topic has expired is read, and an old topic is not sent twice to
\* a guest; a date goes with the answer only if the browser sent another tag.
ReadMeta ==
    LET v == [visit EXCEPT !.expired = expired, !.pc = "list"]
    IN  /\ visit.pc = "meta"
        /\ IF FirstPage /\ NotModified(v)
           THEN /\ visit' = Idle
                /\ copy' = [copy EXCEPT !.etag = v.lastmod,
                              !.modified = IF copy.etag = v.lastmod THEN @ ELSE v.lastmod]
           ELSE visit' = v /\ UNCHANGED copy
        /\ UNCHANGED <<rows, visits>>

ListComments ==
    /\ visit.pc = "list"
    /\ visit' = [visit EXCEPT !.pc = "render",
                   !.list = IF visit.kind = "deleted" THEN Standing \cup Is("deleted")
                               ELSE IF hides THEN {} ELSE Standing]
    /\ UNCHANGED <<rows, visits, copy>>

\* The pages are counted by the row that was read first, not by the list.
Beyond(v) == v.at > 0 /\ v.at >= Pages(IF v.stat1 > 0 THEN v.stat1 ELSE 0)
LastPage(v) == IF v.stat1 > 0 THEN Pages(v.stat1) - 1 ELSE 0

\* A page after the last one: to the last one.
RedirectToLast ==
    LET v == visit
    IN  /\ v.pc = "render" /\ v.kind \in {"page", "walk"} /\ Beyond(v)
        /\ visit' = [visit EXCEPT !.pc = "fetch", !.at = LastPage(v), !.show = FALSE]
        /\ UNCHANGED <<rows, visits, copy>>

\* The users ignored are read last.  One who walks goes on to the next page.
Render ==
    LET v == visit
        paged  == v.kind \in {"page", "walk"}
        hidden == IF v.show THEN {} ELSE Hidden(v.list, ignores)
        shown  == IF v.kind = "deleted" THEN v.list \ hidden
                  ELSE IF v.kind = "thread" THEN (Below(v.list, {v.at}) \cap v.list) \ hidden
                  ELSE Slice(v.list, v.at, hidden)
        more   == v.kind = "walk" /\ v.at + 1 < Pages(IF v.stat1 > 0 THEN v.stat1 ELSE 0)
    IN  /\ v.pc = "render" /\ ~(paged /\ Beyond(v))
        /\ visit' = [visit EXCEPT !.shown = shown, !.seen = @ \cup shown,
                       !.at = IF more THEN @ + 1 ELSE @,
                       !.pc = IF more THEN "fetch" ELSE "done"]
        /\ copy' = IF ~FirstPage THEN copy
                   ELSE IF ~v.expired THEN NoCopy
                   ELSE [etag |-> v.lastmod, body |-> shown,
                         modified |-> IF copy = NoCopy THEN -1 ELSE v.lastmod]
        /\ UNCHANGED <<rows, visits>>

-----------------------------------------------------------------------------
(* A jump: where is the comment? *)

Least(S)    == CHOOSE c \in S : \A d \in S : c <= d
Greatest(S) == CHOOSE c \in S : \A d \in S : c >= d

JumpPage(list, c) == PageOf(list, c)

\* The comment, else the next one if the reader wants to skip it, else a
\* moderator sees it among the deleted ones.
Resolve ==
    LET v == visit
        list  == IF hides THEN {} ELSE Standing
        after == {c \in list : c > v.at}
        found == IF v.at \in list THEN v.at
                 ELSE IF v.skip /\ list # {}
                      THEN IF after # {} THEN Least(after) ELSE Greatest(list)
                 ELSE 0
        among == Standing \cup Is("deleted")
    IN  /\ v.pc = "resolve"
        /\ visit' =
             IF found # 0
             THEN [v EXCEPT !.pc = "filter", !.list = list, !.target = found,
                            !.kind = "page", !.at = JumpPage(list, found)]
             ELSE IF v.skip /\ list = {} THEN [v EXCEPT !.pc = "fetch", !.kind = "page", !.at = 0]
             ELSE IF reader \in Moderator /\ v.at \in among
             THEN [v EXCEPT !.pc = "fetch", !.kind = "deleted", !.target = v.at, !.at = 0]
             ELSE [v EXCEPT !.pc = "done"]
        /\ UNCHANGED <<rows, visits, copy>>

\* A comment the reader would not see is shown with ?filter=show.
JumpFilter ==
    /\ visit.pc = "filter"
    /\ visit' = [visit EXCEPT !.pc = "fetch",
                   !.show = visit.target \in Hidden(visit.list, ignores)]
    /\ UNCHANGED <<rows, visits, copy>>

-----------------------------------------------------------------------------
Visits ==
    \/ Open \/ Walk \/ FetchTopic \/ ReadMeta \/ ListComments \/ Render
    \/ RedirectToLast \/ Resolve \/ JumpFilter
    \/ \E b \in BOOLEAN : AskDeleted(b)
    \/ \E c \in Comment, b \in BOOLEAN : AskJump(c, b) \/ AskThread(c, b)

Next ==
    \/ \E c \in Comment : Draw(c) \/ Post(c) \/ Undelete(c)
    \/ \E c \in Comment, deep \in BOOLEAN : Delete(c, deep)
    \/ Recount \/ Tick
    \/ \E c \in Comment : Ignore(Author[c])
    \/ Visits

Spec == Init /\ [][Next]_pgvars

-----------------------------------------------------------------------------
(* Properties *)

Done == visit.pc = "done"

PageTypeOK ==
    /\ state \in [Comment -> {"none", "drawn", "live", "deleted"}]
    /\ stat1 \in Int /\ lastmod \in 0 .. now /\ now \in 0 .. MaxTime
    /\ hides \in BOOLEAN /\ expired \in BOOLEAN /\ late \in BOOLEAN
    /\ reader \in Reader /\ ignores \subseteq {Author[c] : c \in Comment}
    /\ writes \in 0 .. MaxWrites /\ visits \in 0 .. MaxVisits[reader] /\ visit \in Visit
    /\ copy \in [etag : Int, modified : Int, body : SUBSET Comment]

\* A jump ends on a page that shows the comment it found, unless meanwhile the
\* list lost a comment, got one that is not its last (ids are drawn before the
\* commit), or the counter was short of restored comments.  Only among the
\* deleted ones an ignored author's stays hidden.
JumpLands ==
    LET v == visit
    IN  Done /\ v.target # 0 /\ ~v.moved /\ v.exact =>
          v.target \in v.shown \/ (v.kind = "deleted" /\ v.target \in Hidden(v.list, ignores))

\* Who goes from the first page to the last sees every comment that stood all
\* the while, under the same provisos, but those of users he ignores.
WalkSeesAll ==
    LET v == visit
    IN  Done /\ v.kind = "walk" /\ ~v.moved /\ v.exact /\ ~hides =>
          v.start \ Hidden(Standing, ignores) \subseteq v.seen

\* A copy with the topic's tag is what the first page shows, unless a change
\* fell into the second of the one before or was stamped earlier.
CopyIsCurrent ==
    copy # NoCopy /\ copy.etag = lastmod /\ ~late =>
      copy.body = Slice(IF hides THEN {} ELSE Standing, 0, {})

\* Nothing is shown whose author, or the author of something it answers through
\* standing comments, is ignored, unless the reader asked for it.
IgnoredStayHidden ==
    LET under[n \in 0 .. Cardinality(Comment)] ==
          {c \in visit.list : Author[c] \in ignores \/ (n > 0 /\ ReplyTo[c] \in under[n - 1])}
    IN  Done /\ ~visit.show /\ ~visit.moved =>
          visit.shown \cap under[Cardinality(Comment)] = {}

\* What a page shows is what was asked for, in its place, and nothing hidden.
PagesConsistent == PageTypeOK /\ JumpLands /\ WalkSeesAll /\ CopyIsCurrent /\ IgnoredStayHidden
==============================================================================
