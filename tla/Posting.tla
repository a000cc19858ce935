------------------------------- MODULE Posting -------------------------------
(***************************************************************************)
(* What holds back an author who posts too much: the caches of the flood   *)
(* protector, one entry for each address, and the limit of topics a day in *)
(* a section, which is counted before the transaction that inserts the     *)
(* topic.  Moderators and correctors have no limit: the author is neither, *)
(* but they publish his drafts, and moderators move his topics.            *)
(***************************************************************************)
EXTENDS Integers, FiniteSets

CONSTANTS
    Req, Address, Section,
    Short, Long,    \* seconds between two messages: usually, and in slow mode
    Memory, Day,    \* how long the cache remembers and the limit counts
    Limit,          \* topics a day, by the author's stars
    MaxClock, MaxTopics, MaxRequests    \* bounds

\* The cache remembers half an hour, and nobody has to wait longer.
PostingConstants ==
    /\ {Short, Long, Memory, Day, Limit, MaxClock, MaxTopics, MaxRequests} \subseteq Nat
    /\ Short <= Memory /\ Long <= Memory /\ Day <= MaxClock

VARIABLES
    clock,
    entries,    \* kind and address |-> the instants in mapPerformedActions: one or none
    topics,     \* the author's rows
    req,
    asked,      \* requests so far
    passed,     \* history: the last that the protector let pass, and when it was due
    dropped,    \* history: gates whose instant was removed out of turn
    excess      \* history: topics of requests that overlapped another, or that others
                \* published, moved or restored

vars == <<clock, entries, topics, req, asked, passed, dropped, excess>>
hist == <<passed, dropped>>

Kind == {"AddTopic", "AddComment"}
Gate == Kind \X Address
Idle == [pc |-> "idle", kind |-> "AddTopic", from |-> "nowhere", topic |-> 0,
         section |-> "nowhere", draft |-> FALSE, refused |-> FALSE, wait |-> Short, stamp |-> 0, late |-> FALSE]
Row(at, state, section) == [at |-> at, state |-> state, section |-> section]
Nothing == Row(0, "none", "nowhere")
Never == -1
NoPassage == [stamp |-> Never, due |-> Never, late |-> FALSE]

Init ==
    /\ clock = Day          \* a day has passed since the first topic
    /\ entries = [g \in Gate |-> {}]
    /\ topics = [t \in 1..MaxTopics |-> Nothing]
    /\ req = [r \in Req |-> Idle] /\ asked = 0
    /\ passed = [g \in Gate |-> NoPassage] /\ dropped = {} /\ excess = {}

Tick == clock < MaxClock /\ clock' = clock + 1
        /\ UNCHANGED <<entries, topics, req, asked, hist, excess>>

Goto(r, pc) == req' = [req EXCEPT ![r].pc = pc]
Done(r) == req' = [req EXCEPT ![r] = Idle]

\* RECENT_TOPIC_COUNT_SQL: what a moderator deleted counts, what the author did does not.
Counted(s) == {t \in 1..MaxTopics : /\ topics[t].state \in {"posted", "deleted"}
                                    /\ topics[t].at >= clock - Day /\ topics[t].section = s}

\* bReached of stTopicLimitInfo.
Reached(s) == Cardinality(Counted(s)) >= Limit

\* create_topic, up to stCheckPublish.
Look(r, a, s, draft) ==
    /\ req[r].pc = "idle" /\ asked < MaxRequests
    /\ req' = [req EXCEPT ![r] = [Idle EXCEPT !.pc = "stamp", !.from = a, !.section = s,
                                              !.draft = draft, !.refused = Reached(s)]]
    /\ asked' = asked + 1
    /\ UNCHANGED <<clock, entries, topics, hist, excess>>

\* edit_topic with "publish", up to stEditPublishPermission: the protector is not asked.
LookAtDraft(r, t) ==
    /\ req[r].pc = "idle" /\ asked < MaxRequests /\ topics[t].state = "draft"
    /\ req' = [req EXCEPT ![r] = [Idle EXCEPT !.pc = "insert", !.topic = t,
                                              !.section = topics[t].section,
                                              !.refused = Reached(topics[t].section)]]
    /\ asked' = asked + 1
    /\ UNCHANGED <<clock, entries, topics, hist, excess>>

\* add_comment, up to iCommentRateThresholdSeconds.
LookAtComment(r, a) ==
    /\ req[r].pc = "idle" /\ asked < MaxRequests
    /\ req' = [req EXCEPT ![r] = [Idle EXCEPT !.pc = "stamp", !.kind = "AddComment", !.from = a]]
    /\ asked' = asked + 1
    /\ UNCHANGED <<clock, entries, topics, hist, excess>>

\* The threshold, by a score and a slow mode that may change at any time, and
\* Instant::now(); the mutex is waited for after it.
Stamp(r, wait) ==
    /\ req[r].pc = "stamp"
    /\ req' = [req EXCEPT ![r] = [@ EXCEPT !.pc = "gate", !.wait = wait, !.stamp = clock]]
    /\ UNCHANGED <<clock, entries, topics, asked, hist, excess>>

\* Mutant: what is older than the threshold is forgotten too.
RememberedShortly(r, at) == at <= req[r].stamp /\ req[r].stamp - at < Short

\* retain: an instant later than `now` has no checked duration, and is removed.
Remembered(r, at) == at <= req[r].stamp /\ req[r].stamp - at < Memory

TooSoon(r) == \E at \in entries[<<req[r].kind, req[r].from>>] :
                  Remembered(r, at) /\ at + req[r].wait > req[r].stamp

\* The section under the mutex; a refusal does not extend the deadline.
Cache(r) ==
    LET g == <<req[r].kind, req[r].from>> IN
    entries' = [h \in Gate |->
                    IF h = g /\ ~TooSoon(r) THEN {req[r].stamp}
                    ELSE IF h[1] = g[1] THEN {at \in entries[h] : Remembered(r, at)}
                    ELSE entries[h]]

Waits(q, h) == req[q].pc = "gate" /\ h = <<req[q].kind, req[q].from>>

\* retain takes away, from every address, what came after its own instant, and
\* what is too old for it, though somebody else may wait who is stamped before.
OutOfTurn(r) ==
    {h \in Gate : h[1] = req[r].kind /\ \E at \in entries[h] :
        /\ ~Remembered(r, at)
        /\ at > req[r].stamp \/ \E q \in Req : Waits(q, h) /\ req[q].stamp < at + Memory}

\* Whoever passes is due when his threshold has gone by since the one before.
Record(r) ==
    LET g == <<req[r].kind, req[r].from>>
        before == passed[g].stamp
        now == [stamp |-> req[r].stamp,
                due |-> IF before = Never THEN Never ELSE before + req[r].wait,
                late |-> before # Never /\ (g \in dropped \/ \E at \in entries[g] : at > req[r].stamp)] IN
    IF TooSoon(r)
    THEN passed' = passed /\ dropped' = dropped \cup OutOfTurn(r)
    ELSE /\ passed' = [passed EXCEPT ![g] = now]
         /\ dropped' = (dropped \cup OutOfTurn(r)) \ {g}

\* optRecordAddTopicAt; then the limit, unless it is a draft.
CheckTopic(r) ==
    /\ req[r].pc = "gate" /\ req[r].kind = "AddTopic"
    /\ Cache(r) /\ Record(r)
    /\ IF TooSoon(r) \/ (~req[r].draft /\ req[r].refused) THEN Done(r) ELSE Goto(r, "insert")
    /\ UNCHANGED <<clock, topics, asked, excess>>

\* optCheck of the comments' cache.
CheckComment(r) ==
    /\ req[r].pc = "gate" /\ req[r].kind = "AddComment"
    /\ Cache(r) /\ Record(r) /\ Done(r)
    /\ UNCHANGED <<clock, topics, asked, excess>>

\* Who is about to insert into the section has counted before this topic is there.
Overtaken(r) ==
    req' = [q \in Req |-> IF q = r THEN Idle
                          ELSE IF req[q].section = req[r].section THEN [req[q] EXCEPT !.late = TRUE]
                          ELSE req[q]]

\* The transaction of create_topic.
Insert(r) ==
    /\ req[r].pc = "insert" /\ req[r].topic = 0
    /\ \E t \in 1..MaxTopics :
        /\ topics[t].state = "none" /\ \A s \in 1..t-1 : topics[s].state # "none"
        /\ topics' = [topics EXCEPT ![t] = Row(clock, IF req[r].draft THEN "draft" ELSE "posted",
                                               req[r].section)]
        /\ excess' = IF req[r].late THEN excess \cup {t} ELSE excess
        /\ Overtaken(r)
    /\ UNCHANGED <<clock, entries, asked, hist>>

\* UPDATE topics SET draft=false, postdate=CURRENT_TIMESTAMP ... AND draft: of the
\* author's request, which has counted in the section where the draft was then ...
Publish(r) ==
    LET t == req[r].topic IN
    /\ req[r].pc = "insert" /\ t # 0
    /\ IF req[r].refused \/ topics[t].state # "draft"
       THEN Done(r) /\ UNCHANGED <<topics, excess>>
       ELSE /\ topics' = [topics EXCEPT ![t] = Row(clock, "posted", @.section)]
            /\ excess' = IF req[r].late \/ topics[t].section # req[r].section
                         THEN excess \cup {t} ELSE excess
            /\ Overtaken(r)
    /\ UNCHANGED <<clock, entries, asked, hist>>

\* ... and of a moderator's or corrector's, who has no limit to keep, or who confirms it.
EditorPublishes(t) ==
    /\ topics[t].state = "draft"
    /\ topics' = [topics EXCEPT ![t] = Row(clock, "posted", @.section)]
    /\ excess' = excess \cup {t}
    /\ UNCHANGED <<clock, entries, req, asked, hist>>

\* vMove; the topic may be deleted after the page has found that it is not.
Move(t, s) ==
    /\ topics[t].state # "none" /\ topics[t].section # s
    /\ topics' = [topics EXCEPT ![t].section = s]
    /\ excess' = IF topics[t].state = "draft" THEN excess ELSE excess \cup {t}
    /\ UNCHANGED <<clock, entries, req, asked, hist>>

\* The pages that delete and restore a topic.
Delete(t, own) ==
    /\ topics[t].state = "posted"
    /\ topics' = [topics EXCEPT ![t].state = IF own THEN "withdrawn" ELSE "deleted"]
    /\ UNCHANGED <<clock, entries, req, asked, hist, excess>>

Restore(t) ==
    /\ topics[t].state \in {"withdrawn", "deleted"}
    /\ topics' = [topics EXCEPT ![t].state = "posted"]
    /\ excess' = IF topics[t].state = "withdrawn" THEN excess \cup {t} ELSE excess
    /\ UNCHANGED <<clock, entries, req, asked, hist>>

Next ==
    \/ \E r \in Req :
        \/ \E a \in Address : LookAtComment(r, a)
        \/ \E a \in Address, s \in Section, draft \in BOOLEAN : Look(r, a, s, draft)
        \/ \E t \in 1..MaxTopics : LookAtDraft(r, t)
        \/ \E wait \in {Short, Long} : Stamp(r, wait)
        \/ CheckTopic(r) \/ CheckComment(r) \/ Insert(r) \/ Publish(r)
    \/ \E t \in 1..MaxTopics :
        \/ EditorPublishes(t) \/ Restore(t)
        \/ \E s \in Section : Move(t, s)
        \/ \E own \in BOOLEAN : Delete(t, own)
    \/ Tick

Spec == Init /\ [][Next]_vars

(***************************************************************************)
(* Properties                                                              *)
(***************************************************************************)

\* Every variable keeps its type: the protector keeps at most one instant of
\* an address, and none of the future.
PostingTypeOK ==
    /\ clock \in 0..MaxClock /\ asked \in 0..MaxRequests
    /\ \A g \in Gate : Cardinality(entries[g]) <= 1 /\ \A at \in entries[g] : at <= clock
    /\ \A t \in 1..MaxTopics :
        topics[t].state \in {"none", "draft", "posted", "withdrawn", "deleted"}
    /\ \A r \in Req : req[r].pc \in {"idle", "stamp", "gate", "insert"}
    /\ \A t \in 1..MaxTopics : topics[t].state # "none" => topics[t].section \in Section
    /\ excess \subseteq 1..MaxTopics

\* The author's topics of a day keep the limit in each section: drafts that are
\* published count, deleted topics count unless he withdrew them himself.  What
\* exceeds it came by requests for the section under way together, by a
\* restoration or a move, or by the hand of an editor, who publishes or confirms
\* the author's draft without the author's limit.
DailyLimit == \A s \in Section : Cardinality(Counted(s) \ excess) <= Limit

\* Two messages that pass from one address are as far apart as the later one
\* must be, unless it waited for the mutex while the other passed it, or a third
\* request, of any address, removed the instant of the earlier one out of turn.
Apart == \A g \in Gate : passed[g].late \/ passed[g].stamp >= passed[g].due

\* Both limits on what one author, or one address, posts.
PostingLimited == PostingTypeOK /\ DailyLimit /\ Apart
=============================================================================
