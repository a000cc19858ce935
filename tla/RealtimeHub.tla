----------------------------- MODULE RealtimeHub -----------------------------
(***************************************************************************)
(* Live delivery of new comments over WebSocket sessions.                  *)
(*                                                                         *)
(* A request that posts a comment commits it, sends it to the search queue *)
(* and then tells the hub: it copies the senders subscribed at that moment *)
(* and sends to them one by one, holding no lock.  A socket's task answers *)
(* a subscription request by reading the comments its client missed and    *)
(* only then subscribing, and forwards its mailbox to the client.          *)
(***************************************************************************)
EXTENDS Naturals, Sequences, FiniteSets

CONSTANTS
    Session, Topic, User,
    LastId,           \* bound: comments have the ids 1 .. LastId
    TopicOf,          \* the topic of each comment
    Notified,         \* the users who get an event for each comment
    UserOf,           \* the user of each session, or Anonymous
    Anonymous, Refresh,
    Ignored           \* <<user, comment>>: the branch has an ignored author

Comment == 1 .. LastId
ASSUME DataAssumption ==
    /\ LastId \in Nat
    /\ TopicOf \in [Comment -> Topic]
    /\ Notified \in [Comment -> SUBSET User]
    /\ UserOf \in [Session -> User \cup {Anonymous}]
    /\ Anonymous \notin User /\ Refresh \notin Comment

Delivery == Comment \cup {Refresh}

VARIABLES
    committed,     \* comments in the database
    poster,        \* per comment: how far the request that posts it has come
    targets,       \* per comment: the sessions it has still to send to
    session,       \* mapSessions: each registered session's topics
    topicSessions, \* mapTopicSessions
    userSessions,  \* mapUserSessions
    task,          \* per session: what its socket task does
    asked,         \* per session: the subscription request being answered
    mailbox,       \* per session: its unbounded channel
    client,        \* per session: what the client received
    since          \* per session: what was committed when it subscribed

hub  == <<session, topicSessions, userSessions>>
post == <<committed, poster, targets>>
sock == <<task, asked, mailbox, client, since>>
vars == <<hub, post, sock>>

NoQuestion == [topic |-> 0, last |-> 0, missed |-> <<>>]
Registered == DOMAIN session
TheTopics(s) == IF s \in Registered THEN session[s] ELSE {}

Init ==
    /\ \E c \in SUBSET Comment :
         /\ committed = c
         /\ poster = [k \in Comment |-> IF k \in c THEN "done" ELSE "new"]
    /\ targets = [c \in Comment |-> {}]
    /\ session = <<>>
    /\ topicSessions = [t \in Topic |-> {}]
    /\ userSessions = [u \in User |-> {}]
    /\ task = [s \in Session |-> "new"]
    /\ asked = [s \in Session |-> NoQuestion]
    /\ mailbox = [s \in Session |-> <<>>]
    /\ client = [s \in Session |-> <<>>]
    /\ since = [s \in Session |-> {}]

-----------------------------------------------------------------------------
(* The hub; each operation holds its mutex *)

Register(s) ==
    /\ session' = [x \in Registered \cup {s} |-> IF x = s THEN {} ELSE session[x]]
    /\ userSessions' = [u \in User |->
          IF u = UserOf[s] THEN userSessions[u] \cup {s} ELSE userSessions[u]]
    /\ UNCHANGED topicSessions

\* Mutant: the subscriptions of a session are not looked up when it goes.
UnregisterUserOnly(s) ==
    /\ session' = [x \in Registered \ {s} |-> session[x]]
    /\ userSessions' = [u \in User |-> userSessions[u] \ {s}]
    /\ UNCHANGED topicSessions

\* A session that is not registered any more is passed over.
Unregister(s) ==
    /\ session' = [x \in Registered \ {s} |-> session[x]]
    /\ topicSessions' = [t \in Topic |->
          IF t \in TheTopics(s) THEN topicSessions[t] \ {s} ELSE topicSessions[t]]
    /\ userSessions' = [u \in User |-> userSessions[u] \ {s}]

-----------------------------------------------------------------------------
(* The request that posts comment c *)

CommitComment(c) ==
    /\ poster[c] = "new"
    /\ committed' = committed \cup {c}
    /\ poster' = [poster EXCEPT ![c] = "queue"]
    /\ UNCHANGED <<targets, hub, sock>>

\* The search queue refuses, or the client goes away: nobody is told.
GiveUp(c) ==
    /\ poster[c] = "queue"
    /\ poster' = [poster EXCEPT ![c] = "failed"]
    /\ UNCHANGED <<committed, targets, hub, sock>>

Enqueued(c) ==
    /\ poster[c] = "queue"
    /\ poster' = [poster EXCEPT ![c] = "topic"]
    /\ UNCHANGED <<committed, targets, hub, sock>>

UserSenders(c) == Registered \cap UNION {userSessions[u] : u \in Notified[c]}

\* Mutant: only the sessions of signed-in users are sent comments.
UsersSenders(c) == {s \in topicSessions[TopicOf[c]] : UserOf[s] # Anonymous}
TopicSenders(c) == Registered \cap topicSessions[TopicOf[c]]

\* vecTopicSenders, then vecUserSenders.
CopyTopicSenders(c) ==
    /\ poster[c] = "topic"
    /\ targets' = [targets EXCEPT ![c] = TopicSenders(c)]
    /\ poster' = [poster EXCEPT ![c] = "comment"]
    /\ UNCHANGED <<committed, hub, sock>>

CopyUserSenders(c) ==
    /\ poster[c] = "comment" /\ targets[c] = {}
    /\ targets' = [targets EXCEPT ![c] = UserSenders(c)]
    /\ poster' = [poster EXCEPT ![c] = "events"]
    /\ UNCHANGED <<committed, hub, sock>>

Message(c) == IF poster[c] = "comment" THEN c ELSE Refresh

\* The receiver of a task that has ended is gone.
SendTo(c, s) ==
    /\ poster[c] \in {"comment", "events"} /\ s \in targets[c]
    /\ targets' = [targets EXCEPT ![c] = @ \ {s}]
    /\ IF task[s] = "ended"
       THEN Unregister(s) /\ UNCHANGED mailbox
       ELSE /\ mailbox' = [mailbox EXCEPT ![s] = Append(@, Message(c))]
            /\ UNCHANGED hub
    /\ UNCHANGED <<committed, poster, task, asked, client, since>>

EndPost(c) ==
    /\ poster[c] = "events" /\ targets[c] = {}
    /\ poster' = [poster EXCEPT ![c] = "done"]
    /\ UNCHANGED <<committed, targets, hub, sock>>

-----------------------------------------------------------------------------
(* The task of socket s *)

Connect(s) ==
    /\ task[s] = "new"
    /\ Register(s)
    /\ task' = [task EXCEPT ![s] = "idle"]
    /\ UNCHANGED <<post, asked, mailbox, client, since>>

\* The client asks for a topic from the last comment it has seen.  Clients
\* ask once per topic (a bound).
Ask(s, t, last) ==
    /\ task[s] = "idle" /\ t \notin TheTopics(s)
    /\ asked' = [asked EXCEPT ![s] = [topic |-> t, last |-> last, missed |-> <<>>]]
    /\ task' = [task EXCEPT ![s] = "query"]
    /\ UNCHANGED <<post, hub, mailbox, client, since>>

ById(S) == CHOOSE q \in [1 .. Cardinality(S) -> S] :
               \A i, j \in DOMAIN q : i < j => q[i] < q[j]

ReadMissed(s) ==
    /\ task[s] = "query"
    /\ LET missed == {c \in committed : TopicOf[c] = asked[s].topic /\ c > asked[s].last}
       IN  asked' = [asked EXCEPT ![s].missed = ById(missed)]
    /\ task' = [task EXCEPT ![s] = "subscribe"]
    /\ UNCHANGED <<post, hub, mailbox, client, since>>

\* Mutant: the comments missed are not sent.
WithoutMissed(queue, missed) == queue
\* bSubscribe: the hub's maps, then the missed comments into the mailbox.
AddSubscription(s, t) ==
    /\ session' = [session EXCEPT ![s] = @ \cup {t}]
    /\ topicSessions' = [topicSessions EXCEPT ![t] = @ \cup {s}]
WithMissed(queue, missed) == queue \o missed

Subscribe(s) ==
    /\ task[s] = "subscribe"
    /\ s \in Registered
    /\ LET t == asked[s].topic
           here == {c \in Comment : TopicOf[c] = t}
       IN  /\ AddSubscription(s, t)
           /\ mailbox' = [mailbox EXCEPT ![s] = WithMissed(@, asked[s].missed)]
           /\ since' = [since EXCEPT ![s] = @ \cup (committed \cap here)]
    /\ task' = [task EXCEPT ![s] = "idle"]
    /\ asked' = [asked EXCEPT ![s] = NoQuestion]
    /\ UNCHANGED <<post, userSessions, client>>

\* A comment of an ignored branch is dropped just before it is sent.
Shown(s, d) == <<UserOf[s], d>> \notin Ignored
Forward(s) ==
    /\ task[s] = "idle" /\ mailbox[s] # <<>>
    /\ LET d == Head(mailbox[s])
       IN  client' = [client EXCEPT ![s] =
                IF Shown(s, d) THEN Append(@, d) ELSE @]
    /\ mailbox' = [mailbox EXCEPT ![s] = Tail(@)]
    /\ UNCHANGED <<post, hub, task, asked, since>>

\* The client closes, or a query or a send fails.
Close(s) ==
    /\ task[s] \in {"idle", "query"}
    /\ task' = [task EXCEPT ![s] = "closing"]
    /\ UNCHANGED <<post, hub, asked, mailbox, client, since>>

EndTask(s) ==
    /\ task[s] = "closing"
    /\ Unregister(s)
    /\ task' = [task EXCEPT ![s] = "ended"]
    /\ mailbox' = [mailbox EXCEPT ![s] = <<>>]
    /\ UNCHANGED <<post, asked, client, since>>

-----------------------------------------------------------------------------
Post(c) == \/ CopyTopicSenders(c) \/ CopyUserSenders(c) \/ EndPost(c)
           \/ \E s \in Session : SendTo(c, s)
Socket(s) == ReadMissed(s) \/ Subscribe(s) \/ Forward(s) \/ EndTask(s)

Next ==
    \/ \E c \in Comment : CommitComment(c) \/ GiveUp(c) \/ Enqueued(c) \/ Post(c)
    \/ \E s \in Session :
         \/ Connect(s) \/ Close(s) \/ Socket(s)
         \/ \E t \in Topic, last \in 0 .. LastId : Ask(s, t, last)

Spec == Init /\ [][Next]_vars

\* Telling the hub does not await, and tasks are polled while they can move.
FairSpec == Spec /\ \A c \in Comment : WF_vars(Post(c))
                 /\ \A s \in Session : WF_vars(Socket(s))

-----------------------------------------------------------------------------
(* Properties *)

Task   == {"new", "idle", "query", "subscribe", "closing", "ended"}
Poster == {"new", "queue", "topic", "comment", "events", "done", "failed"}

\* The type invariant.
TypeOK ==
    /\ committed \subseteq Comment
    /\ poster \in [Comment -> Poster]
    /\ targets \in [Comment -> SUBSET Session]
    /\ Registered \subseteq Session /\ \A s \in Registered : session[s] \subseteq Topic
    /\ topicSessions \in [Topic -> SUBSET Session]
    /\ userSessions \in [User -> SUBSET Session]
    /\ task \in [Session -> Task]
    /\ \A s \in Session : /\ mailbox[s] \in Seq(Delivery) /\ client[s] \in Seq(Delivery)
                          /\ since[s] \subseteq Comment

\* The hub's three maps always say the same, and a session's entries go with
\* it: no message is routed to, and no memory kept for, an ended session.
HubConsistent ==
    /\ TypeOK
    /\ \A s \in Session, t \in Topic : s \in topicSessions[t] <=> t \in TheTopics(s)
    /\ \A s \in Session, u \in User :
         s \in userSessions[u] <=> s \in Registered /\ UserOf[s] = u
    /\ \A s \in Session : task[s] \in {"new", "ended"} => s \notin Registered

Occurs(c, q)  == \E i \in DOMAIN q : q[i] = c
Reaches(c, s) == \/ Occurs(c, client[s]) \/ Occurs(c, mailbox[s])
                 \/ <<UserOf[s], c>> \in Ignored

\* A session that has subscribed misses no comment committed afterwards, once
\* the request that posts it has told the hub, whatever the two interleave with.
NoLiveGap ==
    \A s \in Session, c \in Comment :
        /\ task[s] \in {"idle", "query", "subscribe"}
        /\ TopicOf[c] \in TheTopics(s) /\ c \in committed \ since[s]
        /\ poster[c] \in {"comment", "events", "done"} /\ ~(poster[c] = "comment" /\ s \in targets[c])
        => Reaches(c, s)

\* A comment the client asked for as missed is shown to it, or the socket ends.
MissedIsDelivered ==
    \A s \in Session, c \in Comment :
        task[s] = "subscribe" /\ Occurs(c, asked[s].missed) /\ <<UserOf[s], c>> \notin Ignored
            ~> Occurs(c, client[s]) \/ task[s] = "ended"

\* A request that got as far as telling the hub is seen by every subscriber
\* that stays, and the users it notifies are told to refresh.
LiveIsDelivered ==
    \A s \in Session, c \in Comment :
        poster[c] = "topic" /\ s \in topicSessions[TopicOf[c]]
          /\ <<UserOf[s], c>> \notin Ignored
            ~> Occurs(c, client[s]) \/ task[s] \in {"closing", "ended"}
RefreshIsDelivered ==
    \A s \in Session, c \in Comment :
        poster[c] = "topic" /\ s \in Registered /\ UserOf[s] \in Notified[c]
            ~> Occurs(Refresh, client[s]) \/ task[s] \in {"closing", "ended"}

\* Whatever a session is owed reaches it: what it missed, what comes live, and
\* the news of its own events.
AllIsDelivered == MissedIsDelivered /\ LiveIsDelivered /\ RefreshIsDelivered
=============================================================================
