------------------------- MODULE RealtimeHub_proofs -------------------------
(***************************************************************************)
(* What holds of the hub for any number of sockets, topics, users and      *)
(* comments, whoever ignores whom.                                         *)
(***************************************************************************)
EXTENDS RealtimeHub, SequenceTheorems, FiniteSetTheorems, WellFoundedInduction, TLAPS

(* The missed comments in their order *)

Rising(q) == \A i, j \in DOMAIN q : i < j => q[i] < q[j]

\* What ById chooses among.
Orders(S) == {q \in [1 .. Cardinality(S) -> S] : Rising(q)}

LEMMA LeastNat ==
    ASSUME NEW T, T \subseteq Nat, T # {} PROVE \E x \in T : \A y \in T : x <= y
<1>1. PICK x \in T : \A y \in T : ~(<<y, x>> \in OpToRel(<, Nat))
  BY WFMin, NatLessThanWellFounded
<1>2. \A y \in T : ~(y < x)
  BY <1>1 DEF OpToRel
<1> QED BY <1>2

LEMMA LastOfSome ==
    ASSUME NEW n \in Nat, NEW S, S \subseteq 1 .. n, S # {}
    PROVE  \E m \in S : \A y \in S : y <= m
<1> DEFINE T == {n - x : x \in S}
<1>1. T \subseteq Nat /\ T # {}
  <2>1. \A x \in S : x \in Int /\ n - x \in Nat
    OBVIOUS
  <2>2. PICK x \in S : TRUE
    OBVIOUS
  <2>3. n - x \in T
    OBVIOUS
  <2> QED BY <2>1, <2>3
<1>2. PICK m \in T : \A y \in T : m <= y
  BY <1>1, LeastNat
<1>3. PICK x \in S : m = n - x
  BY <1>2
<1>4. \A y \in S : x >= y
  <2> TAKE y \in S
  <2>1. m <= n - y
    BY <1>2
  <2> QED BY <2>1, <1>3
<1> QED BY <1>4

LEMMA SomeIds ==
    ASSUME NEW n \in Nat, NEW S, S \subseteq 1 .. n
    PROVE  IsFiniteSet(S) /\ Cardinality(S) \in Nat
<1>1. IsFiniteSet(1 .. n)
  BY FS_Interval
<1>2. IsFiniteSet(S)
  BY <1>1, FS_Subset
<1> QED BY <1>2, FS_CardinalityType

\* A set of numbers with its last taken out in order is in order with it back.
LEMMA LastOnTop ==
    ASSUME NEW n \in Nat, NEW S, S \subseteq 1 .. n, NEW m \in S, \A y \in S : y <= m,
           Orders(S \ {m}) # {}
    PROVE  Orders(S) # {}
<1> DEFINE R == S \ {m}
           k == Cardinality(R)
<1>1. IsFiniteSet(S) /\ IsFiniteSet(R) /\ k \in Nat /\ Cardinality(S) = k + 1
  <2>2. IsFiniteSet(S)
    BY SomeIds
  <2>3. IsFiniteSet(R) /\ Cardinality(R) = Cardinality(S) - 1
    BY <2>2, FS_RemoveElement
  <2> QED BY <2>2, <2>3, FS_CardinalityType
<1>2. PICK q \in [1 .. k -> R] : Rising(q)
  BY DEF Orders
<1> HIDE DEF R, k
<1> DEFINE p == [i \in 1 .. k + 1 |-> IF i = k + 1 THEN m ELSE q[i]]
<1>3. \A i \in 1 .. k : q[i] \in S /\ q[i] < m
  <2>1. \A y \in R : y \in S /\ y < m
    BY DEF R
  <2> QED BY <2>1
<1>4. p \in [1 .. k + 1 -> S]
  BY <1>1, <1>3
<1>5. Rising(p)
  <2> SUFFICES ASSUME NEW i \in 1 .. k + 1, NEW j \in 1 .. k + 1, i < j PROVE p[i] < p[j]
    BY DEF Rising
  <2>1. i \in 1 .. k /\ p[i] = q[i]
    BY <1>1
  <2>2. CASE j = k + 1
    BY <1>3, <2>1, <2>2
  <2>3. CASE j # k + 1
    <3>1. j \in 1 .. k /\ p[j] = q[j]
      BY <1>1, <2>3
    <3>2. q[i] < q[j]
      BY <1>2, <2>1, <3>1 DEF Rising
    <3> QED BY <2>1, <3>1, <3>2
  <2> QED BY <2>2, <2>3
<1> QED BY <1>1, <1>4, <1>5 DEF Orders

\* Every set of ids can be put in order: no least set cannot.
LEMMA SomeOrder ==
    ASSUME NEW n \in Nat, NEW S, S \subseteq 1 .. n
    PROVE  Orders(S) # {}
<1> DEFINE Bad == {T \in SUBSET (1 .. n) : Orders(T) = {}}
           Sizes == {Cardinality(T) : T \in Bad}
<1> SUFFICES ASSUME S \in Bad PROVE FALSE
  OBVIOUS
<1>1. \A T \in SUBSET (1 .. n) : IsFiniteSet(T) /\ Cardinality(T) \in Nat
  BY SomeIds
<1>2. Sizes \subseteq Nat /\ Sizes # {}
  BY <1>1
<1>3. PICK least \in Sizes : \A y \in Sizes : least <= y
  BY <1>2, LeastNat
<1>4. PICK T \in Bad : least = Cardinality(T)
  BY <1>3
<1>5. CASE T = {}
  <2>1. Cardinality(T) = 0 /\ 1 .. 0 = {}
    BY <1>5, FS_EmptySet
  <2>2. <<>> \in [1 .. Cardinality(T) -> T] /\ Rising(<<>>)
    BY <2>1 DEF Rising
  <2> QED BY <1>4, <2>2 DEF Orders
<1>6. CASE T # {}
  <2>1. PICK m \in T : \A y \in T : y <= m
    BY <1>4, <1>6, LastOfSome
  <2>2. T \ {m} \in SUBSET (1 .. n) /\ Cardinality(T \ {m}) = least - 1
    BY <1>1, <1>4, FS_RemoveElement
  <2>3. T \ {m} \notin Bad
    <3>1. SUFFICES ASSUME T \ {m} \in Bad PROVE FALSE
      OBVIOUS
    <3>2. least - 1 \in Sizes
      BY <2>2, <3>1
    <3>3. least \in Nat /\ least <= least - 1
      BY <1>2, <1>3, <3>2
    <3> QED BY <3>3
  <2>4. Orders(T \ {m}) # {}
    BY <2>2, <2>3
  <2> QED BY <1>4, <2>1, <2>4, LastOnTop
<1> QED BY <1>5, <1>6

\* What a subscription finds missed is put in order, each comment once.
LEMMA ByIdOrders ==
    ASSUME NEW S \in SUBSET Comment
    PROVE  ById(S) \in Seq(S) /\ Rising(ById(S))
<1>1. LastId \in Nat /\ S \subseteq 1 .. LastId
  BY DataAssumption DEF Comment
<1>2. \E q \in [1 .. Cardinality(S) -> S] : Rising(q)
  BY <1>1, SomeOrder DEF Orders
<1>3. ById(S) \in [1 .. Cardinality(S) -> S] /\ Rising(ById(S))
  BY <1>2 DEF ById, Rising
<1>4. Cardinality(S) \in Nat
  BY <1>1, SomeIds
<1> QED BY <1>3, <1>4

-----------------------------------------------------------------------------
(* The inductive invariant *)

Question == [topic : Topic \cup {0}, last : 0 .. LastId, missed : Seq(Comment)]
Live(s)  == task[s] \in {"idle", "query", "subscribe", "closing"}

\* TypeOK, and what a step needs besides: that the variables are functions, and
\* what a socket's task remembers of the request it answers.
SocketsTyped ==
    /\ task \in [Session -> Task]
    /\ asked \in [Session -> Question]
    /\ \A s \in Session : task[s] \in {"query", "subscribe"} => asked[s].topic \in Topic
    /\ mailbox \in [Session -> Seq(Delivery)] /\ client \in [Session -> Seq(Delivery)]
    /\ since \in [Session -> SUBSET Comment]
PostsTyped ==
    /\ committed \in SUBSET Comment
    /\ poster \in [Comment -> Poster]
    /\ targets \in [Comment -> SUBSET Session]
MapsTyped ==
    /\ Registered \in SUBSET Session /\ session \in [Registered -> SUBSET Topic]
    /\ topicSessions \in [Topic -> SUBSET Session]
    /\ userSessions \in [User -> SUBSET Session]
Typed == SocketsTyped /\ PostsTyped /\ MapsTyped

\* The maps agree, and a session is in them from its registration to the end
\* of its task.
TopicsAgree ==
    \A s \in Session, t \in Topic : s \in topicSessions[t] <=> t \in TheTopics(s)
UsersAgree ==
    \A s \in Session, u \in User : s \in userSessions[u] <=> s \in Registered /\ UserOf[s] = u
TasksAgree == \A s \in Session : s \in Registered <=> Live(s)
Agree == TopicsAgree /\ UsersAgree /\ TasksAgree

HubInv == Typed /\ Agree /\ NoLiveGap

-----------------------------------------------------------------------------
(* Types *)

LEMMA InitTyped == Init => Typed
<1> SUFFICES ASSUME Init PROVE Typed
  OBVIOUS
<1>1. LastId \in Nat
  BY DataAssumption
<1>2. SocketsTyped
  <2>1. <<>> \in Seq(Delivery) /\ <<>> \in Seq(Comment)
    OBVIOUS
  <2>2. NoQuestion \in Question
    BY <1>1, <2>1 DEF NoQuestion, Question
  <2> QED BY <2>1, <2>2 DEF Init, SocketsTyped, Task
<1>3. PostsTyped
  BY DEF Init, PostsTyped, Poster
<1>4. MapsTyped
  BY DEF Init, MapsTyped, Registered
<1> QED BY <1>2, <1>3, <1>4 DEF Typed

\* What the three operations of the hub do to its maps.
Enters(s) ==
    /\ MapsTyped' /\ Registered' = Registered \cup {s} /\ topicSessions' = topicSessions
    /\ \A x \in Registered' : session'[x] = IF x = s THEN {} ELSE session[x]
    /\ \A u \in User, x \in Session :
         x \in userSessions'[u] <=> x \in userSessions[u] \/ (x = s /\ u = UserOf[s])
Leaves(s) ==
    /\ MapsTyped' /\ Registered' = Registered \ {s}
    /\ \A x \in Registered' : session'[x] = session[x]
    /\ \A t \in Topic, x \in Session :
         x \in topicSessions'[t] <=> x \in topicSessions[t] /\ ~(x = s /\ t \in TheTopics(s))
    /\ \A u \in User, x \in Session : x \in userSessions'[u] <=> x \in userSessions[u] /\ x # s
Joins(s, t) ==
    /\ MapsTyped' /\ Registered' = Registered /\ userSessions' = userSessions
    /\ \A x \in Registered :
         session'[x] = IF x = s THEN session[x] \cup {t} ELSE session[x]
    /\ \A y \in Topic, x \in Session :
         x \in topicSessions'[y] <=> x \in topicSessions[y] \/ (x = s /\ y = t)

LEMMA RegisterEnters ==
    ASSUME Typed, NEW s \in Session, Register(s)
    PROVE  Enters(s)
<1> USE DEF Registered
<1>1. /\ DOMAIN session \in SUBSET Session /\ session \in [DOMAIN session -> SUBSET Topic]
      /\ topicSessions \in [Topic -> SUBSET Session] /\ userSessions \in [User -> SUBSET Session]
  BY DEF Typed, MapsTyped
<1>2. session' = [x \in DOMAIN session \cup {s} |-> IF x = s THEN {} ELSE session[x]]
  BY DEF Register
<1>3. /\ DOMAIN session' = DOMAIN session \cup {s}
      /\ session' \in [DOMAIN session' -> SUBSET Topic]
      /\ \A x \in DOMAIN session' : session'[x] = IF x = s THEN {} ELSE session[x]
  BY <1>1, <1>2
<1>4. /\ userSessions' \in [User -> SUBSET Session]
      /\ \A u \in User, x \in Session :
           x \in userSessions'[u] <=> x \in userSessions[u] \/ (x = s /\ u = UserOf[s])
  BY <1>1 DEF Register
<1>5. topicSessions' = topicSessions
  BY DEF Register
<1> QED BY <1>1, <1>3, <1>4, <1>5 DEF Enters, MapsTyped

LEMMA UnregisterLeaves ==
    ASSUME Typed, NEW s \in Session, Unregister(s)
    PROVE  Leaves(s)
<1> USE DEF Registered
<1>1. /\ DOMAIN session \in SUBSET Session /\ session \in [DOMAIN session -> SUBSET Topic]
      /\ topicSessions \in [Topic -> SUBSET Session] /\ userSessions \in [User -> SUBSET Session]
  BY DEF Typed, MapsTyped
<1>2. session' = [x \in DOMAIN session \ {s} |-> session[x]]
  BY DEF Unregister
<1>3. /\ DOMAIN session' = DOMAIN session \ {s}
      /\ session' \in [DOMAIN session' -> SUBSET Topic]
      /\ \A x \in DOMAIN session' : session'[x] = session[x]
  BY <1>1, <1>2
<1>4. /\ userSessions' \in [User -> SUBSET Session]
      /\ \A u \in User, x \in Session : x \in userSessions'[u] <=> x \in userSessions[u] /\ x # s
  BY <1>1 DEF Unregister
<1>5. topicSessions' = [t \in Topic |->
          IF t \in TheTopics(s) THEN topicSessions[t] \ {s} ELSE topicSessions[t]]
  BY DEF Unregister
<1>6. /\ topicSessions' \in [Topic -> SUBSET Session]
      /\ \A t \in Topic, x \in Session :
           x \in topicSessions'[t] <=> x \in topicSessions[t] /\ ~(x = s /\ t \in TheTopics(s))
  BY <1>1, <1>5
<1> QED BY <1>1, <1>3, <1>4, <1>6 DEF Leaves, MapsTyped

LEMMA SubscriptionJoins ==
    ASSUME Typed, NEW s \in Registered, NEW t \in Topic, AddSubscription(s, t),
           userSessions' = userSessions
    PROVE  Joins(s, t)
<1> USE DEF Registered
<1>1. /\ DOMAIN session \in SUBSET Session /\ session \in [DOMAIN session -> SUBSET Topic]
      /\ topicSessions \in [Topic -> SUBSET Session] /\ userSessions \in [User -> SUBSET Session]
  BY DEF Typed, MapsTyped
<1>2. session' = [session EXCEPT ![s] = @ \cup {t}]
  BY DEF AddSubscription
<1>3. /\ DOMAIN session' = DOMAIN session
      /\ session' \in [DOMAIN session' -> SUBSET Topic]
      /\ \A x \in DOMAIN session :
           session'[x] = IF x = s THEN session[x] \cup {t} ELSE session[x]
  BY <1>1, <1>2
<1>4. topicSessions' = [topicSessions EXCEPT ![t] = @ \cup {s}]
  BY DEF AddSubscription
<1>5. /\ topicSessions' \in [Topic -> SUBSET Session]
      /\ \A y \in Topic, x \in Session :
           x \in topicSessions'[y] <=> x \in topicSessions[y] \/ (x = s /\ y = t)
  BY <1>1, <1>4
<1> QED BY <1>1, <1>3, <1>5 DEF Joins, MapsTyped

\* A step of a request that posts leaves the sockets alone, but for a message.
LEMMA PostStepsTyped ==
    ASSUME Typed, NEW c \in Comment,
           CommitComment(c) \/ GiveUp(c) \/ Enqueued(c) \/ CopyTopicSenders(c)
             \/ CopyUserSenders(c) \/ EndPost(c)
    PROVE  Typed' /\ UNCHANGED <<hub, sock>>
<1>1. UNCHANGED <<hub, sock>>
  BY DEF CommitComment, GiveUp, Enqueued, CopyTopicSenders, CopyUserSenders, EndPost
<1>2. SocketsTyped' /\ MapsTyped'
  BY <1>1 DEF Typed, SocketsTyped, MapsTyped, Registered, hub, sock
<1>3. TopicSenders(c) \in SUBSET Session /\ UserSenders(c) \in SUBSET Session
  BY DEF Typed, MapsTyped, TopicSenders, UserSenders
<1>4. PostsTyped'
  BY <1>3 DEF Typed, PostsTyped, Poster, CommitComment, GiveUp, Enqueued,
              CopyTopicSenders, CopyUserSenders, EndPost
<1> QED BY <1>1, <1>2, <1>4 DEF Typed

LEMMA SendToTyped ==
    ASSUME Typed, NEW c \in Comment, NEW s \in Session, SendTo(c, s)
    PROVE  /\ Typed'
           /\ committed' = committed /\ poster' = poster /\ task' = task
           /\ client' = client /\ since' = since
           /\ targets' = [targets EXCEPT ![c] = @ \ {s}]
           /\ \A x \in Session : mailbox'[x] =
                IF x = s /\ task[s] # "ended" THEN Append(mailbox[x], Message(c)) ELSE mailbox[x]
           /\ task[s] = "ended" => Leaves(s)
           /\ task[s] # "ended" => UNCHANGED hub
<1>1. /\ committed' = committed /\ poster' = poster /\ task' = task /\ asked' = asked
      /\ client' = client /\ since' = since
      /\ targets' = [targets EXCEPT ![c] = @ \ {s}]
  BY DEF SendTo
<1>2. /\ mailbox \in [Session -> Seq(Delivery)] /\ targets \in [Comment -> SUBSET Session]
      /\ Message(c) \in Delivery
  BY DEF Typed, SocketsTyped, PostsTyped, Message, Delivery
<1>3. CASE task[s] = "ended"
  <2>1. Unregister(s) /\ mailbox' = mailbox
    BY <1>3 DEF SendTo
  <2>2. Leaves(s)
    BY <2>1, UnregisterLeaves
  <2>3. SocketsTyped' /\ PostsTyped' /\ MapsTyped'
    BY <1>1, <1>2, <2>1, <2>2 DEF Typed, SocketsTyped, PostsTyped, Leaves
  <2> QED BY <1>1, <1>3, <2>1, <2>2, <2>3 DEF Typed
<1>4. CASE task[s] # "ended"
  <2>1. mailbox' = [mailbox EXCEPT ![s] = Append(@, Message(c))] /\ UNCHANGED hub
    BY <1>4 DEF SendTo
  <2>2. Append(mailbox[s], Message(c)) \in Seq(Delivery)
    BY <1>2, AppendProperties
  <2>3. mailbox' \in [Session -> Seq(Delivery)]
    BY <1>2, <2>1, <2>2
  <2>4. MapsTyped'
    BY <2>1 DEF Typed, MapsTyped, Registered, hub
  <2>5. SocketsTyped' /\ PostsTyped'
    BY <1>1, <1>2, <2>3 DEF Typed, SocketsTyped, PostsTyped
  <2> QED BY <1>1, <1>2, <1>4, <2>1, <2>4, <2>5 DEF Typed
<1> QED BY <1>3, <1>4

\* The steps of a socket's task.
LEMMA SocketsAskTyped ==
    ASSUME Typed, NEW s \in Session, NEW t \in Topic, NEW last \in 0 .. LastId, Ask(s, t, last)
    PROVE  Typed' /\ task' = [task EXCEPT ![s] = "query"] /\ task[s] = "idle"
           /\ UNCHANGED <<post, hub, mailbox, client, since>>
<1>1. /\ task[s] = "idle" /\ task' = [task EXCEPT ![s] = "query"]
      /\ asked' = [asked EXCEPT ![s] = [topic |-> t, last |-> last, missed |-> <<>>]]
      /\ UNCHANGED <<post, hub, mailbox, client, since>>
  BY DEF Ask
<1>2. PostsTyped' /\ MapsTyped'
  BY <1>1 DEF Typed, PostsTyped, MapsTyped, Registered, hub, post
<1>3. [topic |-> t, last |-> last, missed |-> <<>>] \in Question
  BY DEF Question
<1>4. SocketsTyped'
  BY <1>1, <1>3 DEF Typed, SocketsTyped, Task
<1> QED BY <1>1, <1>2, <1>4 DEF Typed

LEMMA ReadMissedTyped ==
    ASSUME Typed, NEW s \in Session, ReadMissed(s)
    PROVE  Typed' /\ task' = [task EXCEPT ![s] = "subscribe"] /\ task[s] = "query"
           /\ UNCHANGED <<post, hub, mailbox, client, since>>
<1> DEFINE missed == {c \in committed : TopicOf[c] = asked[s].topic /\ c > asked[s].last}
<1>1. /\ task[s] = "query" /\ task' = [task EXCEPT ![s] = "subscribe"]
      /\ asked' = [asked EXCEPT ![s].missed = ById(missed)]
      /\ UNCHANGED <<post, hub, mailbox, client, since>>
  BY DEF ReadMissed
<1>2. PostsTyped' /\ MapsTyped'
  BY <1>1 DEF Typed, PostsTyped, MapsTyped, Registered, hub, post
<1>3. missed \in SUBSET Comment
  BY DEF Typed, PostsTyped
<1> HIDE DEF missed
<1>4. ById(missed) \in Seq(Comment)
  <2>1. ById(missed) \in Seq(missed)
    BY <1>3, ByIdOrders
  <2> QED BY <1>3, <2>1
<1>5. asked' \in [Session -> Question] /\ \A x \in Session : asked'[x].topic = asked[x].topic
  BY <1>1, <1>4 DEF Typed, SocketsTyped, Question
<1>6. SocketsTyped'
  BY <1>1, <1>5 DEF Typed, SocketsTyped, Task
<1> QED BY <1>1, <1>2, <1>6 DEF Typed

LEMMA SubscribeTyped ==
    ASSUME Typed, NEW s \in Session, Subscribe(s)
    PROVE  /\ Typed'
           /\ task[s] = "subscribe" /\ task' = [task EXCEPT ![s] = "idle"]
           /\ UNCHANGED <<post, userSessions, client>>
           /\ \E t \in Topic, missed \in Seq(Delivery) :
                /\ Joins(s, t)
                /\ mailbox' = [mailbox EXCEPT ![s] = @ \o missed]
                /\ since' = [since EXCEPT ![s] =
                              @ \cup (committed \cap {c \in Comment : TopicOf[c] = t})]
<1> DEFINE t == asked[s].topic
           missed == asked[s].missed
<1>1. /\ task[s] = "subscribe" /\ task' = [task EXCEPT ![s] = "idle"]
      /\ asked' = [asked EXCEPT ![s] = NoQuestion]
      /\ s \in Registered /\ AddSubscription(s, t)
      /\ mailbox' = [mailbox EXCEPT ![s] = @ \o missed]
      /\ since' = [since EXCEPT ![s] = @ \cup (committed \cap {c \in Comment : TopicOf[c] = t})]
      /\ UNCHANGED <<post, userSessions, client>>
  BY DEF Subscribe, WithMissed
<1>2. t \in Topic /\ missed \in Seq(Comment)
  BY <1>1 DEF Typed, SocketsTyped, Question
<1>3. missed \in Seq(Delivery)
  BY <1>2 DEF Delivery
<1> HIDE DEF t, missed
<1>4. Joins(s, t)
  BY <1>1, <1>2, SubscriptionJoins
<1>5. PostsTyped' /\ MapsTyped'
  BY <1>1, <1>4 DEF Typed, PostsTyped, Joins, post
<1>6. mailbox' \in [Session -> Seq(Delivery)]
  <2>1. mailbox \in [Session -> Seq(Delivery)]
    BY DEF Typed, SocketsTyped
  <2>2. mailbox[s] \o missed \in Seq(Delivery)
    BY <1>3, <2>1, ConcatProperties
  <2> QED BY <1>1, <2>1, <2>2
<1>7. asked' \in [Session -> Question]
  <2>1. LastId \in Nat
    BY DataAssumption
  <2>2. NoQuestion \in Question
    BY <2>1 DEF NoQuestion, Question
  <2> QED BY <1>1, <2>2 DEF Typed, SocketsTyped
<1>8. since' \in [Session -> SUBSET Comment]
  BY <1>1 DEF Typed, SocketsTyped
<1>9. SocketsTyped'
  BY <1>1, <1>6, <1>7, <1>8 DEF Typed, SocketsTyped, Task
<1> QED BY <1>1, <1>2, <1>3, <1>4, <1>5, <1>9 DEF Typed

LEMMA ForwardTyped ==
    ASSUME Typed, NEW s \in Session, Forward(s)
    PROVE  /\ Typed' /\ UNCHANGED <<post, hub, task, since>>
           /\ mailbox[s] # <<>> /\ mailbox' = [mailbox EXCEPT ![s] = Tail(@)]
           /\ client' = [client EXCEPT ![s] =
                IF Shown(s, Head(mailbox[s])) THEN Append(@, Head(mailbox[s])) ELSE @]
<1>1. /\ mailbox[s] # <<>> /\ mailbox' = [mailbox EXCEPT ![s] = Tail(@)]
      /\ client' = [client EXCEPT ![s] =
           IF Shown(s, Head(mailbox[s])) THEN Append(@, Head(mailbox[s])) ELSE @]
      /\ UNCHANGED <<post, hub, task, asked, since>>
  BY DEF Forward
<1>2. mailbox \in [Session -> Seq(Delivery)] /\ client \in [Session -> Seq(Delivery)]
  BY DEF Typed, SocketsTyped
<1>3. Head(mailbox[s]) \in Delivery /\ Tail(mailbox[s]) \in Seq(Delivery)
  BY <1>1, <1>2, HeadTailProperties
<1>4. Append(client[s], Head(mailbox[s])) \in Seq(Delivery)
  BY <1>2, <1>3, AppendProperties
<1>5. mailbox' \in [Session -> Seq(Delivery)] /\ client' \in [Session -> Seq(Delivery)]
  BY <1>1, <1>2, <1>3, <1>4
<1>6. PostsTyped' /\ MapsTyped'
  BY <1>1 DEF Typed, PostsTyped, MapsTyped, Registered, hub, post
<1>7. SocketsTyped'
  BY <1>1, <1>5 DEF Typed, SocketsTyped
<1> QED BY <1>1, <1>6, <1>7 DEF Typed

LEMMA ConnectTyped ==
    ASSUME Typed, NEW s \in Session, Connect(s)
    PROVE  /\ Typed' /\ Enters(s) /\ UNCHANGED <<post, mailbox, client, since>>
           /\ task[s] = "new" /\ task' = [task EXCEPT ![s] = "idle"]
<1>1. /\ task[s] = "new" /\ Register(s) /\ task' = [task EXCEPT ![s] = "idle"]
      /\ UNCHANGED <<post, asked, mailbox, client, since>>
  BY DEF Connect
<1>2. Enters(s)
  BY <1>1, RegisterEnters
<1>3. SocketsTyped' /\ PostsTyped' /\ MapsTyped'
  BY <1>1, <1>2 DEF Typed, SocketsTyped, PostsTyped, Task, Enters, post
<1> QED BY <1>1, <1>2, <1>3 DEF Typed

LEMMA CloseTyped ==
    ASSUME Typed, NEW s \in Session, Close(s)
    PROVE  /\ Typed' /\ UNCHANGED <<post, hub, mailbox, client, since>>
           /\ Live(s) /\ task' = [task EXCEPT ![s] = "closing"]
<1>1. /\ Live(s) /\ task' = [task EXCEPT ![s] = "closing"]
      /\ UNCHANGED <<post, hub, asked, mailbox, client, since>>
  BY DEF Close, Live
<1>2. SocketsTyped' /\ PostsTyped' /\ MapsTyped'
  BY <1>1 DEF Typed, SocketsTyped, PostsTyped, MapsTyped, Registered, Task, hub, post
<1> QED BY <1>1, <1>2 DEF Typed

LEMMA EndTaskTyped ==
    ASSUME Typed, NEW s \in Session, EndTask(s)
    PROVE  /\ Typed' /\ Leaves(s) /\ UNCHANGED <<post, client, since>>
           /\ task' = [task EXCEPT ![s] = "ended"]
           /\ \A x \in Session \ {s} : mailbox'[x] = mailbox[x]
<1>1. /\ Unregister(s) /\ task' = [task EXCEPT ![s] = "ended"]
      /\ mailbox' = [mailbox EXCEPT ![s] = <<>>]
      /\ UNCHANGED <<post, asked, client, since>>
  BY DEF EndTask
<1>2. Leaves(s)
  BY <1>1, UnregisterLeaves
<1>3. SocketsTyped' /\ PostsTyped' /\ MapsTyped'
  BY <1>1, <1>2 DEF Typed, SocketsTyped, PostsTyped, Task, Leaves, post
<1>4. \A x \in Session \ {s} : mailbox'[x] = mailbox[x]
  BY <1>1 DEF Typed, SocketsTyped
<1> QED BY <1>1, <1>2, <1>3, <1>4 DEF Typed

-----------------------------------------------------------------------------
(* The maps agree *)

LEMMA MapsHave ==
    ASSUME MapsTyped, NEW s \in Session
    PROVE  TheTopics(s) = IF s \in Registered THEN session[s] ELSE {}
BY DEF TheTopics

LEMMA EntersAgree ==
    ASSUME Typed, Agree, NEW s \in Session, Enters(s), ~Live(s), TasksAgree'
    PROVE  Agree' /\ TheTopics(s)' = {}
           /\ \A x \in Session \ {s} : TheTopics(x)' = TheTopics(x)
<1>1. s \notin Registered
  BY DEF Agree, TasksAgree
<1>2. /\ \A x \in Session : TheTopics(x)' = TheTopics(x)
      /\ TheTopics(s)' = {}
  BY <1>1 DEF TheTopics, Enters
<1>3. TopicsAgree'
  BY <1>2 DEF Agree, TopicsAgree, Enters
<1>4. UsersAgree'
  BY <1>1 DEF Agree, UsersAgree, Enters
<1> QED BY <1>2, <1>3, <1>4 DEF Agree

LEMMA LeavesAgree ==
    ASSUME Typed, Agree, NEW s \in Session, Leaves(s), TasksAgree'
    PROVE  Agree' /\ TheTopics(s)' = {}
           /\ \A x \in Session \ {s} : TheTopics(x)' = TheTopics(x)
<1>1. /\ \A x \in Session \ {s} : TheTopics(x)' = TheTopics(x)
      /\ TheTopics(s)' = {}
  BY DEF TheTopics, Leaves
<1>2. TopicsAgree'
  BY <1>1 DEF Agree, TopicsAgree, Leaves
<1>3. UsersAgree'
  BY DEF Agree, UsersAgree, Leaves
<1> QED BY <1>1, <1>2, <1>3 DEF Agree

LEMMA JoinsAgree ==
    ASSUME Typed, Agree, NEW s \in Registered, NEW t \in Topic, Joins(s, t), TasksAgree'
    PROVE  Agree' /\ TheTopics(s)' = TheTopics(s) \cup {t}
           /\ \A x \in Session \ {s} : TheTopics(x)' = TheTopics(x)
<1>1. /\ \A x \in Session \ {s} : TheTopics(x)' = TheTopics(x)
      /\ TheTopics(s)' = TheTopics(s) \cup {t}
  BY DEF TheTopics, Joins
<1>2. TopicsAgree'
  BY <1>1 DEF Agree, TopicsAgree, Joins
<1>3. UsersAgree'
  BY DEF Agree, UsersAgree, Joins
<1> QED BY <1>1, <1>2, <1>3 DEF Agree

LEMMA SameMapsAgree ==
    ASSUME Agree, UNCHANGED hub, TasksAgree'
    PROVE  Agree' /\ \A x \in Session : TheTopics(x)' = TheTopics(x)
<1>1. session' = session /\ topicSessions' = topicSessions /\ userSessions' = userSessions
  BY DEF hub
<1>2. \A x \in Session : TheTopics(x)' = TheTopics(x)
  BY <1>1 DEF TheTopics, Registered
<1>3. TopicsAgree' /\ UsersAgree'
  BY <1>1, <1>2 DEF Agree, TopicsAgree, UsersAgree, Registered
<1> QED BY <1>2, <1>3 DEF Agree

-----------------------------------------------------------------------------
(* What a socket has received or will receive *)

LEMMA OccursInConcat ==
    ASSUME NEW p \in Seq(Delivery), NEW q \in Seq(Delivery), NEW c, Occurs(c, p)
    PROVE  Occurs(c, p \o q)
<1>1. PICK i \in 1 .. Len(p) : p[i] = c
  BY DEF Occurs
<1>2. Len(p \o q) = Len(p) + Len(q) /\ (p \o q)[i] = c /\ p \o q \in Seq(Delivery)
  BY <1>1, ConcatProperties
<1>3. i \in DOMAIN (p \o q)
  BY <1>1, <1>2
<1> QED BY <1>2, <1>3 DEF Occurs

LEMMA OccursInAppend ==
    ASSUME NEW p \in Seq(Delivery), NEW d \in Delivery, NEW c
    PROVE  Occurs(c, Append(p, d)) <=> Occurs(c, p) \/ c = d
<1>1. /\ Append(p, d) \in Seq(Delivery) /\ Len(Append(p, d)) = Len(p) + 1
      /\ \A i \in 1 .. Len(p) : Append(p, d)[i] = p[i]
      /\ Append(p, d)[Len(p) + 1] = d
  BY AppendProperties
<1>2. DOMAIN Append(p, d) = 1 .. Len(p) + 1 /\ DOMAIN p = 1 .. Len(p) /\ Len(p) \in Nat
  BY <1>1
<1> HIDE <1>1
<1>3. ASSUME Occurs(c, Append(p, d)) PROVE Occurs(c, p) \/ c = d
  <2>1. PICK i \in 1 .. Len(p) + 1 : Append(p, d)[i] = c
    BY <1>2, <1>3 DEF Occurs
  <2>2. CASE i = Len(p) + 1
    BY <1>1, <2>1, <2>2
  <2>3. CASE i # Len(p) + 1
    <3>1. i \in 1 .. Len(p)
      BY <1>2, <2>3
    <3> QED BY <1>1, <1>2, <2>1, <3>1 DEF Occurs
  <2> QED BY <2>2, <2>3
<1>4. ASSUME Occurs(c, p) \/ c = d PROVE Occurs(c, Append(p, d))
  <2>1. CASE Occurs(c, p)
    <3>1. PICK i \in 1 .. Len(p) : p[i] = c
      BY <1>2, <2>1 DEF Occurs
    <3>2. i \in 1 .. Len(p) + 1
      BY <1>2
    <3> QED BY <1>1, <1>2, <3>1, <3>2 DEF Occurs
  <2>2. CASE c = d
    <3>1. Len(p) + 1 \in 1 .. Len(p) + 1
      BY <1>2
    <3> QED BY <1>1, <1>2, <2>2, <3>1 DEF Occurs
  <2> QED BY <1>4, <2>1, <2>2
<1> QED BY <1>3, <1>4

LEMMA OccursInTail ==
    ASSUME NEW p \in Seq(Delivery), p # <<>>, NEW c, Occurs(c, p), c # Head(p)
    PROVE  Occurs(c, Tail(p))
<1>1. /\ Tail(p) \in Seq(Delivery) /\ Len(Tail(p)) = Len(p) - 1
      /\ \A i \in 1 .. Len(Tail(p)) : Tail(p)[i] = p[i + 1]
  BY HeadTailProperties
<1>2. PICK i \in 1 .. Len(p) : p[i] = c
  BY DEF Occurs
<1>3. Head(p) = p[1]
  OBVIOUS
<1>4. i - 1 \in 1 .. Len(Tail(p)) /\ DOMAIN Tail(p) = 1 .. Len(Tail(p))
  BY <1>1, <1>2, <1>3
<1>5. Tail(p)[i - 1] = c
  BY <1>1, <1>2, <1>4
<1> QED BY <1>4, <1>5 DEF Occurs

-----------------------------------------------------------------------------
(* No gap: one session and one comment *)

\* The comment has been told to the topic's subscribers, for all s has to know.
Told(s, c) ==
    /\ poster[c] \in {"comment", "events", "done"}
    /\ ~(poster[c] = "comment" /\ s \in targets[c])
Due(s, c) ==
    /\ task[s] \in {"idle", "query", "subscribe"}
    /\ TopicOf[c] \in TheTopics(s) /\ c \in committed \ since[s]

LEMMA GapIs ==
    /\ NoLiveGap <=> \A s \in Session, c \in Comment : Due(s, c) /\ Told(s, c) => Reaches(c, s)
    /\ NoLiveGap' <=>
         \A s \in Session, c \in Comment : Due(s, c)' /\ Told(s, c)' => Reaches(c, s)'
BY Zenon DEF NoLiveGap, Due, Told

\* A session whose client and mailbox a step leaves alone.
LEMMA StillReaches ==
    ASSUME NEW s, NEW c, mailbox'[s] = mailbox[s], client'[s] = client[s]
    PROVE  Reaches(c, s)' <=> Reaches(c, s)
BY DEF Reaches, Occurs

\* A step of the sockets that leaves what is posted alone.
LEMMA SocketGap ==
    ASSUME HubInv, NEW s \in Session, UNCHANGED post,
           task' = [task EXCEPT ![s] = task'[s]], since' = [since EXCEPT ![s] = since'[s]],
           \A x \in Session \ {s} :
              mailbox'[x] = mailbox[x] /\ client'[x] = client[x] /\ TheTopics(x)' = TheTopics(x),
           \A c \in Comment : Due(s, c)' /\ Told(s, c) => Reaches(c, s)'
    PROVE  NoLiveGap'
<1> SUFFICES ASSUME NEW x \in Session, NEW c \in Comment, Due(x, c)', Told(x, c)'
             PROVE  Reaches(c, x)'
  BY GapIs
<1>1. Told(x, c)
  BY DEF Told, post
<1>2. CASE x = s
  BY <1>1, <1>2
<1>3. CASE x # s
  <2>1. Due(x, c)
    BY <1>3 DEF Due, post, HubInv, Typed, SocketsTyped
  <2>2. Reaches(c, x)
    BY <1>1, <2>1, GapIs DEF HubInv
  <2> QED BY <1>3, <2>2, StillReaches
<1> QED BY <1>2, <1>3

LEMMA PostStepsKeep ==
    ASSUME HubInv, NEW c \in Comment,
           CommitComment(c) \/ GiveUp(c) \/ Enqueued(c) \/ CopyTopicSenders(c)
             \/ CopyUserSenders(c) \/ EndPost(c)
    PROVE  HubInv'
<1>1. Typed' /\ UNCHANGED <<hub, sock>>
  BY PostStepsTyped DEF HubInv
<1>2. TasksAgree'
  BY <1>1 DEF HubInv, Agree, TasksAgree, Live, Registered, hub, sock
<1>3. Agree' /\ \A x \in Session : TheTopics(x)' = TheTopics(x)
  BY <1>1, <1>2, SameMapsAgree DEF HubInv
<1>4. ASSUME NEW s \in Session, NEW d \in Comment, Due(s, d)', Told(s, d)'
      PROVE  Reaches(d, s)'
  <2>1. Reaches(d, s)' <=> Reaches(d, s)
    BY <1>1, StillReaches DEF sock
  <2>2. task[s] \in {"idle", "query", "subscribe"} /\ TopicOf[d] \in TheTopics(s)
        /\ d \in committed' /\ d \notin since[s]
    BY <1>1, <1>3, <1>4 DEF Due, sock
  <2>3. PostsTyped
    BY DEF HubInv, Typed
  <2>4. ASSUME d \in committed, Told(s, d) PROVE Reaches(d, s)'
    BY <2>1, <2>2, <2>4, GapIs DEF HubInv, Due
  <2>5. CASE d # c
    <3>1. d \in committed /\ poster'[d] = poster[d] /\ targets'[d] = targets[d]
      BY <2>2, <2>3, <2>5 DEF PostsTyped, CommitComment, GiveUp, Enqueued,
         CopyTopicSenders, CopyUserSenders, EndPost
    <3> QED BY <1>4, <2>4, <3>1 DEF Told
  <2>6. CASE d = c
    <3>1. CASE CommitComment(c) \/ GiveUp(c) \/ Enqueued(c)
      <4>1. poster'[c] \in {"queue", "failed", "topic"}
        BY <2>3, <3>1 DEF PostsTyped, CommitComment, GiveUp, Enqueued
      <4> QED BY <1>4, <2>6, <4>1 DEF Told
    <3>2. CASE CopyTopicSenders(c)
      <4>1. poster'[c] = "comment" /\ targets'[c] = TopicSenders(c)
        BY <2>3, <3>2 DEF PostsTyped, CopyTopicSenders
      <4>2. TopicOf[c] \in Topic
        BY DataAssumption
      <4>3. s \in topicSessions[TopicOf[c]] /\ s \in Registered
        <5>1. s \in topicSessions[TopicOf[c]]
          BY <2>2, <2>6, <4>2 DEF HubInv, Agree, TopicsAgree
        <5> QED BY <2>2, <5>1 DEF TheTopics
      <4>4. s \in targets'[c]
        BY <4>1, <4>3 DEF TopicSenders
      <4> QED BY <1>4, <2>6, <4>1, <4>4 DEF Told
    <3>3. CASE CopyUserSenders(c) \/ EndPost(c)
      <4>1. Told(s, c) /\ committed' = committed
        BY <3>3 DEF Told, CopyUserSenders, EndPost
      <4> QED BY <2>2, <2>4, <2>6, <4>1
    <3> QED BY <3>1, <3>2, <3>3
  <2> QED BY <2>5, <2>6
<1>5. NoLiveGap'
  BY <1>4, GapIs
<1> QED BY <1>1, <1>3, <1>5 DEF HubInv

LEMMA SendToKeeps ==
    ASSUME HubInv, NEW c \in Comment, NEW s \in Session, SendTo(c, s)
    PROVE  HubInv'
<1>1. /\ Typed'
      /\ committed' = committed /\ poster' = poster /\ task' = task
      /\ client' = client /\ since' = since
      /\ targets' = [targets EXCEPT ![c] = @ \ {s}]
      /\ \A x \in Session : mailbox'[x] =
           IF x = s /\ task[s] # "ended" THEN Append(mailbox[x], Message(c)) ELSE mailbox[x]
      /\ task[s] = "ended" => Leaves(s)
      /\ task[s] # "ended" => UNCHANGED hub
  BY SendToTyped DEF HubInv
<1>2. Typed /\ Agree /\ TasksAgree
  BY DEF HubInv, Agree
<1>3. Agree' /\ \A x \in Session : task[x] # "ended" => TheTopics(x)' = TheTopics(x)
  <2>1. CASE task[s] = "ended"
    <3>1. s \notin Registered
      BY <1>2, <2>1 DEF TasksAgree, Live
    <3>2. Registered' = Registered
      BY <1>1, <2>1, <3>1 DEF Leaves
    <3>3. TasksAgree'
      BY <1>1, <1>2, <3>2 DEF TasksAgree, Live
    <3>4. Agree' /\ \A x \in Session \ {s} : TheTopics(x)' = TheTopics(x)
      BY <1>1, <1>2, <2>1, <3>3, LeavesAgree
    <3> QED BY <2>1, <3>4
  <2>2. CASE task[s] # "ended"
    <3>1. TasksAgree'
      BY <1>1, <1>2, <2>2 DEF TasksAgree, Live, Registered, hub
    <3> QED BY <1>1, <1>2, <2>2, <3>1, SameMapsAgree
  <2> QED BY <2>1, <2>2
<1>4. ASSUME NEW x \in Session, NEW d \in Comment, Due(x, d)', Told(x, d)'
      PROVE  Reaches(d, x)'
  <2>1. Due(x, d) /\ task[x] # "ended"
    BY <1>1, <1>3, <1>4 DEF Due
  <2>2. /\ mailbox[x] \in Seq(Delivery) /\ Message(c) \in Delivery
        /\ targets \in [Comment -> SUBSET Session]
    BY <1>2 DEF Typed, SocketsTyped, PostsTyped, Message, Delivery
  <2>3. CASE Told(x, d)
    <3>1. Reaches(d, x)
      BY <2>1, <2>3, GapIs DEF HubInv
    <3>2. Occurs(d, mailbox[x]) => Occurs(d, mailbox'[x])
      BY <1>1, <2>2, OccursInAppend
    <3> QED BY <1>1, <3>1, <3>2 DEF Reaches
  <2>4. CASE ~Told(x, d)
    <3>1. poster[d] = "comment" /\ x \in targets[d] /\ x \notin targets'[d]
      BY <1>1, <1>4, <2>4 DEF Told
    <3>2. d = c /\ x = s /\ Message(c) = c
      BY <1>1, <2>2, <3>1 DEF Message
    <3>3. mailbox'[x] = Append(mailbox[x], c)
      BY <1>1, <2>1, <3>2
    <3> QED BY <2>2, <3>2, <3>3, OccursInAppend DEF Reaches
  <2> QED BY <2>3, <2>4
<1>5. NoLiveGap'
  BY <1>4, GapIs
<1> QED BY <1>1, <1>3, <1>5 DEF HubInv

LEMMA ConnectKeeps ==
    ASSUME HubInv, NEW s \in Session, Connect(s)
    PROVE  HubInv'
<1>1. /\ Typed' /\ Enters(s) /\ UNCHANGED <<post, mailbox, client, since>>
      /\ task[s] = "new" /\ task' = [task EXCEPT ![s] = "idle"]
  BY ConnectTyped DEF HubInv
<1>2. Typed /\ Agree /\ ~Live(s)
  BY <1>1 DEF HubInv, Live
<1>3. TasksAgree'
  BY <1>1, <1>2 DEF Agree, TasksAgree, Live, Enters, Typed, SocketsTyped
<1>4. /\ Agree' /\ TheTopics(s)' = {}
      /\ \A x \in Session \ {s} : TheTopics(x)' = TheTopics(x)
  BY <1>1, <1>2, <1>3, EntersAgree
<1>5. NoLiveGap'
  <2>1. /\ task' = [task EXCEPT ![s] = task'[s]] /\ since' = [since EXCEPT ![s] = since'[s]]
        /\ \A x \in Session \ {s} :
             mailbox'[x] = mailbox[x] /\ client'[x] = client[x] /\ TheTopics(x)' = TheTopics(x)
    BY <1>1, <1>2, <1>4 DEF Typed, SocketsTyped
  <2>2. \A c \in Comment : ~Due(s, c)'
    BY <1>4 DEF Due
  <2> QED BY <1>1, <2>1, <2>2, SocketGap
<1> QED BY <1>1, <1>4, <1>5 DEF HubInv

\* A step that leaves the maps, the mailboxes and the clients alone.
LEMMA QuietKeeps ==
    ASSUME HubInv, Typed', NEW s \in Session,
           UNCHANGED <<post, hub, mailbox, client, since>>,
           task' = [task EXCEPT ![s] = task'[s]], Live(s), Live(s)',
           task'[s] # "closing" => task[s] \in {"idle", "query", "subscribe"}
    PROVE  HubInv'
<1>1. TasksAgree'
  BY DEF HubInv, Agree, TasksAgree, Live, Registered, hub, Typed, SocketsTyped
<1>2. Agree' /\ \A x \in Session : TheTopics(x)' = TheTopics(x)
  BY <1>1, SameMapsAgree DEF HubInv
<1>3. ASSUME NEW c \in Comment, Due(s, c)', Told(s, c) PROVE Reaches(c, s)'
  <2>1. Due(s, c)
    BY <1>2, <1>3 DEF Due, post
  <2>2. Reaches(c, s)
    BY <1>3, <2>1, GapIs DEF HubInv
  <2> QED BY <2>2, StillReaches
<1>4. NoLiveGap'
  <2>1. since' = [since EXCEPT ![s] = since'[s]]
    BY DEF HubInv, Typed, SocketsTyped
  <2>2. \A x \in Session \ {s} :
           mailbox'[x] = mailbox[x] /\ client'[x] = client[x] /\ TheTopics(x)' = TheTopics(x)
    BY <1>2
  <2> QED BY <1>3, <2>1, <2>2, SocketGap
<1> QED BY <1>2, <1>4 DEF HubInv

LEMMA SubscribeKeeps ==
    ASSUME HubInv, NEW s \in Session, Subscribe(s)
    PROVE  HubInv'
<1>1. /\ Typed'
      /\ task[s] = "subscribe" /\ task' = [task EXCEPT ![s] = "idle"]
      /\ UNCHANGED <<post, userSessions, client>>
      /\ \E t \in Topic, missed \in Seq(Delivery) :
           /\ Joins(s, t)
           /\ mailbox' = [mailbox EXCEPT ![s] = @ \o missed]
           /\ since' = [since EXCEPT ![s] =
                         @ \cup (committed \cap {c \in Comment : TopicOf[c] = t})]
  BY SubscribeTyped DEF HubInv
<1>2. PICK t \in Topic, missed \in Seq(Delivery) :
           /\ Joins(s, t)
           /\ mailbox' = [mailbox EXCEPT ![s] = @ \o missed]
           /\ since' = [since EXCEPT ![s] =
                         @ \cup (committed \cap {c \in Comment : TopicOf[c] = t})]
  BY <1>1
<1>3. Typed /\ SocketsTyped /\ Agree /\ TasksAgree /\ s \in Registered
  BY <1>1 DEF HubInv, Agree, TasksAgree, Live, Typed
<1>4. TasksAgree'
  BY <1>1, <1>2, <1>3 DEF TasksAgree, Live, Joins, SocketsTyped
<1>5. /\ Agree' /\ TheTopics(s)' = TheTopics(s) \cup {t}
      /\ \A x \in Session \ {s} : TheTopics(x)' = TheTopics(x)
  BY <1>2, <1>3, <1>4, JoinsAgree
<1>6. ASSUME NEW c \in Comment, Due(s, c)', Told(s, c) PROVE Reaches(c, s)'
  <2>1. c \in committed /\ c \notin since[s] /\ TopicOf[c] # t /\ TopicOf[c] \in TheTopics(s)'
    BY <1>1, <1>2, <1>3, <1>6 DEF Due, post, SocketsTyped
  <2>2. Due(s, c)
    BY <1>1, <1>5, <2>1 DEF Due
  <2>3. Reaches(c, s)
    BY <1>6, <2>2, GapIs DEF HubInv
  <2>4. mailbox[s] \in Seq(Delivery) /\ mailbox'[s] = mailbox[s] \o missed
    BY <1>2, <1>3 DEF SocketsTyped
  <2>5. Occurs(c, mailbox[s]) => Occurs(c, mailbox'[s])
    BY <1>2, <2>4, OccursInConcat
  <2> QED BY <1>1, <2>3, <2>5 DEF Reaches
<1>7. /\ task' = [task EXCEPT ![s] = task'[s]] /\ since' = [since EXCEPT ![s] = since'[s]]
      /\ \A x \in Session \ {s} : mailbox'[x] = mailbox[x] /\ client'[x] = client[x]
  BY <1>1, <1>2, <1>3 DEF SocketsTyped
<1>8. NoLiveGap'
  BY <1>1, <1>5, <1>6, <1>7, SocketGap
<1> QED BY <1>1, <1>5, <1>8 DEF HubInv

LEMMA ForwardKeeps ==
    ASSUME HubInv, NEW s \in Session, Forward(s)
    PROVE  HubInv'
<1> DEFINE d == Head(mailbox[s])
<1>1. /\ Typed' /\ UNCHANGED <<post, hub, task, since>>
      /\ mailbox[s] # <<>> /\ mailbox' = [mailbox EXCEPT ![s] = Tail(@)]
      /\ client' = [client EXCEPT ![s] = IF Shown(s, d) THEN Append(@, d) ELSE @]
  BY ForwardTyped DEF HubInv
<1>2. /\ mailbox \in [Session -> Seq(Delivery)] /\ client \in [Session -> Seq(Delivery)]
      /\ task \in [Session -> Task] /\ since \in [Session -> SUBSET Comment]
  BY DEF HubInv, Typed, SocketsTyped
<1>3. d \in Delivery
  BY <1>1, <1>2, HeadTailProperties
<1>4. Agree' /\ \A x \in Session : TheTopics(x)' = TheTopics(x)
  <2>1. TasksAgree'
    BY <1>1 DEF HubInv, Agree, TasksAgree, Live, Registered, hub
  <2> QED BY <1>1, <2>1, SameMapsAgree DEF HubInv
<1>5. /\ mailbox'[s] = Tail(mailbox[s])
      /\ client'[s] = IF Shown(s, d) THEN Append(client[s], d) ELSE client[s]
      /\ \A x \in Session \ {s} : mailbox'[x] = mailbox[x] /\ client'[x] = client[x]
  BY <1>1, <1>2
<1> HIDE DEF d
<1>6. ASSUME NEW c \in Comment
      PROVE  Occurs(c, client'[s]) <=> Occurs(c, client[s]) \/ (Shown(s, d) /\ c = d)
  BY <1>2, <1>3, <1>5, OccursInAppend
<1>7. ASSUME NEW c \in Comment, Due(s, c)', Told(s, c) PROVE Reaches(c, s)'
  <2>1. Due(s, c)
    BY <1>1, <1>4, <1>7 DEF Due, post
  <2>2. Reaches(c, s)
    BY <1>7, <2>1, GapIs DEF HubInv
  <2>3. Occurs(c, mailbox[s]) => c = d \/ Occurs(c, mailbox'[s])
    BY <1>1, <1>2, <1>5, OccursInTail DEF d
  <2>4. c = d => Occurs(c, client'[s]) \/ <<UserOf[s], c>> \in Ignored
    BY <1>6 DEF Shown
  <2> QED BY <1>6, <2>2, <2>3, <2>4 DEF Reaches
<1>8. NoLiveGap'
  <2>1. task' = [task EXCEPT ![s] = task'[s]] /\ since' = [since EXCEPT ![s] = since'[s]]
    BY <1>1, <1>2
  <2> QED BY <1>1, <1>4, <1>5, <1>7, <2>1, SocketGap
<1> QED BY <1>1, <1>4, <1>8 DEF HubInv

LEMMA EndTaskKeeps ==
    ASSUME HubInv, NEW s \in Session, EndTask(s)
    PROVE  HubInv'
<1>1. /\ Typed' /\ Leaves(s) /\ UNCHANGED <<post, client, since>>
      /\ task' = [task EXCEPT ![s] = "ended"]
      /\ \A x \in Session \ {s} : mailbox'[x] = mailbox[x]
  BY EndTaskTyped DEF HubInv
<1>2. Typed /\ SocketsTyped /\ Agree /\ TasksAgree
  BY DEF HubInv, Agree, Typed
<1>3. TasksAgree'
  BY <1>1, <1>2 DEF TasksAgree, Live, Leaves, SocketsTyped
<1>4. Agree' /\ \A x \in Session \ {s} : TheTopics(x)' = TheTopics(x)
  BY <1>1, <1>2, <1>3, LeavesAgree
<1>5. /\ task' = [task EXCEPT ![s] = task'[s]] /\ since' = [since EXCEPT ![s] = since'[s]]
      /\ task'[s] = "ended"
  BY <1>1, <1>2 DEF SocketsTyped
<1>6. NoLiveGap'
  BY <1>1, <1>4, <1>5, SocketGap DEF Due
<1> QED BY <1>1, <1>4, <1>6 DEF HubInv

-----------------------------------------------------------------------------
LEMMA InitHub == Init => HubInv
<1> SUFFICES ASSUME Init PROVE HubInv
  OBVIOUS
<1>1. Typed
  BY InitTyped
<1>2. \A s \in Session : TheTopics(s) = {} /\ s \notin Registered
  BY DEF Init, TheTopics, Registered
<1>3. Agree
  BY <1>2 DEF Init, Agree, TopicsAgree, UsersAgree, TasksAgree, Live
<1>4. NoLiveGap
  BY <1>2 DEF Init, NoLiveGap
<1> QED BY <1>1, <1>3, <1>4 DEF HubInv

LEMMA StepHub ==
    ASSUME HubInv, [Next]_vars
    PROVE  HubInv'
<1>1. CASE UNCHANGED vars
  <2>1. UNCHANGED <<hub, post, sock>>
    BY <1>1 DEF vars
  <2>2. Typed'
    BY <2>1 DEF HubInv, Typed, SocketsTyped, PostsTyped, MapsTyped, Registered, hub, post, sock
  <2>3. Agree'
    BY <2>1 DEF HubInv, Agree, TopicsAgree, UsersAgree, TasksAgree, TheTopics, Registered,
                Live, hub, sock
  <2>4. NoLiveGap'
    BY <2>1 DEF HubInv, NoLiveGap, Reaches, Occurs, TheTopics, Registered,
                hub, post, sock
  <2> QED BY <2>2, <2>3, <2>4 DEF HubInv
<1>2. CASE Next
  <2>1. ASSUME NEW c \in Comment, CommitComment(c) \/ GiveUp(c) \/ Enqueued(c) \/ Post(c)
        PROVE  HubInv'
    <3>1. \/ CommitComment(c) \/ GiveUp(c) \/ Enqueued(c) \/ CopyTopicSenders(c)
             \/ CopyUserSenders(c) \/ EndPost(c)
          \/ \E s \in Session : SendTo(c, s)
      BY <2>1 DEF Post
    <3> QED BY <3>1, PostStepsKeep, SendToKeeps
  <2>2. ASSUME NEW s \in Session, Close(s)
        PROVE  HubInv'
    <3>1. /\ Typed' /\ UNCHANGED <<post, hub, mailbox, client, since>>
          /\ Live(s) /\ task' = [task EXCEPT ![s] = "closing"]
      BY <2>2, CloseTyped DEF HubInv
    <3>2. task'[s] = "closing"
      BY <3>1 DEF HubInv, Typed, SocketsTyped
    <3> QED BY <3>1, <3>2, QuietKeeps DEF Live
  <2>3. ASSUME NEW s \in Session, NEW t \in Topic, NEW last \in 0 .. LastId, Ask(s, t, last)
        PROVE  HubInv'
    <3>1. /\ Typed' /\ UNCHANGED <<post, hub, mailbox, client, since>>
          /\ task[s] = "idle" /\ task' = [task EXCEPT ![s] = "query"]
      BY <2>3, SocketsAskTyped DEF HubInv
    <3>2. task'[s] = "query"
      BY <3>1 DEF HubInv, Typed, SocketsTyped
    <3> QED BY <3>1, <3>2, QuietKeeps DEF Live
  <2>4. ASSUME NEW s \in Session, ReadMissed(s)
        PROVE  HubInv'
    <3>1. /\ Typed' /\ UNCHANGED <<post, hub, mailbox, client, since>>
          /\ task[s] = "query" /\ task' = [task EXCEPT ![s] = "subscribe"]
      BY <2>4, ReadMissedTyped DEF HubInv
    <3>2. task'[s] = "subscribe"
      BY <3>1 DEF HubInv, Typed, SocketsTyped
    <3> QED BY <3>1, <3>2, QuietKeeps DEF Live
  <2> QED BY <1>2, <2>1, <2>2, <2>3, <2>4, ConnectKeeps, SubscribeKeeps, ForwardKeeps, EndTaskKeeps
          DEF Next, Socket
<1> QED BY <1>1, <1>2

LEMMA HubInvariant == Spec => []HubInv
BY InitHub, StepHub, PTL DEF Spec

\* Whatever connects, subscribes, posts or ends in whatever order, the hub's
\* three maps say the same, and a session is in them exactly from bRegister to
\* the end of its socket's task.
THEOREM HubStaysConsistent == Spec => []HubConsistent
<1>1. HubInv => HubConsistent
  <2> SUFFICES ASSUME HubInv PROVE HubConsistent
    OBVIOUS
  <2>1. TypeOK
    BY DEF HubInv, Typed, SocketsTyped, PostsTyped, MapsTyped, TypeOK
  <2>2. \A s \in Session : task[s] \in {"new", "ended"} => s \notin Registered
    BY DEF HubInv, Agree, TasksAgree, Live
  <2> QED BY <2>1, <2>2 DEF HubInv, Agree, TopicsAgree, UsersAgree, HubConsistent
<1> QED BY <1>1, HubInvariant, PTL

\* Who subscribed before a comment was committed gets it, though the request
\* copies the senders and sends later, and sessions end and lose their queues
\* meanwhile.  A comment committed between the reading of the missed comments
\* and the subscription itself is not covered.
THEOREM NothingLiveIsLost == Spec => []NoLiveGap
<1>1. HubInv => NoLiveGap
  BY DEF HubInv
<1> QED BY <1>1, HubInvariant, PTL
=============================================================================
