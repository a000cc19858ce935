------------------------------ MODULE Telegram ------------------------------
(***************************************************************************)
(* vUpdateTelegram on several nodes: under a session-level advisory lock   *)
(* one hot topic is sent to the channel and then recorded, or else one     *)
(* recorded message whose topic went bad is removed and then forgotten.    *)
(* The channel is outside of the database, so every failure between the    *)
(* two leaves them apart.  A request may be carried out without an answer; *)
(* it is then sent again through the proxy.                                *)
(***************************************************************************)
EXTENDS Integers, FiniteSets

CONSTANTS
    Node, Topic, Nobody,
    MaxMessages,          \* bound: messages ever sent
    MaxFaults             \* bound: failures of requests, statements, nodes

TelegramConstants ==
    /\ Nobody \notin Node \cup Topic
    /\ MaxMessages \in Nat /\ MaxFaults \in Nat

VARIABLES
    topic,     \* "quiet", "hot" (fifteen commenters) or "bad" (deleted, notop...)
    posts,     \* telegram_posts: [topic, id, old]
    channel,   \* ids of the messages readers see
    holder,    \* of the advisory lock
    pc, got,   \* what each node does next; the topic or the row it has read
    sent,      \* history: how often each topic was sent
    forgotten, \* history: how often its row was deleted
    lastId,    \* Telegram's counter of messages
    faults     \* failures so far (bound)

vars == <<topic, posts, channel, holder, pc, got, sent, forgotten, lastId, faults>>

Nothing == [topic |-> Nobody, id |-> 0]

Init ==
    /\ topic = [t \in Topic |-> "quiet"]
    /\ posts = {} /\ channel = {}
    /\ holder = Nobody
    /\ pc = [n \in Node |-> "idle"] /\ got = [n \in Node |-> Nothing]
    /\ sent = [t \in Topic |-> 0] /\ forgotten = [t \in Topic |-> 0]
    /\ lastId = 0 /\ faults = 0

Goto(n, step) == pc' = [pc EXCEPT ![n] = step]
Fault == faults < MaxFaults /\ faults' = faults + 1

\* Mutant: no lock.
LockNothing(n) ==
    /\ pc[n] = "idle"
    /\ Goto(n, "choose")
    /\ UNCHANGED <<topic, posts, channel, holder, got, sent, forgotten, lastId, faults>>

\* pg_try_advisory_lock: a node that does not get it has nothing to do.
Lock(n) ==
    /\ pc[n] = "idle" /\ holder = Nobody
    /\ holder' = n
    /\ Goto(n, "choose")
    /\ UNCHANGED <<topic, posts, channel, got, sent, forgotten, lastId, faults>>

Hot == {t \in Topic : topic[t] = "hot" /\ \A p \in posts : p.topic # t}
ToRemove == {p \in posts : topic[p.topic] = "bad" /\ ~p.old}

Choose(n) ==
    /\ pc[n] = "choose"
    /\ \/ \E t \in Hot : got' = [got EXCEPT ![n] = [topic |-> t, id |-> 0]] /\ Goto(n, "send")
       \/ /\ Hot = {}
          /\ \E p \in ToRemove : /\ got' = [got EXCEPT ![n] = [topic |-> p.topic, id |-> p.id]]
                                 /\ Goto(n, "remove")
       \/ Hot = {} /\ ToRemove = {} /\ Goto(n, "unlock") /\ got' = got
    /\ UNCHANGED <<topic, posts, channel, holder, sent, forgotten, lastId, faults>>

\* Telegram carries out sendMessage.
Delivered(n) ==
    /\ lastId < MaxMessages
    /\ lastId' = lastId + 1
    /\ channel' = channel \cup {lastId + 1}
    /\ sent' = [sent EXCEPT ![got[n].topic] = @ + 1]

\* The direct request, then the proxy: each answers, or is lost before or
\* after Telegram has done its part.
Send(n, at, otherwise) ==
    /\ pc[n] = at
    /\ \/ /\ Delivered(n) /\ Goto(n, "insert") /\ faults' = faults
          /\ got' = [got EXCEPT ![n].id = lastId + 1]
       \/ Delivered(n) /\ Goto(n, otherwise) /\ Fault /\ got' = got
       \/ Goto(n, otherwise) /\ Fault /\ UNCHANGED <<channel, sent, lastId, got>>
    /\ UNCHANGED <<topic, posts, holder, forgotten>>

Insert(n) ==
    /\ pc[n] = "insert"
    /\ \/ /\ posts' = posts \cup {[topic |-> got[n].topic, id |-> got[n].id, old |-> FALSE]}
          /\ faults' = faults
       \/ posts' = posts /\ Fault
    /\ Goto(n, "unlock")
    /\ UNCHANGED <<topic, channel, holder, got, sent, forgotten, lastId>>

\* deleteMessage fails for a message that is no longer there.
Remove(n, at, otherwise) ==
    /\ pc[n] = at
    /\ \/ /\ got[n].id \in channel
          /\ channel' = channel \ {got[n].id} /\ Goto(n, "forget") /\ faults' = faults
       \/ got[n].id \notin channel /\ Goto(n, otherwise) /\ UNCHANGED <<channel, faults>>
       \/ channel' = channel \ {got[n].id} /\ Goto(n, otherwise) /\ Fault
       \/ channel' = channel /\ Goto(n, otherwise) /\ Fault
    /\ UNCHANGED <<topic, posts, holder, got, sent, forgotten, lastId>>

Forget(n) ==
    /\ pc[n] = "forget"
    /\ \/ /\ posts' = {p \in posts : p.id # got[n].id}
          /\ forgotten' = [forgotten EXCEPT ![got[n].topic] = @ + 1]
          /\ faults' = faults
       \/ UNCHANGED <<posts, forgotten>> /\ Fault
    /\ Goto(n, "unlock")
    /\ UNCHANGED <<topic, channel, holder, got, sent, lastId>>

Unlock(n) ==
    /\ pc[n] = "unlock"
    /\ holder' = Nobody
    /\ Goto(n, "idle") /\ got' = [got EXCEPT ![n] = Nothing]
    /\ UNCHANGED <<topic, posts, channel, sent, forgotten, lastId, faults>>

\* The node stops, or its connection breaks; the server drops its lock.
Crash(n) ==
    /\ pc[n] # "idle" /\ Fault
    /\ holder' = IF holder = n THEN Nobody ELSE holder
    /\ Goto(n, "idle") /\ got' = [got EXCEPT ![n] = Nothing]
    /\ UNCHANGED <<topic, posts, channel, sent, forgotten, lastId>>

\* Readers and moderators; a topic is undeleted, and comments get old.
Topics(t) ==
    /\ \E s \in {"quiet", "hot", "bad"} \ {topic[t]} : topic' = [topic EXCEPT ![t] = s]
    /\ UNCHANGED <<posts, channel, holder, pc, got, sent, forgotten, lastId, faults>>

\* 47 hours after its insertion.
Ages(p) ==
    /\ ~p.old
    /\ posts' = (posts \ {p}) \cup {[p EXCEPT !.old = TRUE]}
    /\ UNCHANGED <<topic, channel, holder, pc, got, sent, forgotten, lastId, faults>>

Step(n) ==
    \/ Choose(n) \/ Insert(n) \/ Forget(n) \/ Unlock(n)
    \/ Send(n, "send", "resend") \/ Send(n, "resend", "unlock")
    \/ Remove(n, "remove", "reremove") \/ Remove(n, "reremove", "unlock")

Next ==
    \/ \E n \in Node : Lock(n) \/ Step(n) \/ Crash(n)
    \/ \E t \in Topic : Topics(t)
    \/ \E p \in posts : Ages(p)

\* The five-minute timer runs again and again, and a callback returns.
Fairness == \A n \in Node : WF_vars(Lock(n) \/ Step(n))
Spec == Init /\ [][Next]_vars /\ Fairness

(***************************************************************************)
(* Properties                                                              *)
(***************************************************************************)

\* Every variable keeps its type.
TelegramTypeOK ==
    /\ topic \in [Topic -> {"quiet", "hot", "bad"}]
    /\ posts \subseteq [topic : Topic, id : 1..MaxMessages, old : BOOLEAN]
    /\ channel \subseteq 1..MaxMessages
    /\ holder \in Node \cup {Nobody}
    /\ pc \in [Node -> {"idle", "choose", "send", "resend", "insert", "remove", "reremove",
                        "forget", "unlock"}]
    /\ got \in [Node -> [topic : Topic \cup {Nobody}, id : 0..MaxMessages]]
    /\ lastId \in 0..MaxMessages /\ faults \in 0..MaxFaults

\* A topic is in the channel once, and once more for every time its message was
\* taken down: beyond that, only a failure between Telegram and the row of
\* telegram_posts posts it again, however many nodes run the job.
NoRepost == \A t \in Topic : sent[t] <= 1 + forgotten[t] + faults

\* Every message of the channel is on record, or is about to be: only a failure
\* leaves one that nothing will ever take down.
OnRecord ==
    Cardinality({m \in channel : /\ \A p \in posts : p.id # m
                                 /\ \A n \in Node : got[n].id # m \/ pc[n] # "insert"}) <= faults

\* The channel and telegram_posts tell the same.
ChannelConsistent == TelegramTypeOK /\ NoRepost /\ OnRecord

\* A recorded message of a bad topic is taken down, unless it gets too old or
\* the topic recovers, or hot topics keep the job busy, or a failure has left
\* a row whose message is already gone.
TakenDown ==
    \A t \in Topic :
        (\E p \in posts : p.topic = t /\ ~p.old) /\ topic[t] = "bad"
            ~> \/ \A p \in posts : p.topic = t => p.old
               \/ topic[t] # "bad" \/ Hot # {} \/ faults > 0 \/ lastId = MaxMessages
=============================================================================
