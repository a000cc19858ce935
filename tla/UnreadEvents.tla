---------------------------- MODULE UnreadEvents ----------------------------
(***************************************************************************)
(* The events users are notified of (user_events) and the cached number of *)
(* unread ones (users.unread_events), written by concurrent transactions   *)
(* under READ COMMITTED.  Every comment here belongs to one topic.         *)
(*                                                                         *)
(* The trigger new_event_t raises the cache on every insertion; most       *)
(* transactions end with an UPDATE of users that counts the unread rows in *)
(* a subquery.  The subquery reads the snapshot the statement starts with: *)
(* when the statement then waits for the user's row, it writes over the    *)
(* newer row the number of the older snapshot.                             *)
(***************************************************************************)
EXTENDS Naturals, FiniteSets, Sequences

CONSTANTS
    User, Comment,
    Handler,          \* the database sessions of the request handlers
    Nobody,
    LastEvent,        \* bound: events that are ever inserted
    MaxRequests       \* bound: requests that ever start

\* What the constants have to be.
UnreadConstants ==
    /\ LastEvent \in Nat /\ MaxRequests \in Nat
    /\ Nobody \notin Handler \cup User \cup Comment

Event  == 1 .. LastEvent
States == {"none", "unread", "read"}
Kinds  == {"none", "WATCH", "REACTION", "DEL"}

VARIABLES
    row,       \* the committed state of each event
    cache,     \* the committed users.unread_events
    mine,      \* event and user rows as the holder of their lock wrote them
    lock,      \* who holds the row of each event and of each user
    fact,      \* what an inserted event says: its user, comment and kind
    nextId,    \* the sequence of event ids; no transaction rolls it back
    req,       \* the requests under way
    shown,     \* per user: the events on the page last rendered
    started    \* requests begun

data == <<row, cache>>
vars == <<row, cache, mine, lock, fact, nextId, req, shown, started>>

\* The statements of each request, in order.
Program == [comment |-> <<"insert", "count">>,
            react   |-> <<"insert", "count">>,
            unreact |-> <<"delete", "count">>,
            delete  |-> <<"insert", "affected", "delete", "count">>,
            topic   |-> <<"affected", "delete", "count", "insert">>,
            reset   |-> <<"mark", "count">>,
            click   |-> <<"mark", "count">>]

NoRequest == [what |-> "none", todo |-> <<>>, under |-> FALSE, comment |-> Nobody,
              top |-> 0, notify |-> {}, raise |-> 0, events |-> {}, recount |-> {},
              counted |-> [u \in User |-> 0], alone |-> FALSE]

Init ==
    /\ row = [e \in Event |-> "none"]
    /\ cache = [u \in User |-> 0]
    /\ mine = [event |-> row, user |-> cache]
    /\ lock = [event |-> [e \in Event |-> Nobody], user |-> [u \in User |-> Nobody]]
    /\ fact = [e \in Event |-> [user |-> Nobody, comment |-> Nobody, kind |-> "none"]]
    /\ nextId = 1
    /\ req = [h \in Handler |-> NoRequest]
    /\ shown = [u \in User |-> {}]
    /\ started = 0

-----------------------------------------------------------------------------
(* What a transaction sees, its beginning and its end *)

Idle(h)     == req[h].what = "none"
Sees(h, e)  == IF lock.event[e] = h THEN mine.event[e] ELSE row[e]
At(h, s)    == req[h].todo # <<>> /\ Head(req[h].todo) = s
Finish(h)   == [req EXCEPT ![h].todo = Tail(@), ![h].under = FALSE]
UnreadOf(u, state) == Cardinality({e \in Event : fact[e].user = u /\ state[e] = "unread"})

\* A transaction is alone when no other is open at any time beside it.
Begin(h, request) ==
    /\ Idle(h) /\ started < MaxRequests
    /\ started' = started + 1
    /\ req' = [g \in Handler |->
          IF g = h THEN [request EXCEPT !.todo = Program[request.what],
                                        !.alone = \A x \in Handler : Idle(x)]
          ELSE [req[g] EXCEPT !.alone = FALSE]]
    /\ UNCHANGED <<data, mine, lock, fact, nextId, shown>>

End(h) ==
    /\ lock' = [event |-> [e \in Event |-> IF lock.event[e] = h THEN Nobody ELSE lock.event[e]],
                user |-> [u \in User |-> IF lock.user[u] = h THEN Nobody ELSE lock.user[u]]]
    /\ req' = [req EXCEPT ![h] = NoRequest]
    /\ UNCHANGED <<fact, nextId, shown, started>>

Commit(h) ==
    /\ ~Idle(h) /\ req[h].todo = <<>>
    /\ row' = [e \in Event |-> Sees(h, e)]
    /\ cache' = [u \in User |-> IF lock.user[u] = h THEN mine.user[u] ELSE cache[u]]
    /\ UNCHANGED mine
    /\ End(h)

Undone(h) ==
    [event |-> [e \in Event |-> IF lock.event[e] = h THEN row[e] ELSE mine.event[e]],
     user  |-> [u \in User |-> IF lock.user[u] = h THEN cache[u] ELSE mine.user[u]]]

\* A failed statement, a lost connection, or PostgreSQL breaking a deadlock.
Abort(h) ==
    /\ ~Idle(h)
    /\ mine' = Undone(h)
    /\ UNCHANGED data
    /\ End(h)

-----------------------------------------------------------------------------
(* Requests *)

\* A new comment notifies its parent's author, the watchers, the mentioned.
AddComment(h, c, users) ==
    Begin(h, [NoRequest EXCEPT !.what = "comment", !.comment = c, !.notify = users,
                               !.recount = users])

\* A reaction tells the comment's author; withdrawn, it deletes what is unread.
SetReaction(h, c, u) ==
    Begin(h, [NoRequest EXCEPT !.what = "react", !.comment = c, !.notify = {u}, !.recount = {u}])
WithdrawReaction(h, c, u) ==
    Begin(h, [NoRequest EXCEPT !.what = "unreact", !.comment = c, !.recount = {u}])

\* A deletion tells the author, unless that is who deletes, and takes back what
\* the comment - or the whole topic - had notified.
DeleteComment(h, c, author) ==
    Begin(h, [NoRequest EXCEPT !.what = "delete", !.comment = c, !.notify = author])
DeleteTopic(h, author) ==
    Begin(h, [NoRequest EXCEPT !.what = "topic", !.notify = author])

\* The page of a user's events; its forms carry the last id on it.
Render(u) ==
    /\ LET seen == {e \in Event : fact[e].user = u /\ row[e] # "none"}
       IN  seen # shown[u] /\ shown' = [shown EXCEPT ![u] = seen]
    /\ UNCHANGED <<data, mine, lock, fact, nextId, req, started>>

\* All up to the last id of the page.
ResetUnread(h, u) ==
    \E top \in shown[u] :
        /\ \A e \in shown[u] : e <= top
        /\ Begin(h, [NoRequest EXCEPT !.what = "reset", !.top = top, !.recount = {u}])

\* The topic's WATCH events up to the last of the group that was clicked.
ClickWatch(h, u) ==
    \E top \in shown[u] :
        /\ fact[top].kind = "WATCH" /\ row[top] = "unread"
        /\ \A e \in shown[u] : fact[e].kind = "WATCH" => e <= top
        /\ Begin(h, [NoRequest EXCEPT !.what = "click", !.top = top, !.recount = {u}])

-----------------------------------------------------------------------------
(* Statements *)

KindOf(what) ==
    CASE what = "comment" -> "WATCH" [] what = "react" -> "REACTION" [] OTHER -> "DEL"

\* INSERT INTO user_events, one user at a time ...
InsertEvent(h) ==
    /\ At(h, "insert") /\ req[h].raise = 0
    /\ IF req[h].notify = {}
       THEN req' = Finish(h) /\ UNCHANGED <<mine, lock, fact, nextId>>
       ELSE \E u \in req[h].notify :
            /\ nextId \in Event
            /\ nextId' = nextId + 1
            /\ fact' = [fact EXCEPT ![nextId] = [user |-> u, comment |-> req[h].comment,
                                                 kind |-> KindOf(req[h].what)]]
            /\ lock' = [lock EXCEPT !.event[nextId] = h]
            /\ mine' = [mine EXCEPT !.event[nextId] = "unread"]
            /\ req' = [req EXCEPT ![h].notify = @ \ {u}, ![h].raise = nextId]
    /\ UNCHANGED <<data, shown, started>>

\* ... and its trigger, which waits for the user's row.
UserFree(h, u) == lock.user[u] \in {h, Nobody}
RaiseCache(h) ==
    /\ req[h].raise # 0
    /\ LET u == fact[req[h].raise].user
       IN  /\ UserFree(h, u)
           /\ lock' = [lock EXCEPT !.user[u] = h]
           /\ mine' = [mine EXCEPT !.user[u] = @ + 1]
    /\ req' = [req EXCEPT ![h].raise = 0]
    /\ UNCHANGED <<data, fact, nextId, shown, started>>

\* The rows a DELETE, or an UPDATE to read, selects in its snapshot.
Deletable(h) ==
    LET r == req[h]
        Row(e) == CASE r.what = "topic"  -> Sees(h, e) # "none" /\ fact[e].kind # "DEL"
                    [] r.what = "delete" -> /\ Sees(h, e) # "none" /\ fact[e].kind # "DEL"
                                            /\ fact[e].comment = r.comment
                    [] OTHER -> /\ Sees(h, e) = "unread" /\ fact[e].kind = "REACTION"
                                /\ fact[e].comment = r.comment /\ fact[e].user \in r.recount
    IN  {e \in Event : Row(e)}
Markable(h) ==
    {e \in Event : /\ fact[e].user \in req[h].recount /\ Sees(h, e) = "unread"
                   /\ e <= req[h].top
                   /\ req[h].what = "click" => fact[e].kind = "WATCH"}

\* SELECT DISTINCT userid, a statement before the DELETE with its own snapshot.
SelectAffected(h) ==
    /\ At(h, "affected")
    /\ req' = [Finish(h) EXCEPT ![h].recount = {fact[e].user : e \in Deletable(h)}]
    /\ UNCHANGED <<data, mine, lock, fact, nextId, shown, started>>

StartEvents(h) ==
    /\ At(h, "delete") \/ At(h, "mark")
    /\ ~req[h].under
    /\ req' = [req EXCEPT ![h].under = TRUE,
                 ![h].events = IF At(h, "delete") THEN Deletable(h) ELSE Markable(h)]
    /\ UNCHANGED <<data, mine, lock, fact, nextId, shown, started>>

\* One row of the statement; one that no longer qualifies is passed over.
TouchEvent(h) ==
    /\ At(h, "delete") \/ At(h, "mark")
    /\ \E e \in req[h].events :
         /\ lock.event[e] \in {h, Nobody}
         /\ IF e \in (IF At(h, "delete") THEN Deletable(h) ELSE Markable(h))
            THEN /\ lock' = [lock EXCEPT !.event[e] = h]
                 /\ mine' = [mine EXCEPT !.event[e] =
                               IF At(h, "delete") THEN "none" ELSE "read"]
            ELSE UNCHANGED <<mine, lock>>
         /\ req' = [req EXCEPT ![h].events = @ \ {e}]
    /\ UNCHANGED <<data, fact, nextId, shown, started>>

EndEvents(h) ==
    /\ At(h, "delete") \/ At(h, "mark")
    /\ req[h].under /\ req[h].events = {}
    /\ req' = Finish(h)
    /\ UNCHANGED <<data, mine, lock, fact, nextId, shown, started>>

\* The subquery of the final UPDATE: the statement's snapshot ...
CountSeen(h) == [u \in User |-> UnreadOf(u, [e \in Event |-> Sees(h, e)])]
Count(h) ==
    /\ At(h, "count") /\ ~req[h].under
    /\ req' = [req EXCEPT ![h].under = TRUE, ![h].counted = CountSeen(h)]
    /\ UNCHANGED <<data, mine, lock, fact, nextId, shown, started>>

\* Mutant: the recount adds to the cache instead of replacing it.
CacheRaised(h, u) == mine.user[u] + req[h].counted[u]
CacheWritten(h, u) == req[h].counted[u]
\* ... and its rows, one by one as they come free.
WriteCache(h) ==
    /\ At(h, "count") /\ req[h].under
    /\ IF req[h].recount = {}
       THEN req' = Finish(h) /\ UNCHANGED <<mine, lock>>
       ELSE \E u \in req[h].recount :
            /\ UserFree(h, u)
            /\ lock' = [lock EXCEPT !.user[u] = h]
            /\ mine' = [mine EXCEPT !.user[u] = CacheWritten(h, u)]
            /\ req' = [req EXCEPT ![h].recount = @ \ {u}]
    /\ UNCHANGED <<data, fact, nextId, shown, started>>

-----------------------------------------------------------------------------
Request(h) ==
    \/ \E c \in Comment, users \in SUBSET User : AddComment(h, c, users)
    \/ \E c \in Comment, u \in User : SetReaction(h, c, u) \/ WithdrawReaction(h, c, u)
    \/ \E c \in Comment, author \in {{}} \cup {{u} : u \in User} :
         DeleteComment(h, c, author) \/ DeleteTopic(h, author)
    \/ \E u \in User : ResetUnread(h, u) \/ ClickWatch(h, u)
Statement(h) ==
    \/ InsertEvent(h) \/ RaiseCache(h) \/ SelectAffected(h) \/ StartEvents(h)
    \/ TouchEvent(h) \/ EndEvents(h) \/ Count(h) \/ WriteCache(h) \/ Commit(h)

Next ==
    \/ \E u \in User : Render(u)
    \/ \E h \in Handler : Request(h) \/ Statement(h) \/ Abort(h)

Spec == Init /\ [][Next]_vars

-----------------------------------------------------------------------------
(* Properties *)

\* The type invariant: rows, locks and requests are what they are declared to
\* be, and a row nobody holds is as committed.
UnreadTypeOK ==
    /\ row \in [Event -> States] /\ cache \in [User -> Nat]
    /\ mine.event \in [Event -> States] /\ mine.user \in [User -> Nat]
    /\ lock.event \in [Event -> Handler \cup {Nobody}]
    /\ lock.user \in [User -> Handler \cup {Nobody}]
    /\ \A e \in Event : fact[e].kind \in Kinds /\ fact[e].user \in User \cup {Nobody}
    /\ nextId \in 1 .. LastEvent + 1 /\ started \in 0 .. MaxRequests
    /\ \A h \in Handler : req[h].events \subseteq Event /\ req[h].recount \subseteq User
    /\ \A e \in Event : lock.event[e] = Nobody => mine.event[e] = row[e]
    /\ \A u \in User : lock.user[u] = Nobody => mine.user[u] = cache[u]

\* A transaction that no other overlaps, whatever it does and however often
\* others failed before it, takes an exact cache to an exact cache, for every
\* user: the trigger and its own recounts come to the same number.
KeepsExact ==
    \A h \in Handler, u \in User :
        Commit(h) /\ req[h].alone /\ cache[u] = UnreadOf(u, row)
        => cache'[u] = Cardinality({e \in Event : fact[e].user = u /\ row'[e] = "unread"})

\* Drift is repaired by the next quiet recount: a comment, a reaction or a
\* marking that committed with no other transaction beside it leaves the cache
\* of every user it recounted exact, whatever was wrong with it before.
RecountsExactly ==
    \A h \in Handler, u \in User :
        /\ Commit(h) /\ req[h].alone /\ lock.user[u] = h
        /\ req[h].what \in {"comment", "react", "unreact", "reset", "click"}
        => cache'[u] = Cardinality({e \in Event : fact[e].user = u /\ row'[e] = "unread"})

\* What the click handler says of a group of events: "a newer concurrent event
\* for the same topic must remain unread" - one the rendered page did not have.
UnseenStaysUnread ==
    [][\A h \in Handler, e \in Event :
         /\ Commit(h) /\ req[h].what = "click"
         /\ row[e] = "unread" /\ row'[e] = "read"
         => e \in shown[fact[e].user]]_vars
=============================================================================
