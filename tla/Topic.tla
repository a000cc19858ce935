------------------------------- MODULE Topic -------------------------------
(***************************************************************************)
(* The rows of one topic and the requests that change them side by side:   *)
(* edits with publication and confirmation, deletions, restorations, moves *)
(* and cancelled confirmations.  A request checks what it reads and then   *)
(* runs a READ COMMITTED transaction; a step of it is a statement that may *)
(* wait for a row, with those after it that cannot.                        *)
(*                                                                         *)
(* A text is the set of the requests whose contributions it holds.  The    *)
(* topic is young: no limit of time has passed.                            *)
(***************************************************************************)
EXTENDS Integers, FiniteSetsExt

CONSTANTS
    Req,                \* the requests
    User, Author, Moderator, Corrector,
    Group, FirstGroup,
    SectionOf,          \* groups.section
    Premoderated,       \* sections.moderate
    LinksAllowed,       \* the groups of the sections with links
    Penalty, Award,     \* penalties of a deletion, bonus of a confirmation
    Nobody, NoInfo      \* nobody has the row locked; there is no row

ASSUME ConstantAssumption ==
    /\ Author \in User /\ Moderator \subseteq User /\ Corrector \subseteq User
    /\ FirstGroup \in Group /\ LinksAllowed \subseteq Group
    /\ Penalty \subseteq Nat /\ Award \in Nat
    /\ Nobody \notin Req /\ NoInfo \notin Int

VARIABLES
    db,      \* the committed rows
    new,     \* the rows as the holders of their locks see them
    lock,    \* who has each row locked
    edits,   \* the topic's rows of edit_info, committed
    nextId,  \* edit_info_id_seq
    pc,      \* the statement each request has come to
    form,    \* the edit form open in its user's browser
    cmd,     \* its StTopicEditCommand
    cur,     \* the row its transaction read first
    row,     \* its uncommitted row of edit_info
    bonus,   \* the change of score it makes or takes back
    target   \* the group it moves the topic to

vars == <<db, new, lock, edits, nextId, pc, form, cmd, cur, row, bonus, target>>
local == <<form, cmd, cur, row, bonus, target>>

Row == {"topics", "msgbase", "del_info", "author"}
RowOf(f) == CASE f = "message" -> "msgbase"
              [] f = "info" -> "del_info"
              [] f \in {"score", "awarded"} -> "author"
              [] OTHER -> "topics"

NoForm == [by |-> Nobody, token |-> 0, message |-> {}, title |-> {}, shown |-> {}, told |-> FALSE]
NoCmd  == [message |-> {}, title |-> {}, commit |-> FALSE, publish |-> FALSE,
           group |-> FirstGroup, seen |-> {}, shown |-> {}]
NoCur  == [message |-> {}, title |-> {}, group |-> FirstGroup, draft |-> FALSE]
NoRow  == [id |-> 0, old |-> {}]

\* A draft or a topic just published; "published" and "awarded" count what the
\* statements that publish and confirm have done.
Init ==
    /\ \E d \in BOOLEAN :
         db = [deleted |-> FALSE, draft |-> d, published |-> IF d THEN 0 ELSE 1,
               moderate |-> FALSE, group |-> FirstGroup, title |-> {},
               message |-> {}, info |-> NoInfo, score |-> 0, awarded |-> 0]
    /\ new = db
    /\ lock = [x \in Row |-> Nobody]
    /\ edits = {} /\ nextId = 1
    /\ pc = [r \in Req |-> "idle"]
    /\ form = [r \in Req |-> NoForm] /\ cmd = [r \in Req |-> NoCmd]
    /\ cur = [r \in Req |-> NoCur] /\ row = [r \in Req |-> NoRow]
    /\ bonus = [r \in Req |-> 0] /\ target = [r \in Req |-> FirstGroup]

-----------------------------------------------------------------------------
(* Transactions *)

Free(r, x)  == lock[x] \in {Nobody, r}
Take(r, x)  == Free(r, x) /\ lock' = [lock EXCEPT ![x] = r]
Go(r, s)    == pc' = [pc EXCEPT ![r] = s]
Mine(r, f)  == lock[RowOf(f)] = r

Unlocked(r) == [x \in Row |-> IF lock[x] = r THEN Nobody ELSE lock[x]]

\* The transaction is over: its rows are free, the request keeps nothing.
End(r) ==
    /\ Go(r, "done")
    /\ lock' = Unlocked(r)
    /\ form' = [form EXCEPT ![r] = NoForm] /\ cmd' = [cmd EXCEPT ![r] = NoCmd]
    /\ cur' = [cur EXCEPT ![r] = NoCur] /\ row' = [row EXCEPT ![r] = NoRow]
    /\ bonus' = [bonus EXCEPT ![r] = 0] /\ target' = [target EXCEPT ![r] = FirstGroup]
    /\ UNCHANGED nextId

Commit(r) ==
    /\ pc[r] = "commit"
    /\ db' = [f \in DOMAIN db |-> IF Mine(r, f) THEN new[f] ELSE db[f]]
    /\ edits' = edits \cup ({row[r]} \ {NoRow})
    /\ UNCHANGED new
    /\ End(r)

Abort(r) ==
    /\ new' = [f \in DOMAIN db |-> IF Mine(r, f) THEN db[f] ELSE new[f]]
    /\ UNCHANGED <<db, edits>>
    /\ End(r)

-----------------------------------------------------------------------------
(* Edit, publish, confirm *)

Premod(g) == SectionOf[g] \in Premoderated

\* stCheckContentEdit; there is no section of articles.
MayEdit(u) ==
    /\ ~db.deleted
    /\ \/ u \in Moderator
       \/ u \in Corrector /\ Premod(db.group)
       \/ u = Author /\ (db.draft \/ ~(db.moderate /\ Premod(db.group)))

\* bCommittable and stCheckCommit
MayConfirm(u) ==
    /\ ~db.moderate /\ Premod(db.group) /\ ~db.deleted
    /\ u \in Moderator \cup Corrector /\ ~(u \in Corrector /\ u = Author)

\* editdate of the row with the greatest id; no two edits begin in the same
\* millisecond.
LastEdit == IF edits = {} THEN 0 ELSE Max({e.id : e \in edits})

\* optSnapshot reads the topic first and, by another statement, the last edit.
OpenForm(r, u) ==
    /\ pc[r] = "idle" /\ MayEdit(u)
    /\ form' = [form EXCEPT ![r] = [by |-> u, token |-> 0, message |-> db.message,
                                    title |-> db.title, shown |-> db.message, told |-> FALSE]]
    /\ Go(r, "open")
    /\ UNCHANGED <<db, new, lock, edits, nextId, cmd, cur, row, bonus, target>>

ReadToken(r) ==
    /\ pc[r] = "open"
    /\ form' = [form EXCEPT ![r].token = LastEdit]
    /\ Go(r, "form")
    /\ UNCHANGED <<db, new, lock, edits, nextId, cmd, cur, row, bonus, target>>

Stale(r) == LastEdit # 0 /\ LastEdit # form[r].token

\* The form comes back with the error that the topic was edited independently,
\* with the page as it is now and its token; a user told twice gives up.
Warn(r) ==
    /\ pc[r] = "form" /\ MayEdit(form[r].by) /\ Stale(r) /\ ~form[r].told
    /\ form' = [form EXCEPT ![r].token = LastEdit, ![r].told = TRUE,
                            ![r].shown = @ \cup db.message]
    /\ UNCHANGED <<db, new, lock, edits, nextId, pc, cmd, cur, row, bonus, target>>

Refuse(r) ==
    /\ pc[r] = "form"
    /\ ~MayEdit(form[r].by) \/ (Stale(r) /\ form[r].told)
    /\ Abort(r)

\* The fields of the form, with what the user has added to some of them.
Submit(r, added, commit, publish, g) ==
    /\ pc[r] = "form" /\ MayEdit(form[r].by) /\ ~Stale(r)
    /\ commit => MayConfirm(form[r].by)
    /\ IF commit THEN SectionOf[g] = SectionOf[db.group] ELSE g = db.group
    /\ publish => db.draft
    /\ cmd' = [cmd EXCEPT ![r] =
          [message |-> form[r].message \cup (IF "message" \in added THEN {r} ELSE {}),
           title   |-> form[r].title \cup (IF "title" \in added THEN {r} ELSE {}),
           commit  |-> commit, publish |-> publish, group |-> g,
           seen |-> db.message, shown |-> form[r].shown]]
    /\ form' = [form EXCEPT ![r] = NoForm]
    /\ Go(r, "read")
    /\ UNCHANGED <<db, new, lock, edits, nextId, cur, row, bonus, target>>

NewMessage(r) == cmd[r].message # cur[r].message
NewTitle(r)   == cmd[r].title # cur[r].title

\* stLoadCurrent
ReadCurrent(r) ==
    /\ pc[r] = "read"
    /\ cur' = [cur EXCEPT ![r] = [message |-> db.message, title |-> db.title,
                                  group |-> db.group, draft |-> db.draft]]
    /\ Go(r, IF cmd[r].message # db.message THEN "message" ELSE "topic")
    /\ UNCHANGED <<db, new, lock, edits, nextId, form, cmd, row, bonus, target>>

\* Mutant: the history gets the text the form was checked against.
TextChecked(r) == cmd[r].seen
\* oldmessage; no value when the message is not modified.
OldText(r) == IF NewMessage(r) THEN cur[r].message ELSE {}

Record(r) ==
    /\ row' = [row EXCEPT ![r] = [id |-> nextId, old |-> OldText(r)]]
    /\ nextId' = nextId + 1

WriteMessage(r) ==
    /\ pc[r] = "message" /\ Take(r, "msgbase")
    /\ new' = [new EXCEPT !.message = cmd[r].message]
    /\ IF NewTitle(r) THEN UNCHANGED <<row, nextId>> ELSE Record(r)
    /\ Go(r, "topic")
    /\ UNCHANGED <<db, edits, form, cmd, cur, bonus, target>>

\* UPDATE ... SET draft=false ... WHERE id=$1 AND draft
Published(t) == IF t.draft THEN [t EXCEPT !.draft = FALSE, !.published = @ + 1] ELSE t

\* Mutant: the section was compared when the form was checked.
GroupFits(r) == TRUE
\* EXISTS(... old_group.section=new_group.section)
SameSection(r) == SectionOf[cmd[r].group] = SectionOf[new.group]

Confirmed(r, t) ==
    LET moved == IF cmd[r].group # cur[r].group THEN [t EXCEPT !.group = cmd[r].group] ELSE t
        out   == IF cur[r].draft THEN Published(moved) ELSE moved
    IN  [out EXCEPT !.moderate = TRUE]

\* Title, history, lastmod, publication and confirmation: all but the history
\* are updates of the same row.
WriteTopic(r) ==
    LET titled == IF NewTitle(r) THEN [new EXCEPT !.title = cmd[r].title] ELSE new
        public == IF cmd[r].publish THEN Published(titled) ELSE titled
        fits   == cmd[r].commit /\ cmd[r].group # cur[r].group => SameSection(r)
    IN
    /\ pc[r] = "topic"
    /\ NewMessage(r) \/ NewTitle(r) \/ cmd[r].publish \/ cmd[r].commit
    /\ Free(r, "topics")
    /\ IF ~fits THEN Abort(r)
       ELSE /\ Take(r, "topics")
            /\ new' = IF cmd[r].commit THEN Confirmed(r, public) ELSE public
            /\ IF NewTitle(r) THEN Record(r) ELSE UNCHANGED <<row, nextId>>
            /\ Go(r, IF cmd[r].commit THEN "reward" ELSE "commit")
            /\ UNCHANGED <<db, edits, form, cmd, cur, bonus, target>>

\* A form that changes nothing.
NoChange(r) ==
    /\ pc[r] = "topic"
    /\ ~(NewMessage(r) \/ NewTitle(r) \/ cmd[r].publish \/ cmd[r].commit)
    /\ Abort(r)

\* vChangeScoreTx; the bonuses of the editors are other rows.
Reward(r) ==
    /\ pc[r] = "reward" /\ Take(r, "author")
    /\ new' = [new EXCEPT !.score = @ + Award, !.awarded = @ + Award]
    /\ Go(r, "commit")
    /\ UNCHANGED <<db, edits, nextId, local>>

Edit(r) ==
    \/ \E u \in User : OpenForm(r, u)
    \/ \E added \in SUBSET {"message", "title"}, commit, publish \in BOOLEAN, g \in Group :
         Submit(r, added, commit, publish, g)
    \/ ReadToken(r) \/ Warn(r) \/ Refuse(r)
    \/ ReadCurrent(r) \/ WriteMessage(r) \/ WriteTopic(r) \/ NoChange(r) \/ Reward(r)

-----------------------------------------------------------------------------
(* Delete and restore *)

\* optDeleteRestriction
MayDelete(u) ==
    /\ ~db.deleted
    /\ \/ u \in Moderator
       \/ u = Author /\ (db.draft \/ ~(db.moderate /\ Premod(db.group)))

\* No penalty for a draft, for oneself, or for an author found frozen.
StartDelete(r, u, p) ==
    /\ pc[r] = "idle" /\ MayDelete(u)
    /\ p # 0 => u \in Moderator /\ u # Author /\ ~db.draft
    /\ bonus' = [bonus EXCEPT ![r] = -p]
    /\ Go(r, "delete")
    /\ UNCHANGED <<db, new, lock, edits, nextId, form, cmd, cur, row, target>>

DeleteTopic(r) ==
    /\ pc[r] = "delete" /\ Free(r, "topics")
    /\ IF new.deleted THEN Abort(r)
       ELSE /\ Take(r, "topics")
            /\ new' = [new EXCEPT !.deleted = TRUE]
            /\ Go(r, IF bonus[r] = 0 THEN "insert" ELSE "penalize")
            /\ UNCHANGED <<db, edits, nextId, local>>

Penalize(r) ==
    /\ pc[r] = "penalize" /\ Take(r, "author")
    /\ new' = [new EXCEPT !.score = @ + bonus[r]]
    /\ Go(r, "insert")
    /\ UNCHANGED <<db, edits, nextId, local>>

\* A plain INSERT: a row left behind would fail the deletion.
InsertInfo(r) ==
    /\ pc[r] = "insert" /\ Free(r, "del_info")
    /\ IF new.info # NoInfo THEN Abort(r)
       ELSE /\ Take(r, "del_info")
            /\ new' = [new EXCEPT !.info = bonus[r]]
            /\ Go(r, "commit")
            /\ UNCHANGED <<db, edits, nextId, local>>

\* optUndeleteRestriction
StartUndelete(r, u) ==
    /\ pc[r] = "idle" /\ db.deleted /\ u \in Moderator
    /\ Go(r, "undelete")
    /\ UNCHANGED <<db, new, lock, edits, nextId, local>>

\* FOR UPDATE; a row that is not there is not waited for.
LockInfo(r) == IF db.info = NoInfo THEN UNCHANGED lock ELSE Take(r, "del_info")

ReadBonus(r) ==
    /\ pc[r] = "undelete" /\ LockInfo(r)
    /\ bonus' = [bonus EXCEPT ![r] = IF db.info = NoInfo THEN 0 ELSE db.info]
    /\ Go(r, IF bonus'[r] = 0 THEN "restore" ELSE "refund")
    /\ UNCHANGED <<db, new, edits, nextId, form, cmd, cur, row, target>>

Refund(r) ==
    /\ pc[r] = "refund" /\ Take(r, "author")
    /\ new' = [new EXCEPT !.score = @ - bonus[r]]
    /\ Go(r, "restore")
    /\ UNCHANGED <<db, edits, nextId, local>>

Restore(r) ==
    /\ pc[r] = "restore" /\ Take(r, "topics")
    /\ new' = [new EXCEPT !.deleted = FALSE]
    /\ Go(r, "remove")
    /\ UNCHANGED <<db, edits, nextId, local>>

\* Mutant: only the row whose bonus was read is deleted.
InfoKept(r) == bonus[r] = 0
\* DELETE FROM del_info WHERE msgid=$1
NoRowLeft(r) == db.info = NoInfo

RemoveInfo(r) ==
    /\ pc[r] = "remove"
    /\ IF NoRowLeft(r) THEN UNCHANGED <<lock, new>>
       ELSE Take(r, "del_info") /\ new' = [new EXCEPT !.info = NoInfo]
    /\ Go(r, "commit")
    /\ UNCHANGED <<db, edits, nextId, local>>

Deletion(r) ==
    \/ \E u \in User, p \in Penalty \cup {0} : StartDelete(r, u, p)
    \/ DeleteTopic(r) \/ Penalize(r) \/ InsertInfo(r)
    \/ \E u \in User : StartUndelete(r, u)
    \/ ReadBonus(r) \/ Refund(r) \/ Restore(r) \/ RemoveInfo(r)

-----------------------------------------------------------------------------
(* Move, cancel the confirmation *)

\* optMoveRestriction; the topic was not in that group.
StartMove(r, g) ==
    /\ pc[r] = "idle" /\ ~db.deleted /\ g # db.group
    /\ target' = [target EXCEPT ![r] = g]
    /\ Go(r, "move")
    /\ UNCHANGED <<db, new, lock, edits, nextId, form, cmd, cur, row, bonus>>

\* The group is compared again under the lock, what follows is not.
MoveTopic(r) ==
    /\ pc[r] = "move" /\ Take(r, "topics")
    /\ new' = [new EXCEPT !.group = target[r]]
    /\ Go(r, IF target[r] \in LinksAllowed THEN "commit" ELSE "append")
    /\ UNCHANGED <<db, edits, nextId, local>>

\* The link goes into the text.
AppendInfo(r) ==
    /\ pc[r] = "append" /\ Take(r, "msgbase")
    /\ new' = [new EXCEPT !.message = @ \cup {r}]
    /\ Go(r, "commit")
    /\ UNCHANGED <<db, edits, nextId, local>>

\* optUncommitRestriction
StartUncommit(r) ==
    /\ pc[r] = "idle" /\ ~db.deleted /\ db.moderate
    /\ Go(r, "uncommit")
    /\ UNCHANGED <<db, new, lock, edits, nextId, local>>

Uncommit(r) ==
    /\ pc[r] = "uncommit" /\ Take(r, "topics")
    /\ new' = [new EXCEPT !.moderate = FALSE]
    /\ Go(r, "commit")
    /\ UNCHANGED <<db, edits, nextId, local>>

Moderation(r) ==
    \/ \E g \in Group : StartMove(r, g)
    \/ MoveTopic(r) \/ AppendInfo(r) \/ StartUncommit(r) \/ Uncommit(r)

-----------------------------------------------------------------------------

Statement == {"read", "message", "topic", "reward", "delete", "penalize", "insert",
              "undelete", "refund", "restore", "remove", "move", "append", "uncommit", "commit"}

\* A statement fails, the connection is lost, or PostgreSQL ends the transaction
\* to break a deadlock.
Fail(r) == pc[r] \in Statement /\ Abort(r)

Next == \E r \in Req : Edit(r) \/ Deletion(r) \/ Moderation(r) \/ Commit(r) \/ Fail(r)
Spec == Init /\ [][Next]_vars

\* All that happens to a topic that is only edited.
Edits == \E r \in Req : Edit(r) \/ Commit(r)

-----------------------------------------------------------------------------
(* Properties *)

\* The type invariant; an unlocked row has no uncommitted version.
TypeOK ==
    /\ DOMAIN db = DOMAIN new /\ db.group \in Group /\ new.group \in Group
    /\ db.message \subseteq Req /\ new.message \subseteq Req
    /\ db.info \in Int \cup {NoInfo} /\ db.score \in Int
    /\ lock \in [Row -> Req \cup {Nobody}]
    /\ \A f \in DOMAIN db : lock[RowOf(f)] = Nobody => new[f] = db[f]
    /\ \A x \in Row : lock[x] # Nobody => pc[lock[x]] \in Statement
    /\ \A e \in edits : e.id \in 1..(nextId - 1) /\ e.old \subseteq Req

\* A topic is deleted exactly when del_info says by whom: otherwise its page
\* fails, or the plain INSERT of its next deletion does.
DeletedIffInfo == db.deleted <=> db.info # NoInfo

\* However deletions and restorations overlap, the author never gets back more
\* than was taken, and a deleted topic's penalty is paid.
NeverOverpaid ==
    db.score - db.awarded <= IF db.deleted THEN db.info ELSE 0

\* A draft is published once, also when an author's publication and a
\* moderator's confirmation of it meet; postdate is what its age is counted from.
PublishedOnce == db.published <= 1

\* The row and its del_info agree, the author is not overpaid, and the topic is
\* published once.
TopicConsistent == TypeOK /\ DeletedIffInfo /\ NeverOverpaid /\ PublishedOnce

\* A confirmation with a change of group leaves the topic in its section, also
\* when the topic was moved to another one meanwhile.
ConfirmStaysInSection ==
    [][\A r \in Req : pc[r] = "commit" /\ pc'[r] = "done" /\ cmd[r].commit
         => SectionOf[db'.group] = SectionOf[db.group]]_vars

\* What an edit removes from the text is in the history it leaves, unless it was
\* put there after the edit's transaction had read the text.
RemovedIsRecorded ==
    [][\A r \in Req : pc[r] = "commit" /\ pc'[r] = "done"
         => (db.message \ db'.message) \cap cur[r].message
              \subseteq UNION {e.old : e \in edits'}]_vars

\* "The message was edited independently": an edit removes no text that was there
\* when its form was checked and that its user has not been shown.
NoSilentOverwrite ==
    [][\A r \in Req : pc[r] = "commit" /\ pc'[r] = "done"
         => (db.message \ db'.message) \cap cmd[r].seen \subseteq cmd[r].shown]_vars
=============================================================================
