-------------------------------- MODULE Tags --------------------------------
(***************************************************************************)
(* Tags: topics are posted and edited with them while moderators rename,   *)
(* merge and delete them, statement by statement, the hourly job counts    *)
(* them anew, and the search index is told which topics to read again.     *)
(***************************************************************************)
EXTENDS Integers, FiniteSets, Functions

CONSTANTS
    Topic, First,       \* topics, and the one that is there already
    Name, Free,         \* names, and the one that is no tag yet
    Req, NoName,
    MaxIds, MaxRequests \* bounds: ids drawn from tags_values_id_seq; requests

VARIABLES
    value, counter,     \* tags_values; NoName: there is no row
    synonym,            \* tags_synonyms: the id of each name, or 0
    rows,               \* tags
    posted, drawn,
    jobs, indexed,      \* topics queued, and the names in their documents
    req, asked,
    stale,              \* history: topics whose document a failure or an overtaken job left
    short,              \* history: ids counted before other rows of theirs were committed
    unseen,             \* history: rows that the last hourly count left out
    twins               \* history: names that got a tag, or a synonym, while they had the other

vars == <<value, counter, synonym, rows, posted, drawn, jobs, indexed, req, asked,
          stale, short, unseen, twins>>
hist == <<stale, short, unseen, twins>>
index == <<jobs, indexed>>
db == <<value, counter, synonym, rows, posted>>

\* There are names enough for the tags that are there at first, and ids for them.
TagConstants ==
    /\ IsFiniteSet(Topic) /\ First \in Topic
    /\ IsFiniteSet(Name) /\ Free \in Name /\ NoName \notin Name
    /\ MaxIds \in Nat /\ MaxRequests \in Nat /\ Cardinality(Name) - 1 \in 2..MaxIds

Id == 1..MaxIds
Idle == [pc |-> "idle", topic |-> First, chosen |-> {}, had |-> {}, old |-> 0, target |-> 0,
         name |-> NoName, syn |-> FALSE, new |-> {}, add |-> {}, del |-> {}, ins |-> {},
         rem |-> {}, hold |-> {}, weak |-> {}, n |-> [i \in Id |-> 0], hidden |-> {},
         affected |-> {}, late |-> {}, missed |-> FALSE]

Exists(i) == value[i] # NoName
IdsOf(t) == {i \in Id : <<t, i>> \in rows}
With(i) == {t \in Topic : <<t, i>> \in rows}
NamesOf(t) == {value[i] : i \in IdsOf(t)}
Canonical(n) == {i \in Id : value[i] = n}
ByName(n) == IF synonym[n] = 0 THEN {} ELSE {synonym[n]}

Init ==
    LET names == CHOOSE f \in [1..Cardinality(Name)-1 -> Name \ {Free}] : IsInjective(f) IN
    /\ value = [i \in Id |-> IF i \in DOMAIN names THEN names[i] ELSE NoName]
    /\ drawn = Cardinality(Name) - 1
    /\ \E s \in {0, 2} : synonym = [n \in Name |-> IF n = Free THEN s ELSE 0]
    /\ \E ids \in {{1}, {1, 2}} : rows = {First} \X ids
    /\ counter = [i \in Id |-> Cardinality(With(i))]
    /\ posted = {First} /\ jobs = {}
    /\ indexed = [t \in Topic |-> NamesOf(t)]
    /\ req = [r \in Req |-> Idle] /\ asked = 0
    /\ stale = {} /\ short = {} /\ unseen = {} /\ twins = {}

(***************************************************************************)
(* Locks                                                                   *)
(***************************************************************************)
Others(r) == Req \ {r}

\* A foreign key holds the row of the tag against a deletion or a new name.
Shares(q, i) == \E t \in Topic : <<t, i>> \in req[q].ins
Keyed(r, i) == \E q \in Others(r) : i \in req[q].hold
Written(r, i) == \E q \in Others(r) : i \in req[q].hold \cup req[q].weak
Locked(r, i) == \E q \in Others(r) : i \in req[q].hold \cup req[q].weak \/ Shares(q, i)
RowHeld(r, x) == \E q \in Others(r) : x \in req[q].ins \cup req[q].rem

\* The unique index on the name.
NameHeld(r, n) == \E q \in Others(r) : (\E i \in Id : <<i, n>> \in req[q].new) \/
                                       (req[q].pc \in {"tell", "renamed"} /\ req[q].name = n)

\* The row of a synonym whose deletion by a rename is not committed.
Clears(q, n) == req[q].pc \in {"cleared", "tell", "renamed"} /\ req[q].name = n /\ req[q].syn
SynonymHeld(r, n) == \E q \in Others(r) : Clears(q, n)

Set(r, rec) == req' = [req EXCEPT ![r] = rec]
Done(r) == Set(r, Idle)

Ask(r) == req[r].pc = "idle" /\ asked < MaxRequests /\ asked' = asked + 1

\* The requests that are under way note which tags got and lost rows.
Commits(r, rec) ==
    LET now == ({"got"} \X {x[2] : x \in req[r].ins}) \cup ({"lost"} \X {x[2] : x \in req[r].rem}) IN
    req' = [q \in Req |-> IF q = r THEN rec
                          ELSE IF req[q].pc = "idle" THEN Idle
                          ELSE [req[q] EXCEPT !.late = @ \cup now]]

Abort(r) ==
    /\ req[r].pc \notin {"idle", "queue", "reindex"} /\ Done(r)
    /\ UNCHANGED <<db, drawn, index, asked, hist>>

\* The rows of a transaction that commits; a row of a new tag has no counter yet.
Rows(r) == (rows \ req[r].rem) \cup req[r].ins
Values(r) == [i \in Id |-> IF \E n \in Name : <<i, n>> \in req[r].new
                           THEN CHOOSE n \in Name : <<i, n>> \in req[r].new ELSE value[i]]

\* Ids of names, drawn for those that have none.
Resolved(ids, names) == UNION {ids[n] : n \in names}
Missing(ids, names) == {n \in names : ids[n] = {}}
Drawn(names) == {f \in [names -> drawn+1..drawn+Cardinality(names)] : IsInjective(f)}

(***************************************************************************)
(* vReplaceTagsTx, of an edit that changes the tags: edits of one topic    *)
(* may overlap, and none takes all the tags away                           *)
(***************************************************************************)
EditRead(r, t, chosen) ==
    /\ Ask(r) /\ t \in posted /\ chosen \notin {{}, NamesOf(t)}
    /\ Set(r, [Idle EXCEPT !.pc = "resolve", !.topic = t, !.chosen = chosen, !.had = NamesOf(t)])
    /\ UNCHANGED <<db, drawn, index, hist>>

\* iGetOrCreateTagTx: a tag before a synonym.
GetOrCreate(n) == IF Canonical(n) # {} THEN Canonical(n) ELSE ByName(n)

\* The names to delete are looked up again, and made when they are no more.
EditResolve(r) ==
    LET ids == [n \in Name |-> GetOrCreate(n)]
        add == req[r].chosen \ req[r].had
        del == req[r].had \ req[r].chosen
        none == Missing(ids, add \cup del) IN
    /\ req[r].pc = "resolve"
    /\ drawn + Cardinality(none) <= MaxIds /\ \A n \in none : ~NameHeld(r, n)
    /\ \E f \in Drawn(none) :
        Set(r, [req[r] EXCEPT !.pc = "lock", !.new = {<<f[n], n>> : n \in none},
                !.add = Resolved(ids, add) \cup {f[n] : n \in none \cap add},
                !.del = Resolved(ids, del) \cup {f[n] : n \in none \cap del}])
    /\ drawn' = drawn + Cardinality(none)
    /\ UNCHANGED <<db, index, asked, hist>>

\* SELECT ... FOR UPDATE.
EditLock(r) ==
    LET ids == req[r].add \cup req[r].del IN
    /\ req[r].pc = "lock" /\ \A i \in ids : ~Locked(r, i)
    /\ Set(r, [req[r] EXCEPT !.pc = "edit", !.hold = ids])
    /\ UNCHANGED <<db, drawn, index, asked, hist>>

\* A tag that is no more fails the foreign key.
EditWrite(r) ==
    LET t == req[r].topic
        there(i) == Exists(i) \/ \E n \in Name : <<i, n>> \in req[r].new IN
    /\ req[r].pc = "edit"
    /\ \A i \in req[r].add \cup req[r].del : ~RowHeld(r, <<t, i>>)
    /\ \A i \in req[r].add : there(i)
    /\ Set(r, [req[r] EXCEPT !.pc = "edited", !.ins = ({t} \X req[r].add) \ rows,
                             !.rem = ({t} \X req[r].del) \cap rows])
    /\ UNCHANGED <<db, drawn, index, asked, hist>>

\* rows_affected() > 0: deleted rows do not lower the counter.
Raised(r) == {i \in Id : <<req[r].topic, i>> \in req[r].ins}

EditCommit(r) ==
    /\ req[r].pc = "edited"
    /\ rows' = Rows(r) /\ value' = Values(r)
    /\ counter' = [i \in Id |-> IF i \in Raised(r) THEN counter[i] + 1 ELSE counter[i]]
    /\ unseen' = unseen \cap rows'
    /\ Commits(r, [Idle EXCEPT !.pc = "queue", !.affected = {req[r].topic}])
    /\ UNCHANGED <<synonym, posted, drawn, index, asked, stale, short, twins>>

(***************************************************************************)
(* vReplaceTags, of a topic that is posted                                 *)
(***************************************************************************)

\* A synonym before a tag.
PostId(n) == IF synonym[n] # 0 THEN ByName(n) ELSE Canonical(n)

Post(r, t, chosen) ==
    LET ids == [n \in Name |-> PostId(n)]
        none == Missing(ids, chosen) IN
    /\ Ask(r) /\ t \notin posted /\ chosen # {} /\ \A q \in Others(r) : req[q].topic # t
    /\ drawn + Cardinality(none) <= MaxIds /\ \A n \in none : ~NameHeld(r, n)
    /\ \E f \in Drawn(none) :
        Set(r, [Idle EXCEPT !.pc = "insert", !.topic = t, !.chosen = chosen,
                            !.new = {<<f[n], n>> : n \in none},
                            !.add = Resolved(ids, chosen) \cup {f[n] : n \in none}])
    /\ drawn' = drawn + Cardinality(none)
    /\ UNCHANGED <<db, index, hist>>

PostInsert(r) ==
    LET there(i) == Exists(i) \/ \E n \in Name : <<i, n>> \in req[r].new IN
    /\ req[r].pc = "insert"
    /\ \A i \in req[r].add : ~Keyed(r, i) /\ there(i)
    /\ Set(r, [req[r] EXCEPT !.pc = "count", !.ins = {req[r].topic} \X req[r].add])
    /\ UNCHANGED <<db, drawn, index, asked, hist>>

\* Mutant: the count leaves out the topic that is posted.
CountOthers(r, i) == Cardinality(With(i))

\* The statement's snapshot: what is committed, and its own row.
CountOf(r, i) == Cardinality({x \in rows \cup req[r].ins : x[2] = i})

PostCount(r) ==
    /\ req[r].pc = "count"
    /\ Set(r, [req[r] EXCEPT !.pc = "post", !.n = [i \in Id |-> CountOf(r, i)]])
    /\ UNCHANGED <<db, drawn, index, asked, hist>>

PostCommit(r) ==
    /\ req[r].pc = "post" /\ \A i \in req[r].add : ~Written(r, i)
    /\ rows' = Rows(r) /\ value' = Values(r)
    /\ counter' = [i \in Id |-> IF i \in req[r].add THEN req[r].n[i] ELSE counter[i]]
    /\ short' = (short \ req[r].add) \cup {i \in req[r].add : <<"got", i>> \in req[r].late}
    /\ unseen' = {x \in unseen : x[2] \notin req[r].add}
    /\ posted' = posted \cup {req[r].topic}
    /\ Commits(r, [Idle EXCEPT !.pc = "queue", !.affected = {req[r].topic}])
    /\ UNCHANGED <<synonym, drawn, index, asked, stale, twins>>

(***************************************************************************)
(* change_tag                                                              *)
(***************************************************************************)
Rename(r, i, n) ==
    /\ Ask(r) /\ Exists(i) /\ Canonical(n) = {}
    /\ Set(r, [Idle EXCEPT !.pc = "rename", !.old = i, !.name = n])
    /\ UNCHANGED <<db, drawn, index, hist>>

\* DELETE FROM tags_synonyms: whether the name is one at this moment.
RenameClear(r) ==
    LET n == req[r].name IN
    /\ req[r].pc = "rename" /\ ~SynonymHeld(r, n)
    /\ Set(r, [req[r] EXCEPT !.pc = "cleared", !.syn = synonym[n] # 0])
    /\ UNCHANGED <<db, drawn, index, asked, hist>>

\* The name fails if another tag has it by now; a tag that is no more is not missed.
RenameWrite(r) ==
    LET i == req[r].old  n == req[r].name IN
    /\ req[r].pc = "cleared" /\ ~Locked(r, i) /\ ~NameHeld(r, n)
    /\ Canonical(n) = {} \/ ~Exists(i)
    /\ Set(r, [req[r] EXCEPT !.pc = "tell", !.hold = {i}, !.affected = With(i)])
    /\ UNCHANGED <<db, drawn, index, asked, hist>>

\* vReindexTopicIds, inside of the transaction.
RenameTells(r) == req[r].affected

RenameQueue(r) ==
    /\ req[r].pc = "tell"
    /\ jobs' = jobs \cup RenameTells(r)
    /\ Set(r, [req[r] EXCEPT !.pc = "renamed"])
    /\ UNCHANGED <<db, drawn, indexed, asked, hist>>

\* A synonym that came after the deletion stays beside the tag.
RenameCommit(r) ==
    LET i == req[r].old  n == req[r].name IN
    /\ req[r].pc = "renamed"
    /\ value' = IF Exists(i) THEN [value EXCEPT ![i] = n] ELSE value
    /\ synonym' = IF req[r].syn THEN [synonym EXCEPT ![n] = 0] ELSE synonym
    /\ twins' = IF Exists(i) /\ synonym[n] # 0 /\ ~req[r].syn THEN twins \cup {n} ELSE twins
    /\ Done(r)
    /\ UNCHANGED <<counter, rows, posted, drawn, index, asked, stale, short, unseen>>

(***************************************************************************)
(* delete_tag, of a synonym, of a tag, and with a tag that replaces it     *)
(***************************************************************************)
DropSynonym(n) ==
    /\ synonym[n] # 0 /\ (\A q \in Req : ~Clears(q, n)) /\ synonym' = [synonym EXCEPT ![n] = 0]
    /\ UNCHANGED <<value, counter, rows, posted, drawn, index, req, asked, hist>>

\* The topics to index are read before the transaction.
Delete(r, i) ==
    /\ Ask(r) /\ Exists(i) /\ synonym[value[i]] = 0
    /\ Set(r, [Idle EXCEPT !.pc = "delete", !.old = i, !.affected = With(i)])
    /\ UNCHANGED <<db, drawn, index, hist>>

DeleteRows(r) ==
    LET gone == {x \in rows : x[2] = req[r].old} IN
    /\ req[r].pc = "delete" /\ \A x \in gone : ~RowHeld(r, x)
    /\ Set(r, [req[r] EXCEPT !.pc = "deleted", !.rem = gone])
    /\ UNCHANGED <<db, drawn, index, asked, hist>>

\* A row that came meanwhile fails the foreign key.
Unused(r) == {x \in rows : x[2] = req[r].old} \subseteq req[r].rem

DeleteCommit(r) ==
    LET i == req[r].old IN
    /\ req[r].pc = "deleted" /\ ~Locked(r, i) /\ Unused(r)
    /\ \A n \in Name : synonym[n] = i => ~SynonymHeld(r, n)
    /\ rows' = Rows(r)
    /\ value' = [value EXCEPT ![i] = NoName]
    /\ synonym' = [n \in Name |-> IF synonym[n] = i THEN 0 ELSE synonym[n]]
    /\ stale' = stale \cup ({x[1] : x \in req[r].rem} \ req[r].affected)
    /\ unseen' = unseen \cap rows'
    /\ Set(r, [Idle EXCEPT !.pc = "queue", !.affected = req[r].affected])
    /\ UNCHANGED <<counter, posted, drawn, index, asked, short, twins>>

Merge(r, i, n, syn) ==
    /\ Ask(r) /\ Exists(i) /\ synonym[value[i]] = 0 /\ n # value[i]
    /\ Set(r, [Idle EXCEPT !.pc = "merge", !.old = i, !.name = value[i], !.chosen = {n},
                           !.syn = syn])
    /\ UNCHANGED <<db, drawn, index, hist>>

\* The tag, a synonym or a new tag; a synonym of the old tag itself fails later.
MergeResolve(r) ==
    LET n == CHOOSE m \in req[r].chosen : TRUE IN
    /\ req[r].pc = "merge"
    /\ IF GetOrCreate(n) # {}
       THEN /\ \E i \in GetOrCreate(n) \ {req[r].old} :
                 Set(r, [req[r] EXCEPT !.pc = "mcount", !.chosen = {}, !.target = i])
            /\ drawn' = drawn
       ELSE /\ drawn < MaxIds /\ ~NameHeld(r, n)
            /\ drawn' = drawn + 1
            /\ Set(r, [req[r] EXCEPT !.pc = "mcount", !.chosen = {}, !.target = drawn + 1,
                                     !.new = {<<drawn + 1, n>>}])
    /\ UNCHANGED <<db, index, asked, hist>>

\* The topics that have not both.
Moved(r) == With(req[r].old) \ With(req[r].target)

MergeCount(r) ==
    /\ req[r].pc = "mcount"
    /\ Set(r, [req[r] EXCEPT !.pc = "copy", !.n[req[r].target] = Cardinality(Moved(r)),
                             !.late = {}])
    /\ UNCHANGED <<db, drawn, index, asked, hist>>

MergeCopy(r) ==
    LET i == req[r].target
        ins == (With(req[r].old) \X {i}) \ rows IN
    /\ req[r].pc = "copy" /\ ~Keyed(r, i) /\ \A x \in ins : ~RowHeld(r, x)
    /\ ins = {} \/ Exists(i) \/ req[r].new # {}
    /\ Set(r, [req[r] EXCEPT !.pc = "clear", !.ins = ins,
                             !.missed = {<<"got", req[r].old>>, <<"lost", i>>} \cap req[r].late # {}])
    /\ UNCHANGED <<db, drawn, index, asked, hist>>

MergeClear(r) ==
    LET gone == {x \in rows : x[2] = req[r].old} IN
    /\ req[r].pc = "clear" /\ \A x \in gone : ~RowHeld(r, x)
    /\ Set(r, [req[r] EXCEPT !.pc = "raise", !.rem = gone])
    /\ UNCHANGED <<db, drawn, index, asked, hist>>

MergeRaise(r) ==
    /\ req[r].pc = "raise" /\ ~Written(r, req[r].target)
    /\ Set(r, [req[r] EXCEPT !.pc = "merged", !.weak = {req[r].target}])
    /\ UNCHANGED <<db, drawn, index, asked, hist>>

\* The synonyms of the old tag follow it.
Leads(r, n) == (req[r].syn /\ n = req[r].name) \/ synonym[n] = req[r].old
Follow(r, n) == IF Leads(r, n) THEN req[r].target ELSE synonym[n]

MergeCommit(r) ==
    LET i == req[r].old  j == req[r].target IN
    /\ req[r].pc = "merged" /\ ~Locked(r, i) /\ Unused(r)
    /\ \A n \in Name : Leads(r, n) => ~SynonymHeld(r, n)
    /\ Exists(j) \/ req[r].new # {} \/ \A n \in Name : Follow(r, n) # j
    /\ rows' = Rows(r)
    /\ value' = [Values(r) EXCEPT ![i] = NoName]
    /\ counter' = [counter EXCEPT ![j] = @ + req[r].n[j]]
    /\ synonym' = [n \in Name |-> Follow(r, n)]
    /\ twins' = IF req[r].syn /\ value[i] # req[r].name THEN twins \cup {req[r].name} ELSE twins
    /\ short' = IF req[r].missed THEN short \cup {j} ELSE short
    /\ unseen' = unseen \cap rows'
    /\ stale' = stale \cup {x[1] : x \in {y \in req[r].rem : <<y[1], j>> \notin Rows(r)}}
    /\ Commits(r, [Idle EXCEPT !.pc = "reindex", !.target = j])
    /\ UNCHANGED <<posted, drawn, index, asked>>

\* reindex_topics_with_tag, after the commit.
MergeReindex(r) ==
    /\ req[r].pc = "reindex"
    /\ Set(r, [Idle EXCEPT !.pc = "queue", !.affected = With(req[r].target)])
    /\ UNCHANGED <<db, drawn, index, asked, hist>>

(***************************************************************************)
(* vRecalculateTagCounters, one at a time                                  *)
(***************************************************************************)

\* The statement's snapshot counts no topic that is deleted or not confirmed.
Sweep(r, hidden) ==
    /\ Ask(r) /\ \A q \in Req : req[q].pc # "sweep"
    /\ Set(r, [Idle EXCEPT !.pc = "sweep", !.add = {i \in Id : Exists(i)},
                           !.n = [i \in Id |-> Cardinality(With(i) \ hidden)],
                           !.hidden = {x \in rows : x[1] \in hidden}])
    /\ UNCHANGED <<db, drawn, index, hist>>

\* It waits for whoever has a tag's row, and does not count again.
SweepCommit(r) ==
    LET counted == {i \in req[r].add : Exists(i)} IN
    /\ req[r].pc = "sweep" /\ \A i \in counted : ~Written(r, i)
    /\ counter' = [i \in Id |-> IF i \in counted THEN req[r].n[i] ELSE counter[i]]
    /\ short' = (short \ counted) \cup {i \in counted : <<"got", i>> \in req[r].late}
    /\ unseen' = {x \in rows : IF x[2] \in counted THEN x \in req[r].hidden ELSE x \in unseen}
    /\ Done(r)
    /\ UNCHANGED <<value, synonym, rows, posted, drawn, index, asked, stale, twins>>

(***************************************************************************)
(* The queue                                                               *)
(***************************************************************************)
Queue(r) ==
    /\ req[r].pc = "queue"
    /\ jobs' = jobs \cup req[r].affected
    /\ Done(r)
    /\ UNCHANGED <<db, drawn, indexed, asked, hist>>

\* The spool cannot be written, or the process ends.
QueueFails(r) ==
    /\ req[r].pc \in {"queue", "reindex"}
    /\ stale' = stale \cup (IF req[r].pc = "queue" THEN req[r].affected ELSE With(req[r].target))
    /\ Done(r)
    /\ UNCHANGED <<db, drawn, index, asked, short, unseen, twins>>

\* A worker reads the topic's committed row.
Index(t) ==
    /\ t \in jobs /\ jobs' = jobs \ {t}
    /\ indexed' = [indexed EXCEPT ![t] = NamesOf(t)]
    /\ stale' = IF \E r \in Req : req[r].pc = "renamed" /\ t \in req[r].affected
                THEN stale \cup {t} ELSE stale \ {t}
    /\ UNCHANGED <<db, drawn, req, asked, short, unseen, twins>>

Next ==
    \/ \E r \in Req :
        \/ \E t \in Topic, chosen \in {c \in SUBSET Name : Cardinality(c) <= 1} :
            EditRead(r, t, chosen) \/ Post(r, t, chosen)
        \/ EditResolve(r) \/ EditLock(r) \/ EditWrite(r) \/ EditCommit(r)
        \/ PostInsert(r) \/ PostCount(r) \/ PostCommit(r)
        \/ \E i \in Id :
            \/ Delete(r, i)
            \/ \E n \in Name : Rename(r, i, n) \/ \E syn \in BOOLEAN : Merge(r, i, n, syn)
        \/ RenameClear(r) \/ RenameWrite(r) \/ RenameQueue(r) \/ RenameCommit(r)
        \/ DeleteRows(r) \/ DeleteCommit(r)
        \/ MergeResolve(r) \/ MergeCount(r) \/ MergeCopy(r) \/ MergeClear(r) \/ MergeRaise(r)
        \/ MergeCommit(r) \/ MergeReindex(r)
        \/ (\E hidden \in SUBSET posted : Sweep(r, hidden)) \/ SweepCommit(r)
        \/ Queue(r) \/ QueueFails(r) \/ Abort(r)
    \/ \E n \in Name : DropSynonym(n)
    \/ \E t \in Topic : Index(t)

Spec == Init /\ [][Next]_vars

(***************************************************************************)
(* Properties                                                              *)
(***************************************************************************)

\* Every variable keeps its type; rows and synonyms are of tags that exist,
\* and no two tags have one name.
TagsTypeOK ==
    /\ rows \subseteq Topic \X {i \in Id : Exists(i)}
    /\ \A n \in Name : /\ synonym[n] = 0 \/ Exists(synonym[n])
                       /\ Cardinality(Canonical(n)) <= 1
    /\ \A i \in Id : counter[i] >= 0
    /\ jobs \subseteq Topic /\ drawn \in 0..MaxIds /\ asked \in 0..MaxRequests

\* A name is a tag or a synonym and not both, unless a merge made a synonym
\* of the old name when the tag had another by then, or of the new one between the
\* two statements of a rename.
NamesOnce == \A n \in Name \ twins : Canonical(n) = {} \/ synonym[n] = 0

\* A tag is not counted for fewer topics than have it and were seen when all were
\* last counted, whatever is edited, posted and merged, unless rows were committed
\* between a count and its use.
NotShort == \A i \in Id \ short :
    Exists(i) => counter[i] >= Cardinality({t \in With(i) : <<t, i>> \notin unseen})

\* When nothing is queued or about to be, each document has its topic's tags,
\* unless the queue failed, a job overtook its rename, a topic got the tag while
\* that was deleted, or a merge left it with neither tag.
IndexedRight ==
    \A t \in posted \ (jobs \cup stale) :
        (\A r \in Req : t \notin req[r].affected /\ req[r].pc # "reindex") =>
            indexed[t] = NamesOf(t)

\* Names, counters and the search index follow the rows of tags.
TagsConsistent == TagsTypeOK /\ NamesOnce /\ NotShort /\ IndexedRight
=============================================================================
