----------------------------- MODULE SearchQueue -----------------------------
(***************************************************************************)
(* The durable search queue: request handlers commit a change to the       *)
(* database and then publish a reindex job as a file of a spool directory; *)
(* workers (one per process that runs the background jobs) claim the files *)
(* by renaming them, read the rows again and write the OpenSearch          *)
(* documents.  Sources: infra/search_queue.rs (the sender),                *)
(* search_index.rs (the drain and the indexing), bootstrap/background.rs   *)
(* (the loop around the drain).                                            *)
(*                                                                         *)
(* A row is a version number and whether the message is hidden (deleted,   *)
(* draft, comments hidden, unapproved anonymous); version 0 is a message   *)
(* nobody has posted yet.  A document records the row versions it was      *)
(* built from.  The ghost variables published and executed do not          *)
(* influence any action.  OpenSearch is taken to apply a request, if at    *)
(* all, before the call returns or the caller gives it up.                 *)
(***************************************************************************)
EXTENDS Naturals, FiniteSets

CONSTANTS
    Topic, Comment,   \* the messages of the forum
    Parent,           \* the topic each comment belongs to
    Handler,          \* request handlers in flight
    Worker,           \* processes draining the spool
    NoMsg,            \* no message
    BatchLimit,       \* files taken by one drain (100 in the code)
    MaxVersion,       \* bound: changes to one message
    MaxStamp,         \* bound: jobs written before a request is accepted
    MaxFaults         \* bound: failed calls, unreadable files and crashes

ASSUME ParentAssumption == Parent \in [Comment -> Topic]
ASSUME MessageAssumption == Topic \cap Comment = {} /\ NoMsg \notin Topic \cup Comment
ASSUME BoundAssumption == {BatchLimit, MaxVersion, MaxStamp, MaxFaults} \subseteq Nat

Message == Topic \cup Comment
Row     == [ver : Nat, hidden : BOOLEAN]
Absent  == [ver |-> 0, hidden |-> FALSE]
Payload == [ids : SUBSET Message, withComments : BOOLEAN, low : BOOLEAN]
Job     == [stamp : Nat, ids : SUBSET Message, withComments : BOOLEAN, low : BOOLEAN]
NoJob   == [stamp |-> 0, ids |-> {}, withComments |-> FALSE, low |-> FALSE]
NoDoc   == [own |-> 0, top |-> 0]
Doc     == [own : Nat, top : Nat]
Phase   == {"wait", "reclaim", "claim", "open", "next", "topic", "ids",
            "comment", "parent", "write", "remove", "requeue"}

VARIABLES
    row,         \* the database: the current row of every message
    doc,         \* OpenSearch: the document of every message
    pending, processing, failed,   \* the three directories of the spool
    aged,        \* files last modified more than ten minutes ago
    unsent,      \* per handler, the payloads it still has to enqueue
    temporary,   \* per handler, the job in its temporary file
    stamp,       \* the last queue timestamp handed out
    unspooled,   \* messages whose change was committed and never enqueued
    faults,
    phase, listed, held, todo, subs, cur, own, top,  \* per worker
    published, executed   \* ghosts: jobs ever published, ever carried out

database == <<row, doc>>
spool    == <<pending, processing, failed, aged>>
sender   == <<unsent, temporary, stamp>>
ghosts   == <<published, executed>>
reading  == <<cur, own, top>>
working  == <<held, todo, subs, cur, own, top>>
vars == <<row, doc, pending, processing, failed, aged, unsent, temporary,
          stamp, unspooled, faults, phase, listed, held, todo, subs, cur, own,
          top, published, executed>>

CommentsOf(t) == {c \in Comment : Parent[c] = t}
TopicOf(m)    == IF m \in Comment THEN Parent[m] ELSE m
Covers(p)     == p.ids \cup IF p.withComments
                            THEN {c \in Comment : Parent[c] \in p.ids} ELSE {}

\* The document built from a message's own row and the row of its topic.
DocOf(o, t) == IF o.ver = 0 \/ t.ver = 0 \/ o.hidden \/ t.hidden
               THEN NoDoc ELSE [own |-> o.ver, top |-> t.ver]
Desired(m)  == DocOf(row[m], row[TopicOf(m)])

\* The order of one drain: live updates before month rebuilds, then by name.
Before(j, k) == \/ ~j.low /\ k.low
                \/ j.low = k.low /\ j.stamp < k.stamp
Batch == {j \in pending : Cardinality({k \in pending : Before(k, j)}) < BatchLimit}

Init ==
    /\ row = [m \in Message |-> Absent]
    /\ doc = [m \in Message |-> NoDoc]
    /\ pending = {} /\ processing = {} /\ failed = {} /\ aged = {}
    /\ unsent = [h \in Handler |-> {}]
    /\ temporary = [h \in Handler |-> NoJob]
    /\ stamp = 0 /\ unspooled = {} /\ faults = 0
    /\ phase = [w \in Worker |-> "wait"]
    /\ listed = [w \in Worker |-> {}]
    /\ held = [w \in Worker |-> NoJob]
    /\ todo = [w \in Worker |-> {}]
    /\ subs = [w \in Worker |-> {}]
    /\ cur = [w \in Worker |-> NoMsg]
    /\ own = [w \in Worker |-> Absent]
    /\ top = [w \in Worker |-> Absent]
    /\ published = {} /\ executed = {}

-----------------------------------------------------------------------------
(* The request handlers *)

Idle(h) == unsent[h] = {} /\ temporary[h] = NoJob

\* A handler's transaction: the rows of ms get new versions, and the handler
\* goes on to enqueue the payloads ps.
Commit(h, ms, ps) ==
    /\ Idle(h)
    /\ stamp < MaxStamp
    /\ \A m \in ms : row[m].ver < MaxVersion
    /\ \E hide \in [ms -> BOOLEAN] :
         row' = [m \in Message |-> IF m \in ms
                   THEN [ver |-> row[m].ver + 1, hidden |-> hide[m]]
                   ELSE row[m]]
    /\ unsent' = [unsent EXCEPT ![h] = ps]
    /\ UNCHANGED <<doc, spool, temporary, stamp, unspooled, faults, phase,
                   listed, working, ghosts>>

TopicPayload(t, deep) == [ids |-> {t}, withComments |-> deep, low |-> FALSE]
CommentsPayload(cs)   == [ids |-> cs, withComments |-> FALSE, low |-> FALSE]
MonthPayload          == [ids |-> Topic, withComments |-> TRUE, low |-> TRUE]

\* A new topic is the one change that is enqueued without its comments.
PostTopic(h, t) == row[t].ver = 0 /\ Commit(h, {t}, {TopicPayload(t, FALSE)})
\* Mutant: an edited topic is enqueued without its comments.
ChangeTopicShallow(h, t) ==
    row[t].ver > 0 /\ Commit(h, {t}, {TopicPayload(t, FALSE)})


ChangeTopic(h, t) == row[t].ver > 0 /\ Commit(h, {t}, {TopicPayload(t, TRUE)})
ChangeComment(h, c) ==
    /\ row[Parent[c]].ver > 0
    /\ Commit(h, {c}, {CommentsPayload({c})})

\* Deleting by address: the topics one by one, then one batch of comments.
MassDelete(h, ts, cs) ==
    /\ ts # {}
    /\ \A m \in ts \cup cs : row[m].ver > 0
    /\ Commit(h, ts \cup cs, {TopicPayload(t, TRUE) : t \in ts} \cup {CommentsPayload(cs)})

\* The administrator's month rebuild changes no row.
ScheduleReindex(h) == Commit(h, {}, {MonthPayload})

WriteTemporary(h) ==
    /\ temporary[h] = NoJob
    /\ stamp' = stamp + 1
    /\ \E p \in unsent[h] :
         temporary' = [temporary EXCEPT ![h] =
             [stamp |-> stamp + 1, ids |-> p.ids,
              withComments |-> p.withComments, low |-> p.low]]
    /\ UNCHANGED <<database, spool, unsent, unspooled, faults, phase, listed,
                   working, ghosts>>

PayloadOf(j) == [ids |-> j.ids, withComments |-> j.withComments, low |-> j.low]

\* The rename that makes the temporary file a job.
PublishJob(h) ==
    /\ temporary[h] # NoJob
    /\ pending' = pending \cup {temporary[h]}
    /\ published' = published \cup {temporary[h]}
    /\ temporary' = [temporary EXCEPT ![h] = NoJob]
    /\ unsent' = [unsent EXCEPT ![h] = @ \ {PayloadOf(temporary[h])}]
    /\ UNCHANGED <<database, processing, failed, aged, stamp, unspooled,
                   faults, phase, listed, working, executed>>

\* The disk is full, the process dies or the client goes away: the change is
\* committed, and the jobs that were not published yet never will be.
AbandonEnqueue(h) ==
    /\ unsent[h] # {}
    /\ faults < MaxFaults
    /\ faults' = faults + 1
    /\ unsent' = [unsent EXCEPT ![h] = {}]
    /\ temporary' = [temporary EXCEPT ![h] = NoJob]
    /\ unspooled' = unspooled \cup UNION {Covers(p) : p \in unsent[h]}
    /\ UNCHANGED <<database, spool, stamp, phase, listed, working, ghosts>>

-----------------------------------------------------------------------------
(* The drain *)

\* Ten minutes pass; a rename keeps the time of the file.
Age(j) ==
    /\ j \in (pending \cup processing) \ aged
    /\ aged' = aged \cup {j}
    /\ UNCHANGED <<database, pending, processing, failed, sender, unspooled,
                   faults, phase, listed, working, ghosts>>

StartDrain(w) ==
    /\ phase[w] = "wait"
    /\ phase' = [phase EXCEPT ![w] = "reclaim"]
    /\ listed' = [listed EXCEPT ![w] = processing]
    /\ UNCHANGED <<database, spool, sender, unspooled, faults, working, ghosts>>


ReclaimStaleQueueJob(w) ==
    /\ phase[w] = "reclaim"
    /\ \E j \in listed[w] :
         /\ listed' = [listed EXCEPT ![w] = @ \ {j}]
         /\ IF j \in processing \cap aged
            THEN /\ processing' = processing \ {j}
                 /\ pending' = pending \cup {j}
            ELSE UNCHANGED <<processing, pending>>
    /\ UNCHANGED <<database, failed, aged, sender, unspooled, faults, phase,
                   working, ghosts>>

ListPending(w) ==
    /\ phase[w] = "reclaim" /\ listed[w] = {}
    /\ listed' = [listed EXCEPT ![w] = Batch]
    /\ phase' = [phase EXCEPT ![w] = "claim"]
    /\ UNCHANGED <<database, spool, sender, unspooled, faults, working, ghosts>>

\* The first listed file is renamed to processing; if it is gone, go on.
ClaimJob(w) ==
    /\ phase[w] = "claim"
    /\ \E j \in listed[w] :
         /\ \A k \in listed[w] \ {j} : Before(j, k)
         /\ listed' = [listed EXCEPT ![w] = @ \ {j}]
         /\ IF j \in pending
            THEN /\ pending' = pending \ {j}
                 /\ processing' = processing \cup {j}
                 /\ held' = [held EXCEPT ![w] = j]
                 /\ phase' = [phase EXCEPT ![w] = "open"]
            ELSE UNCHANGED <<pending, processing, held, phase>>
    /\ UNCHANGED <<database, failed, aged, sender, unspooled, faults, todo,
                   subs, reading, ghosts>>

EndDrain(w) ==
    /\ phase[w] = "claim" /\ listed[w] = {}
    /\ phase' = [phase EXCEPT ![w] = "wait"]
    /\ UNCHANGED <<database, spool, sender, unspooled, faults, listed, working,
                   ghosts>>

\* Another worker may have taken the file away: then it cannot be read, and
\* cannot be moved to failed either.
ReadJob(w) ==
    /\ phase[w] = "open"
    /\ IF held[w] \in processing
       THEN /\ todo' = [todo EXCEPT ![w] = held[w].ids]
            /\ phase' = [phase EXCEPT ![w] = "next"]
            /\ UNCHANGED held
       ELSE /\ phase' = [phase EXCEPT ![w] = "claim"]
            /\ held' = [held EXCEPT ![w] = NoJob]
            /\ UNCHANGED todo
    /\ UNCHANGED <<database, spool, sender, unspooled, faults, listed, subs,
                   reading, ghosts>>

QuarantineJob(w) ==
    /\ phase[w] = "open" /\ held[w] \in processing
    /\ faults < MaxFaults
    /\ faults' = faults + 1
    /\ processing' = processing \ {held[w]}
    /\ failed' = failed \cup {held[w]}
    /\ held' = [held EXCEPT ![w] = NoJob]
    /\ phase' = [phase EXCEPT ![w] = "claim"]
    /\ UNCHANGED <<database, pending, aged, sender, unspooled, listed, todo,
                   subs, reading, ghosts>>

-----------------------------------------------------------------------------
(* Carrying a job out: vIndexTopic and vIndexComment *)

\* The comments of the current topic come before the next message of the job.
NextMessage(w) ==
    /\ phase[w] = "next"
    /\ \/ /\ subs[w] # {}
          /\ \E c \in subs[w] :
               /\ cur' = [cur EXCEPT ![w] = c]
               /\ subs' = [subs EXCEPT ![w] = @ \ {c}]
          /\ phase' = [phase EXCEPT ![w] = "comment"]
          /\ UNCHANGED todo
       \/ /\ subs[w] = {}
          /\ \E m \in todo[w] :
               /\ cur' = [cur EXCEPT ![w] = m]
               /\ todo' = [todo EXCEPT ![w] = @ \ {m}]
               /\ phase' = [phase EXCEPT ![w] =
                              IF m \in Topic THEN "topic" ELSE "comment"]
          /\ UNCHANGED subs
    /\ UNCHANGED <<database, spool, sender, unspooled, faults, listed, held,
                   own, top, ghosts>>

ReadTopic(w) ==
    /\ phase[w] = "topic"
    /\ IF row[cur[w]].ver = 0
       THEN /\ phase' = [phase EXCEPT ![w] = "next"]
            /\ UNCHANGED <<own, top>>
       ELSE /\ phase' = [phase EXCEPT ![w] = "ids"]
            /\ own' = [own EXCEPT ![w] = row[cur[w]]]
            /\ top' = [top EXCEPT ![w] = row[cur[w]]]
    /\ UNCHANGED <<database, spool, sender, unspooled, faults, listed, held,
                   todo, subs, cur, ghosts>>

\* Mutant: the list with the topic's own number is taken for the comments'.
ReadMessageIds(w) ==
    /\ phase[w] = "ids"
    /\ subs' = [subs EXCEPT ![w] = {cur[w]} \cup CommentsOf(cur[w])]
    /\ phase' = [phase EXCEPT ![w] = "write"]
    /\ UNCHANGED <<database, spool, sender, unspooled, faults, listed, held,
                   todo, reading, ghosts>>

\* Mutant: the comments of a topic are never indexed with it.
ReadNoCommentIds(w) ==
    /\ phase[w] = "ids"
    /\ phase' = [phase EXCEPT ![w] = "write"]
    /\ UNCHANGED <<database, spool, sender, unspooled, faults, listed, held,
                   todo, subs, reading, ghosts>>


ReadCommentIds(w) ==
    /\ phase[w] = "ids"
    /\ subs' = [subs EXCEPT ![w] =
                  IF held[w].withComments
                  THEN {c \in CommentsOf(cur[w]) : row[c].ver > 0} ELSE {}]
    /\ phase' = [phase EXCEPT ![w] = "write"]
    /\ UNCHANGED <<database, spool, sender, unspooled, faults, listed, held,
                   todo, reading, ghosts>>

ReadComment(w) ==
    /\ phase[w] = "comment"
    /\ IF row[cur[w]].ver = 0
       THEN /\ phase' = [phase EXCEPT ![w] = "next"]
            /\ UNCHANGED own
       ELSE /\ phase' = [phase EXCEPT ![w] = "parent"]
            /\ own' = [own EXCEPT ![w] = row[cur[w]]]
    /\ UNCHANGED <<database, spool, sender, unspooled, faults, listed, held,
                   todo, subs, cur, top, ghosts>>

ReadParent(w) ==
    /\ phase[w] = "parent"
    /\ top' = [top EXCEPT ![w] = row[Parent[cur[w]]]]
    /\ phase' = [phase EXCEPT ![w] = "write"]
    /\ UNCHANGED <<database, spool, sender, unspooled, faults, listed, held,
                   todo, subs, cur, own, ghosts>>

\* PUT of the document or, when the message may not be found, DELETE of it.
Written(w) == [doc EXCEPT ![cur[w]] = DocOf(own[w], top[w])]

WriteDoc(w) ==
    /\ phase[w] = "write"
    /\ doc' = Written(w)
    /\ phase' = [phase EXCEPT ![w] = "next"]
    /\ UNCHANGED <<row, spool, sender, unspooled, faults, listed, working, ghosts>>

CompleteJob(w) ==
    /\ phase[w] = "next" /\ subs[w] = {} /\ todo[w] = {}
    /\ executed' = executed \cup {held[w]}
    /\ phase' = [phase EXCEPT ![w] = "remove"]
    /\ UNCHANGED <<database, spool, sender, unspooled, faults, listed, working,
                   published>>

\* A query or an OpenSearch call fails.  A failed write may have been applied.
FailCall(w) ==
    /\ phase[w] \in {"topic", "ids", "comment", "parent", "write"}
    /\ faults < MaxFaults
    /\ faults' = faults + 1
    /\ doc' \in IF phase[w] = "write" THEN {doc, Written(w)} ELSE {doc}
    /\ phase' = [phase EXCEPT ![w] = "requeue"]
    /\ UNCHANGED <<row, spool, sender, unspooled, listed, working, ghosts>>

-----------------------------------------------------------------------------
(* vFinishQueueJob *)

ForgetWork(w) ==
    /\ held' = [held EXCEPT ![w] = NoJob]
    /\ todo' = [todo EXCEPT ![w] = {}]
    /\ subs' = [subs EXCEPT ![w] = {}]
    /\ cur' = [cur EXCEPT ![w] = NoMsg]
    /\ own' = [own EXCEPT ![w] = Absent]
    /\ top' = [top EXCEPT ![w] = Absent]

\* A file that is no longer there is an error, which ends the drain.
FinishOk(w) ==
    /\ phase[w] = "remove"
    /\ processing' = processing \ {held[w]}
    /\ IF held[w] \in processing
       THEN /\ phase' = [phase EXCEPT ![w] = "claim"]
            /\ UNCHANGED listed
       ELSE /\ phase' = [phase EXCEPT ![w] = "wait"]
            /\ listed' = [listed EXCEPT ![w] = {}]
    /\ ForgetWork(w)
    /\ UNCHANGED <<database, pending, failed, aged, sender, unspooled, faults,
                   ghosts>>

\* Mutant: the file of a failed job is removed like that of a finished one.
FinishErrDropping(w) ==
    /\ phase[w] = "requeue"
    /\ processing' = processing \ {held[w]}
    /\ phase' = [phase EXCEPT ![w] = "wait"]
    /\ listed' = [listed EXCEPT ![w] = {}]
    /\ ForgetWork(w)
    /\ UNCHANGED <<database, pending, failed, aged, sender, unspooled, faults, ghosts>>

\* A failed job goes back to pending and the rest of the batch is left.
FinishErr(w) ==
    /\ phase[w] = "requeue"
    /\ IF held[w] \in processing
       THEN /\ processing' = processing \ {held[w]}
            /\ pending' = pending \cup {held[w]}
       ELSE UNCHANGED <<processing, pending>>
    /\ phase' = [phase EXCEPT ![w] = "wait"]
    /\ listed' = [listed EXCEPT ![w] = {}]
    /\ ForgetWork(w)
    /\ UNCHANGED <<database, failed, aged, sender, unspooled, faults, ghosts>>

\* The process dies (or is aborted fifteen seconds into a shutdown).
CrashWorker(w) ==
    /\ phase[w] # "wait"
    /\ faults < MaxFaults
    /\ faults' = faults + 1
    /\ doc' \in IF phase[w] = "write" THEN {doc, Written(w)} ELSE {doc}
    /\ phase' = [phase EXCEPT ![w] = "wait"]
    /\ listed' = [listed EXCEPT ![w] = {}]
    /\ ForgetWork(w)
    /\ UNCHANGED <<row, spool, sender, unspooled, ghosts>>

-----------------------------------------------------------------------------
Enqueue(h) == WriteTemporary(h) \/ PublishJob(h)

Request(h) ==
    \/ \E t \in Topic : PostTopic(h, t) \/ ChangeTopic(h, t)
    \/ \E c \in Comment : ChangeComment(h, c)
    \/ \E ts \in SUBSET Topic, cs \in SUBSET Comment : MassDelete(h, ts, cs)
    \/ ScheduleReindex(h)

Drain(w) ==
    \/ StartDrain(w) \/ ReclaimStaleQueueJob(w) \/ ListPending(w) \/ ClaimJob(w)
    \/ EndDrain(w) \/ ReadJob(w) \/ NextMessage(w) \/ ReadTopic(w)
    \/ ReadCommentIds(w) \/ ReadComment(w) \/ ReadParent(w) \/ WriteDoc(w)
    \/ CompleteJob(w) \/ FinishOk(w) \/ FinishErr(w)

Fault ==
    \/ \E h \in Handler : AbandonEnqueue(h)
    \/ \E w \in Worker : QuarantineJob(w) \/ FailCall(w) \/ CrashWorker(w)

Next ==
    \/ \E h \in Handler : Request(h) \/ Enqueue(h)
    \/ \E j \in pending \cup processing : Age(j)
    \/ \E w \in Worker : Drain(w)
    \/ Fault

Spec == Init /\ [][Next]_vars

\* The runtime keeps polling the drain and the handlers, and time passes.
FairSpec ==
    /\ Spec
    /\ \A w \in Worker : WF_vars(Drain(w))
    /\ \A h \in Handler : WF_vars(Enqueue(h))
    /\ WF_vars(\E j \in processing : Age(j))
-----------------------------------------------------------------------------
(* What must hold *)

TypeOK ==
    /\ row \in [Message -> Row] /\ doc \in [Message -> Doc]
    /\ pending \subseteq Job /\ processing \subseteq Job
    /\ failed \subseteq Job /\ aged \subseteq Job
    /\ unsent \in [Handler -> SUBSET Payload]
    /\ temporary \in [Handler -> Job]
    /\ stamp \in Nat /\ unspooled \subseteq Message /\ faults \in Nat
    /\ phase \in [Worker -> Phase] /\ listed \in [Worker -> SUBSET Job]
    /\ held \in [Worker -> Job]
    /\ todo \in [Worker -> SUBSET Message] /\ subs \in [Worker -> SUBSET Comment]
    /\ cur \in [Worker -> Message \cup {NoMsg}]
    /\ \A w \in Worker :
         /\ phase[w] \in {"topic", "ids"} => cur[w] \in Topic
         /\ phase[w] \in {"comment", "parent"} => cur[w] \in Comment
         /\ phase[w] = "write" => cur[w] \in Message
    /\ own \in [Worker -> Row] /\ top \in [Worker -> Row]
    /\ published \subseteq Job /\ executed \subseteq Job

\* A published job leaves the spool only after some worker has carried it out
\* completely, or for the failed directory: whatever workers, crashes, failed
\* calls and reclaims by age do (search_queue.rs publishes by rename, the drain
\* removes the file only after the work, search_index.rs:661-674).
AtLeastOnce ==
    \A j \in published : j \in pending \cup processing \cup failed \cup executed

\* The spool implements its abstract promise, step by step.
Promise == INSTANCE DurableSpool WITH
    spool <- pending \cup processing, served <- executed, setAside <- failed
DurableSpoolSpec == Promise!Spec

\* The messages a worker has yet to read again for the job it holds.
Unread(w) ==
    IF phase[w] \notin {"next", "topic", "ids", "comment", "parent", "write"} THEN {}
    ELSE todo[w] \cup subs[w]
         \cup (IF held[w].withComments
               THEN {c \in Comment : Parent[c] \in todo[w]} ELSE {})
         \cup (IF phase[w] \in {"topic", "comment"} THEN {cur[w]} ELSE {})
         \cup (IF phase[w] \in {"topic", "ids"} /\ held[w].withComments
               THEN CommentsOf(cur[w]) ELSE {})

\* The message a worker is about to write from rows that are still current.
Fresh(w) ==
    IF \/ phase[w] \in {"ids", "parent"} /\ own[w] = row[cur[w]]
       \/ phase[w] = "write" /\ own[w] = row[cur[w]] /\ top[w] = row[TopicOf(cur[w])]
    THEN {cur[w]} ELSE {}

\* Files nobody works on now.
Waiting == (pending \cup processing \cup failed)
           \ {held[w] : w \in {v \in Worker : phase[v] \notin {"open", "requeue"}}}

Announced(h) == UNION {Covers(p) : p \in unsent[h]}

\* While one process drains the spool, a document may differ from what the
\* database says only as long as something accounts for it: a handler that has
\* committed and not enqueued yet, a job that is waiting, the work a worker has
\* still to do - or an enqueue that failed after its commit.  So when all is
\* quiet no search hit shows a deleted message or an old text.
StaleIsAccounted ==
    \A m \in Message : doc[m] # Desired(m) =>
        \/ m \in unspooled
        \/ \E h \in Handler : m \in Announced(h)
        \/ \E j \in Waiting : m \in Covers(j)
        \/ \E w \in Worker : m \in Unread(w) \cup Fresh(w)

\* When the failures end, every published job is carried out (or set aside):
\* a job whose worker died mid-way is found by its age, one that failed goes
\* back to pending (vReclaimStaleQueueJobs, vFinishQueueJob).
JobsAreServed ==
    \A s \in 1 .. MaxStamp :
        (\E j \in published : j.stamp = s)
            ~> (\E j \in executed \cup failed : j.stamp = s)

\* When the changes end too, the index agrees with the database, except for
\* what was never enqueued and what was set aside.
IndexConverges ==
    <>[](\A m \in Message :
            \/ doc[m] = Desired(m)
            \/ m \in unspooled
            \/ \E j \in failed : m \in Covers(j))

\* Both: nothing that was promised is put off for ever.
QueueDrains == JobsAreServed /\ IndexConverges

\* "Renaming is the claim operation, so concurrent replicas cannot process the
\* same ready file" (search_index.rs:572-573).
ExclusiveProcessing ==
    \A v, w \in Worker : v # w /\ held[v] = held[w] => held[v] = NoJob
=============================================================================
