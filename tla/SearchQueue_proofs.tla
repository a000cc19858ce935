------------------------- MODULE SearchQueue_proofs -------------------------
(***************************************************************************)
(* What holds of the search queue for any number of topics, comments,      *)
(* handlers, workers and faults.                                           *)
(***************************************************************************)
EXTENDS SearchQueue, TLAPS

\* The parts of one step, by what they touch.
LEMMA PayloadTypes ==
    ASSUME NEW t \in Topic, NEW cs \in SUBSET Comment, NEW deep \in BOOLEAN
    PROVE  /\ TopicPayload(t, deep) \in Payload
           /\ CommentsPayload(cs) \in Payload
           /\ MonthPayload \in Payload
  BY DEF TopicPayload, CommentsPayload, MonthPayload, Payload, Message

LEMMA DocType ==
    ASSUME NEW o \in Row, NEW t \in Row
    PROVE  DocOf(o, t) \in Doc
  BY DEF DocOf, Row, Doc, NoDoc

LEMMA CommitType ==
    ASSUME TypeOK, NEW h \in Handler, NEW ms \in SUBSET Message,
           NEW ps \in SUBSET Payload, Commit(h, ms, ps)
    PROVE  TypeOK'
<1>1. PICK hide \in [ms -> BOOLEAN] :
        row' = [m \in Message |-> IF m \in ms
                   THEN [ver |-> row[m].ver + 1, hidden |-> hide[m]]
                   ELSE row[m]]
  BY DEF Commit
<1>2. row' \in [Message -> Row]
  <2>1. ASSUME NEW m \in Message PROVE row[m].ver + 1 \in Nat /\ row[m] \in Row
    BY DEF TypeOK, Row
  <2>2. ASSUME NEW m \in ms PROVE [ver |-> row[m].ver + 1, hidden |-> hide[m]] \in Row
    BY <2>1 DEF Row
  <2> QED BY <1>1, <2>1, <2>2
<1>3. unsent' \in [Handler -> SUBSET Payload]
  BY DEF TypeOK, Commit
<1> QED BY <1>2, <1>3
        DEF TypeOK, Commit, spool, working, ghosts

LEMMA RequestCommits ==
    ASSUME NEW h \in Handler, Request(h)
    PROVE  \E ms \in SUBSET Message, ps \in SUBSET Payload : Commit(h, ms, ps)
<1>1. CASE \E t \in Topic : PostTopic(h, t) \/ ChangeTopic(h, t)
  <2>1. PICK t \in Topic, deep \in BOOLEAN : Commit(h, {t}, {TopicPayload(t, deep)})
    BY <1>1 DEF PostTopic, ChangeTopic
  <2>2. {t} \in SUBSET Message /\ {TopicPayload(t, deep)} \in SUBSET Payload
    BY PayloadTypes DEF Message
  <2> QED BY <2>1, <2>2
<1>2. CASE \E c \in Comment : ChangeComment(h, c)
  <2>1. PICK c \in Comment : Commit(h, {c}, {CommentsPayload({c})})
    BY <1>2 DEF ChangeComment
  <2>2. {c} \in SUBSET Message /\ {c} \in SUBSET Comment
    BY DEF Message
  <2>3. {CommentsPayload({c})} \in SUBSET Payload
    BY <2>2 DEF CommentsPayload, Payload, Message
  <2> QED BY <2>1, <2>2, <2>3
<1>3. CASE \E ts \in SUBSET Topic, cs \in SUBSET Comment : MassDelete(h, ts, cs)
  <2>1. PICK ts \in SUBSET Topic, cs \in SUBSET Comment : MassDelete(h, ts, cs)
    BY <1>3
  <2>2. {TopicPayload(t, TRUE) : t \in ts} \cup {CommentsPayload(cs)} \subseteq Payload
    <3>1. ASSUME NEW t \in ts PROVE TopicPayload(t, TRUE) \in Payload
      BY DEF TopicPayload, Payload, Message
    <3>2. CommentsPayload(cs) \in Payload
      BY DEF CommentsPayload, Payload, Message
    <3> QED BY <3>1, <3>2
  <2>3. ts \cup cs \in SUBSET Message
    BY DEF Message
  <2> QED BY <2>1, <2>2, <2>3 DEF MassDelete
<1>4. CASE ScheduleReindex(h)
  <2>1. {MonthPayload} \in SUBSET Payload
    BY DEF MonthPayload, Payload, Message
  <2> QED BY <1>4, <2>1 DEF ScheduleReindex
<1> QED BY <1>1, <1>2, <1>3, <1>4 DEF Request

LEMMA WrittenType ==
    ASSUME TypeOK, NEW w \in Worker
    PROVE  Written(w) \in [Message -> Doc]
<1>1. own[w] \in Row /\ top[w] \in Row
  BY DEF TypeOK
<1>2. DocOf(own[w], top[w]) \in Doc
  BY <1>1, DocType
<1> QED BY <1>2 DEF Written, TypeOK

LEMMA ForgetWorkType ==
    ASSUME TypeOK, NEW w \in Worker, ForgetWork(w)
    PROVE  /\ held' \in [Worker -> Job]
           /\ todo' \in [Worker -> SUBSET Message]
           /\ subs' \in [Worker -> SUBSET Comment]
           /\ cur' \in [Worker -> Message \cup {NoMsg}]
           /\ own' \in [Worker -> Row] /\ top' \in [Worker -> Row]
<1>1. NoJob \in Job /\ Absent \in Row
  BY DEF NoJob, Job, Absent, Row
<1> QED BY <1>1 DEF TypeOK, ForgetWork

LEMMA EnqueueType ==
    ASSUME TypeOK, NEW h \in Handler, Enqueue(h) \/ AbandonEnqueue(h)
    PROVE  TypeOK'
<1>1. CASE WriteTemporary(h)
  <2>1. PICK p \in unsent[h] :
          temporary' = [temporary EXCEPT ![h] =
             [stamp |-> stamp + 1, ids |-> p.ids,
              withComments |-> p.withComments, low |-> p.low]]
    BY <1>1 DEF WriteTemporary
  <2>2. p \in Payload
    BY DEF TypeOK
  <2>3. [stamp |-> stamp + 1, ids |-> p.ids,
         withComments |-> p.withComments, low |-> p.low] \in Job
    BY <2>2 DEF Payload, Job, TypeOK
  <2>4. temporary' \in [Handler -> Job]
    BY <2>1, <2>3 DEF TypeOK
  <2> QED BY <1>1, <2>4
          DEF WriteTemporary, TypeOK, database, spool, working, ghosts
<1>2. CASE PublishJob(h)
  <2>1. temporary[h] \in Job /\ NoJob \in Job
    BY DEF TypeOK, NoJob, Job
  <2> QED BY <1>2, <2>1 DEF PublishJob, TypeOK, database, working
<1>3. CASE AbandonEnqueue(h)
  <2>1. ASSUME NEW p \in unsent[h] PROVE Covers(p) \subseteq Message
    BY DEF TypeOK, Payload, Covers, Message
  <2>2. unspooled' \subseteq Message
    BY <1>3, <2>1 DEF AbandonEnqueue, TypeOK
  <2>3. temporary' \in [Handler -> Job]
    BY <1>3 DEF AbandonEnqueue, TypeOK, NoJob, Job
  <2> QED BY <1>3, <2>2, <2>3
          DEF AbandonEnqueue, TypeOK, database, spool, working, ghosts
<1> QED BY <1>1, <1>2, <1>3 DEF Enqueue

\* One worker's step, the failing ones included.
LEMMA WorkerType ==
    ASSUME TypeOK, NEW w \in Worker,
           Drain(w) \/ QuarantineJob(w) \/ FailCall(w) \/ CrashWorker(w)
    PROVE  TypeOK'
<1>a. Written(w) \in [Message -> Doc]
  BY WrittenType
<1>b. ForgetWork(w) =>
        /\ held' \in [Worker -> Job]
        /\ todo' \in [Worker -> SUBSET Message]
        /\ subs' \in [Worker -> SUBSET Comment]
        /\ cur' \in [Worker -> Message \cup {NoMsg}]
        /\ own' \in [Worker -> Row] /\ top' \in [Worker -> Row]
  BY ForgetWorkType
<1>c. ForgetWork(w) => \A v \in Worker \ {w} : cur'[v] = cur[v]
  BY DEF ForgetWork, TypeOK
<1> USE DEF TypeOK, database, spool, sender, ghosts
<1>1. CASE StartDrain(w)
  BY <1>1 DEF StartDrain, working, Phase
<1>2. CASE ReclaimStaleQueueJob(w)
  BY <1>2 DEF ReclaimStaleQueueJob, working
<1>3. CASE ListPending(w)
  BY <1>3 DEF ListPending, working, Batch, Phase
<1>4. CASE ClaimJob(w)
  BY <1>4 DEF ClaimJob, reading, Phase
<1>5. CASE EndDrain(w)
  BY <1>5 DEF EndDrain, working, Phase
<1>6. CASE ReadJob(w)
  <2>1. NoJob \in Job /\ held[w].ids \in SUBSET Message
    BY DEF NoJob, Job
  <2> QED BY <1>6, <2>1 DEF ReadJob, reading, Phase
<1>7. CASE QuarantineJob(w)
  <2>1. NoJob \in Job
    BY DEF NoJob, Job
  <2> QED BY <1>7, <2>1 DEF QuarantineJob, reading, Phase
<1>8. CASE NextMessage(w)
  BY <1>8 DEF NextMessage, Phase, Message
<1>9. CASE ReadTopic(w) \/ ReadComment(w) \/ ReadParent(w)
  <2>1. CASE ReadTopic(w)
    BY <2>1 DEF ReadTopic, Phase, Message
  <2>2. CASE ReadComment(w)
    BY <2>2 DEF ReadComment, Phase, Message
  <2>3. CASE ReadParent(w)
    <3>1. Parent[cur[w]] \in Message
      BY <2>3, ParentAssumption DEF ReadParent, Message
    <3> QED BY <2>3, <3>1 DEF ReadParent, Phase, Message
  <2> QED BY <1>9, <2>1, <2>2, <2>3
<1>10. CASE ReadCommentIds(w)
  BY <1>10 DEF ReadCommentIds, reading, Phase, CommentsOf, Message
<1>11. CASE WriteDoc(w)
  BY <1>11, <1>a DEF WriteDoc, working, Phase
<1>12. CASE CompleteJob(w)
  BY <1>12 DEF CompleteJob, working, Phase
<1>13. CASE FailCall(w)
  BY <1>13, <1>a DEF FailCall, working, Phase
<1>14. CASE FinishOk(w)
  BY <1>14, <1>b, <1>c DEF FinishOk, Phase
<1>15. CASE FinishErr(w)
  BY <1>15, <1>b, <1>c DEF FinishErr, Phase
<1>16. CASE CrashWorker(w)
  <2>1. doc' \in [Message -> Doc]
    BY <1>16, <1>a DEF CrashWorker
  <2>2. phase' \in [Worker -> Phase] /\ listed' \in [Worker -> SUBSET Job]
    BY <1>16 DEF CrashWorker, Phase
  <2>3. phase' = [phase EXCEPT ![w] = "wait"]
    BY <1>16 DEF CrashWorker
  <2> QED BY <1>16, <1>b, <1>c, <2>1, <2>2, <2>3 DEF CrashWorker
<1> QED BY <1>1, <1>2, <1>3, <1>4, <1>5, <1>6, <1>7, <1>8, <1>9, <1>10,
           <1>11, <1>12, <1>13, <1>14, <1>15, <1>16 DEF Drain


LEMMA InitType == ASSUME Init PROVE TypeOK
  BY DEF Init, TypeOK, Row, Absent, Doc, NoDoc, Job, NoJob, Phase

LEMMA StepType == ASSUME TypeOK, [Next]_vars PROVE TypeOK'
<1>1. CASE \E h \in Handler : Request(h)
  BY <1>1, RequestCommits, CommitType
<1>2. CASE \E h \in Handler : Enqueue(h) \/ AbandonEnqueue(h)
  BY <1>2, EnqueueType
<1>3. CASE \E j \in pending \cup processing : Age(j)
  BY <1>3 DEF Age, TypeOK, database, sender, working, ghosts
<1>4. CASE \E w \in Worker : Drain(w) \/ QuarantineJob(w) \/ FailCall(w) \/ CrashWorker(w)
  BY <1>4, WorkerType
<1>5. CASE UNCHANGED vars
  BY <1>5 DEF vars, TypeOK
<1> QED BY <1>1, <1>2, <1>3, <1>4, <1>5 DEF Next, Fault

\* Every variable keeps its type; a worker that reads a row has chosen a
\* message of the right kind (the drain's loops, search_index.rs:607-653).
THEOREM TypeCorrect == Spec => []TypeOK
  BY InitType, StepType, PTL DEF Spec

-----------------------------------------------------------------------------
(* The spool.  AtLeastOnce is not inductive: a job about to be removed must  *)
(* be known to have been carried out, and a job about to be published must   *)
(* be known to be new, which the stamps show.                                *)

Unpublished(j) == j.stamp \in 1 .. stamp /\ \A k \in published : k.stamp # j.stamp

SpoolInv ==
    /\ pending \cup processing \cup failed \cup executed \subseteq published
    /\ pending \cap processing = {}
    /\ \A j \in published : j.stamp \in 1 .. stamp
    /\ \A h \in Handler : temporary[h] # NoJob => Unpublished(temporary[h])
    /\ \A g, h \in Handler : g # h /\ temporary[g] # NoJob
                               => temporary[g].stamp # temporary[h].stamp
    /\ \A w \in Worker : phase[w] \notin {"wait", "reclaim", "claim"}
                           => held[w] \in published
    /\ \A w \in Worker : phase[w] = "remove" => held[w] \in executed
    /\ AtLeastOnce

LEMMA InitSpool == ASSUME Init PROVE SpoolInv
  BY DEF Init, SpoolInv, AtLeastOnce

LEMMA EnqueueSpool ==
    ASSUME TypeOK, SpoolInv, NEW h \in Handler, Enqueue(h) \/ AbandonEnqueue(h)
    PROVE  SpoolInv'
<1>1. CASE WriteTemporary(h)
  <2>1. /\ stamp' = stamp + 1 /\ stamp \in Nat
        /\ temporary'[h].stamp = stamp + 1
        /\ \A g \in Handler \ {h} : temporary'[g] = temporary[g]
        /\ temporary \in [Handler -> Job]
    BY <1>1 DEF WriteTemporary, TypeOK
  <2>2. UNCHANGED <<pending, processing, failed, published, executed, phase, held>>
    BY <1>1 DEF WriteTemporary, spool, ghosts, working
  <2>3. \A g \in Handler : temporary[g].stamp <= stamp
    BY <2>1 DEF SpoolInv, NoJob, Unpublished
  <2>4. \A j \in published : j.stamp \in 1 .. stamp'
    BY <2>1 DEF SpoolInv
  <2>5. (\A g \in Handler : temporary[g] # NoJob => Unpublished(temporary[g]))'
    <3>1. (temporary[h] # NoJob => Unpublished(temporary[h]))'
      BY <2>1, <2>2 DEF SpoolInv, Unpublished
    <3>2. ASSUME NEW g \in Handler, g # h
          PROVE  (temporary[g] # NoJob => Unpublished(temporary[g]))'
      BY <2>1, <2>2, <3>2 DEF SpoolInv, Unpublished
    <3> QED BY <3>1, <3>2
  <2>6. ASSUME NEW f \in Handler, NEW g \in Handler, f # g, temporary'[f] # NoJob
        PROVE  temporary'[f].stamp # temporary'[g].stamp
    <3>1. CASE f = h \/ g = h
      <4>1. \A k \in Handler : temporary[k].stamp \in Nat
        BY <2>1 DEF Job
      <4> QED BY <2>1, <2>3, <2>6, <3>1, <4>1
    <3>2. CASE f # h /\ g # h
      BY <2>1, <2>6, <3>2 DEF SpoolInv
    <3> QED BY <3>1, <3>2
  <2> QED BY <2>2, <2>4, <2>5, <2>6 DEF SpoolInv, AtLeastOnce
<1>2. CASE PublishJob(h)
  <2> DEFINE j == temporary[h]
  <2>1. /\ pending' = pending \cup {j} /\ published' = published \cup {j}
        /\ UNCHANGED <<processing, failed, stamp, phase, held, executed>>
        /\ \A g \in Handler \ {h} : temporary'[g] = temporary[g]
        /\ temporary'[h] = NoJob /\ j # NoJob
    BY <1>2 DEF PublishJob, TypeOK, working
  <2>2. j.stamp \in 1 .. stamp /\ j \notin published
    BY <2>1 DEF SpoolInv, Unpublished
  <2>3. pending' \cap processing' = {}
    BY <2>1, <2>2 DEF SpoolInv
  <2>4. (\A g \in Handler : temporary[g] # NoJob => Unpublished(temporary[g]))'
    <3>1. ASSUME NEW g \in Handler, g # h, temporary[g] # NoJob
          PROVE  Unpublished(temporary[g])'
      BY <2>1, <3>1 DEF SpoolInv, Unpublished
    <3> QED BY <2>1, <3>1
  <2>5. \A f, g \in Handler : f # g /\ temporary'[f] # NoJob
                                => temporary'[f].stamp # temporary'[g].stamp
    BY <2>1 DEF SpoolInv, Unpublished, NoJob
  <2>6. AtLeastOnce'
    BY <2>1 DEF SpoolInv, AtLeastOnce
  <2> QED BY <2>1, <2>2, <2>3, <2>4, <2>5, <2>6 DEF SpoolInv
<1>3. CASE AbandonEnqueue(h)
  <2>1. /\ UNCHANGED <<pending, processing, failed, published, executed, stamp, phase, held>>
        /\ \A g \in Handler \ {h} : temporary'[g] = temporary[g]
        /\ temporary'[h] = NoJob
    BY <1>3 DEF AbandonEnqueue, TypeOK, spool, ghosts, working
  <2>2. \A f, g \in Handler : f # g /\ temporary'[f] # NoJob
                                => temporary'[f].stamp # temporary'[g].stamp
    BY <2>1 DEF SpoolInv, Unpublished, NoJob
  <2> QED BY <2>1, <2>2 DEF SpoolInv, AtLeastOnce, Unpublished
<1> QED BY <1>1, <1>2, <1>3 DEF Enqueue

\* The steps of a worker keep the handlers' part of the invariant.
LEMMA WorkerFrame ==
    ASSUME SpoolInv, UNCHANGED <<sender, published>>
    PROVE  /\ (\A j \in published : j.stamp \in 1 .. stamp)'
           /\ (\A h \in Handler : temporary[h] # NoJob => Unpublished(temporary[h]))'
           /\ (\A g, h \in Handler : g # h /\ temporary[g] # NoJob
                                       => temporary[g].stamp # temporary[h].stamp)'
  BY DEF SpoolInv, sender, Unpublished

LEMMA WorkerSpool ==
    ASSUME TypeOK, SpoolInv, NEW w \in Worker,
           Drain(w) \/ QuarantineJob(w) \/ FailCall(w) \/ CrashWorker(w)
    PROVE  SpoolInv'
<1> USE DEF SpoolInv, AtLeastOnce, TypeOK, spool, ghosts
<1>1. CASE \/ StartDrain(w) \/ ListPending(w) \/ EndDrain(w) \/ NextMessage(w)
           \/ ReadTopic(w) \/ ReadCommentIds(w) \/ ReadComment(w)
           \/ ReadParent(w) \/ WriteDoc(w) \/ FailCall(w)
  <2>1. UNCHANGED <<spool, published, executed, sender, held>>
    BY <1>1 DEF StartDrain, ListPending, EndDrain, NextMessage, ReadTopic,
                ReadCommentIds, ReadComment, ReadParent, WriteDoc, FailCall, working
  <2>2. /\ \A v \in Worker \ {w} : phase'[v] = phase[v]
        /\ phase'[w] # "remove"
        /\ phase[w] \in {"wait", "reclaim", "claim"}
              => phase'[w] \in {"wait", "reclaim", "claim"}
    BY <1>1 DEF StartDrain, ListPending, EndDrain, NextMessage, ReadTopic,
                ReadCommentIds, ReadComment, ReadParent, WriteDoc, FailCall
  <2> QED BY <2>1, <2>2, WorkerFrame
<1>2. CASE ReclaimStaleQueueJob(w)
  BY <1>2, WorkerFrame DEF ReclaimStaleQueueJob, working
<1>3. CASE ClaimJob(w)
  BY <1>3, WorkerFrame DEF ClaimJob
<1>4. CASE ReadJob(w)
  BY <1>4, WorkerFrame DEF ReadJob
<1>5. CASE QuarantineJob(w)
  BY <1>5, WorkerFrame DEF QuarantineJob
<1>6. CASE CompleteJob(w)
  BY <1>6, WorkerFrame DEF CompleteJob, working
<1>7. CASE FinishOk(w)
  BY <1>7, WorkerFrame DEF FinishOk, ForgetWork
<1>8. CASE FinishErr(w)
  BY <1>8, WorkerFrame DEF FinishErr, ForgetWork
<1>9. CASE CrashWorker(w)
  BY <1>9, WorkerFrame DEF CrashWorker, ForgetWork
<1> QED BY <1>1, <1>2, <1>3, <1>4, <1>5, <1>6, <1>7, <1>8, <1>9 DEF Drain

LEMMA StepSpool == ASSUME TypeOK, SpoolInv, [Next]_vars PROVE SpoolInv'
<1>1. CASE \E h \in Handler : Request(h)
  <2>1. PICK h \in Handler, ms \in SUBSET Message, ps \in SUBSET Payload : Commit(h, ms, ps)
    BY <1>1, RequestCommits
  <2>2. UNCHANGED <<pending, processing, failed, published, executed, temporary,
                    stamp, phase, held>>
    BY <2>1 DEF Commit, spool, ghosts, working
  <2> QED BY <2>2 DEF SpoolInv, AtLeastOnce, Unpublished
<1>2. CASE \E h \in Handler : Enqueue(h) \/ AbandonEnqueue(h)
  BY <1>2, EnqueueSpool
<1>3. CASE \E j \in pending \cup processing : Age(j)
  BY <1>3 DEF Age, SpoolInv, AtLeastOnce, Unpublished, sender, working, ghosts
<1>4. CASE \E w \in Worker : Drain(w) \/ QuarantineJob(w) \/ FailCall(w) \/ CrashWorker(w)
  BY <1>4, WorkerSpool
<1>5. CASE UNCHANGED vars
  BY <1>5 DEF vars, SpoolInv, AtLeastOnce, Unpublished
<1> QED BY <1>1, <1>2, <1>3, <1>4, <1>5 DEF Next, Fault

LEMMA SpoolCorrect == Spec => [](TypeOK /\ SpoolInv)
<1>1. Init => TypeOK /\ SpoolInv
  BY InitType, InitSpool
<1>2. TypeOK /\ SpoolInv /\ [Next]_vars => (TypeOK /\ SpoolInv)'
  BY StepType, StepSpool
<1> QED BY <1>1, <1>2, PTL DEF Spec

\* No published job is lost: however many workers share the spool and whatever
\* crashes, failures and reclaims happen, its file is still there until the job
\* was carried out (search_queue.rs:170-203, search_index.rs:575-695).
THEOREM JobsAreNotLost == Spec => []AtLeastOnce
<1>1. TypeOK /\ SpoolInv => AtLeastOnce
  BY DEF SpoolInv
<1> QED BY <1>1, SpoolCorrect, PTL

-----------------------------------------------------------------------------
(* The refinement: every step publishes, serves, retires or sets aside one   *)
(* job of the abstract spool, or leaves it as it was.                        *)

LEMMA PromiseStutters ==
    ASSUME UNCHANGED <<pending \cup processing, executed, failed>>
    PROVE  UNCHANGED Promise!vars
  BY DEF Promise!vars

LEMMA WorkerPromise ==
    ASSUME TypeOK, SpoolInv, NEW w \in Worker,
           Drain(w) \/ QuarantineJob(w) \/ FailCall(w) \/ CrashWorker(w)
    PROVE  Promise!Next \/ UNCHANGED Promise!vars
<1>1. CASE \/ StartDrain(w) \/ ListPending(w) \/ EndDrain(w) \/ NextMessage(w)
           \/ ReadTopic(w) \/ ReadCommentIds(w) \/ ReadComment(w)
           \/ ReadParent(w) \/ WriteDoc(w) \/ FailCall(w) \/ ReadJob(w) \/ CrashWorker(w)
  <2>1. UNCHANGED <<pending, processing, failed, executed>>
    BY <1>1 DEF StartDrain, ListPending, EndDrain, NextMessage, ReadTopic,
                ReadCommentIds, ReadComment, ReadParent, WriteDoc, FailCall,
                ReadJob, CrashWorker, spool, ghosts
  <2> QED BY <2>1, PromiseStutters
<1>2. CASE ReclaimStaleQueueJob(w) \/ ClaimJob(w) \/ FinishErr(w)
  <2>1. UNCHANGED <<pending \cup processing, executed, failed>>
    BY <1>2 DEF ReclaimStaleQueueJob, ClaimJob, FinishErr, ghosts
  <2> QED BY <2>1, PromiseStutters
<1>3. CASE QuarantineJob(w)
  <2>1. /\ held[w] \in pending \cup processing
        /\ pending' \cup processing' = (pending \cup processing) \ {held[w]}
        /\ failed' = failed \cup {held[w]} /\ executed' = executed
    BY <1>3 DEF QuarantineJob, SpoolInv, ghosts
  <2> QED BY <2>1 DEF Promise!Next, Promise!SetAside
<1>4. CASE CompleteJob(w)
  <2>1. /\ executed' = executed \cup {held[w]}
        /\ UNCHANGED <<pending, processing, failed>>
        /\ held[w] \in published
    BY <1>4 DEF CompleteJob, SpoolInv, spool
  <2>2. CASE held[w] \in executed
    BY <2>1, <2>2, PromiseStutters
  <2>3. CASE held[w] \notin executed
    <3>1. held[w] \in (pending \cup processing) \cup failed
      BY <2>1, <2>3 DEF SpoolInv, AtLeastOnce
    <3> QED BY <2>1, <3>1 DEF Promise!Next, Promise!Serve
  <2> QED BY <2>2, <2>3
<1>5. CASE FinishOk(w)
  <2>1. /\ processing' = processing \ {held[w]} /\ held[w] \in executed
        /\ UNCHANGED <<pending, failed, executed>>
    BY <1>5 DEF FinishOk, SpoolInv, ghosts
  <2>2. CASE held[w] \notin processing
    BY <2>1, <2>2, PromiseStutters
  <2>3. CASE held[w] \in processing
    <3>1. pending' \cup processing' = (pending \cup processing) \ {held[w]}
      BY <2>1, <2>3 DEF SpoolInv
    <3> QED BY <2>1, <2>3, <3>1 DEF Promise!Next, Promise!Retire
  <2> QED BY <2>2, <2>3
<1> QED BY <1>1, <1>2, <1>3, <1>4, <1>5 DEF Drain

LEMMA StepPromise ==
    ASSUME TypeOK, SpoolInv, [Next]_vars
    PROVE  Promise!Next \/ UNCHANGED Promise!vars
<1>1. CASE \E h \in Handler : Request(h)
  <2>1. UNCHANGED <<pending, processing, failed, executed>>
    BY <1>1, RequestCommits DEF Commit, spool, ghosts
  <2> QED BY <2>1, PromiseStutters
<1>2. CASE \E h \in Handler : WriteTemporary(h) \/ AbandonEnqueue(h)
  <2>1. UNCHANGED <<pending, processing, failed, executed>>
    BY <1>2 DEF WriteTemporary, AbandonEnqueue, spool, ghosts
  <2> QED BY <2>1, PromiseStutters
<1>3. CASE \E h \in Handler : PublishJob(h)
  <2>1. PICK h \in Handler : PublishJob(h)
    BY <1>3
  <2>2. temporary[h] \notin (pending \cup processing) \cup executed \cup failed
    BY <2>1 DEF PublishJob, SpoolInv, Unpublished
  <2>3. /\ pending' \cup processing' = (pending \cup processing) \cup {temporary[h]}
        /\ UNCHANGED <<executed, failed>>
    BY <2>1 DEF PublishJob
  <2> QED BY <2>2, <2>3 DEF Promise!Next, Promise!Publish
<1>4. CASE \E j \in pending \cup processing : Age(j)
  BY <1>4, PromiseStutters DEF Age, ghosts
<1>5. CASE \E w \in Worker : Drain(w) \/ QuarantineJob(w) \/ FailCall(w) \/ CrashWorker(w)
  BY <1>5, WorkerPromise
<1>6. CASE UNCHANGED vars
  BY <1>6, PromiseStutters DEF vars
<1> QED BY <1>1, <1>2, <1>3, <1>4, <1>5, <1>6 DEF Next, Fault, Enqueue

\* The spool of files with its workers implements the durable spool: a job is
\* published once, leaves the spool only served or set aside, and is never
\* served before it was published (search_queue.rs, search_index.rs:575-695).
THEOREM SpoolImplementsPromise == Spec => DurableSpoolSpec
<1>1. Init => Promise!Init
  BY DEF Init, Promise!Init
<1>2. TypeOK /\ SpoolInv /\ [Next]_vars => [Promise!Next]_(Promise!vars)
  BY StepPromise
<1> QED BY <1>1, <1>2, SpoolCorrect, PTL DEF Spec, DurableSpoolSpec, Promise!Spec

-----------------------------------------------------------------------------
(* The index.  A document differs from the database only as long as somebody *)
(* is to index it again.  The invariant says who was told, what the worker   *)
(* still owes of the job it holds, and that what it has read and is no more  *)
(* current was announced again since.                                        *)

\* Somebody will be told, or has been told, to index the message once more.
Told(m) ==
    \/ m \in unspooled
    \/ \E h \in Handler : m \in Announced(h)
    \/ \E j \in Waiting : m \in Covers(j)

\* A comment is posted to a topic that is there, and who is not there has no document.
RowsSound ==
    /\ \A c \in Comment : row[c].ver > 0 => row[Parent[c]].ver > 0
    /\ \A m \in Message : row[m].ver = 0 => doc[m] = NoDoc

\* What a worker has in hand belongs to the job whose file it holds.
WorkSound(w) ==
    /\ phase[w] \in {"wait", "reclaim", "claim"} => held[w] = NoJob
    /\ phase[w] \notin {"wait", "reclaim", "claim"} => held[w] \in processing
    /\ phase[w] \in {"wait", "reclaim", "claim", "open", "topic", "ids"} => subs[w] = {}
    /\ phase[w] \in {"next", "topic", "ids", "comment", "parent", "write"} =>
        todo[w] \subseteq held[w].ids /\ subs[w] \subseteq Covers(held[w])
    /\ phase[w] \in {"topic", "ids"} => cur[w] \in held[w].ids
    /\ phase[w] \in {"topic", "ids", "comment", "parent", "write"} => cur[w] \in Covers(held[w])
    /\ phase[w] = "ids" => own[w] = top[w]
    /\ phase[w] \in {"ids", "parent", "write"} =>
        row[cur[w]].ver > 0 /\ (Told(cur[w]) \/ cur[w] \in Fresh(w))

StaleInv == RowsSound /\ (\A w \in Worker : WorkSound(w)) /\ StaleIsAccounted

\* One process drains the spool.
OneWorker == \A v, w \in Worker : v = w

LEMMA Kinds ==
    ASSUME NEW m \in Message
    PROVE  /\ TopicOf(m) \in Topic /\ TopicOf(m) \in Message /\ m # NoMsg
           /\ (m \in Topic => TopicOf(m) = m /\ m \notin Comment)
           /\ (m \in Comment => TopicOf(m) = Parent[m] /\ m \notin Topic)
  BY ParentAssumption, MessageAssumption DEF TopicOf, Message

LEMMA InitStale == ASSUME Init PROVE StaleInv
<1>1. RowsSound
  BY ParentAssumption DEF Init, RowsSound, Absent, Message
<1>2. \A w \in Worker : WorkSound(w)
  BY DEF Init, WorkSound
<1>3. StaleIsAccounted
  <2> SUFFICES ASSUME NEW m \in Message PROVE doc[m] = Desired(m)
    BY DEF StaleIsAccounted
  <2> QED
    BY Kinds DEF Init, Desired, DocOf, Absent
<1> QED
  BY <1>1, <1>2, <1>3 DEF StaleInv

\* Steps that leave the worker and the rows alone.
LEMMA WorkerRests ==
    ASSUME StaleInv, UNCHANGED <<row, doc, processing, phase, held, todo, subs, cur, own, top>>,
           \A m : Told(m) => Told(m)'
    PROVE  StaleInv'
<1>1. \A w \in Worker : /\ Unread(w)' = Unread(w) /\ Fresh(w)' = Fresh(w)
                        /\ Covers(held[w])' = Covers(held[w])
  BY DEF Unread, Fresh, Covers
<1>2. RowsSound'
  BY DEF StaleInv, RowsSound
<1>3. ASSUME NEW w \in Worker PROVE WorkSound(w)'
  <2>1. WorkSound(w) /\ (Told(cur[w]) => Told(cur[w])')
    BY DEF StaleInv
  <2> QED
    BY <1>1, <2>1 DEF WorkSound
<1>4. StaleIsAccounted'
  <2> SUFFICES ASSUME NEW m \in Message, doc'[m] # Desired(m)'
               PROVE  Told(m)' \/ \E w \in Worker : m \in Unread(w)' \cup Fresh(w)'
    BY DEF StaleIsAccounted, Told
  <2>1. doc[m] # Desired(m)
    BY DEF Desired
  <2>2. Told(m) \/ \E w \in Worker : m \in Unread(w) \cup Fresh(w)
    BY <2>1 DEF StaleInv, StaleIsAccounted, Told
  <2> QED
    BY <1>1, <2>2
<1> QED
  BY <1>2, <1>3, <1>4 DEF StaleInv

LEMMA EnqueueStale ==
    ASSUME TypeOK, SpoolInv, StaleInv, NEW h \in Handler, Enqueue(h) \/ AbandonEnqueue(h)
    PROVE  StaleInv'
<1>1. UNCHANGED <<row, doc, processing, phase, held, todo, subs, cur, own, top>>
  BY DEF Enqueue, WriteTemporary, PublishJob, AbandonEnqueue, database, spool, working
<1> SUFFICES ASSUME NEW m, Told(m) PROVE Told(m)'
  BY <1>1, WorkerRests
<1>2. CASE WriteTemporary(h)
  BY <1>1, <1>2 DEF WriteTemporary, Told, Waiting, Announced, spool
<1>3. CASE AbandonEnqueue(h)
  <2>1. /\ unsent' = [unsent EXCEPT ![h] = {}]
        /\ unspooled' = unspooled \cup Announced(h)
        /\ UNCHANGED <<pending, processing, failed, held, phase>>
    BY <1>3 DEF AbandonEnqueue, Announced, spool, working
  <2>2. \A g \in Handler \ {h} : Announced(g)' = Announced(g)
    BY <2>1 DEF TypeOK, Announced
  <2>3. Waiting' = Waiting
    BY <2>1 DEF Waiting
  <2> QED
    BY <2>1, <2>2, <2>3 DEF Told
<1>4. CASE PublishJob(h)
  <2> DEFINE j == temporary[h]
  <2>1. /\ pending' = pending \cup {j} /\ j # NoJob
        /\ unsent' = [unsent EXCEPT ![h] = @ \ {PayloadOf(j)}]
        /\ UNCHANGED <<processing, failed, held, phase, unspooled>>
    BY <1>4 DEF PublishJob, working
  <2>2. \A v \in Worker : held[v] # j
    <3>1. j.stamp \in 1 .. stamp /\ j \notin published
      BY <2>1 DEF SpoolInv, Unpublished
    <3> QED
      BY <2>1, <3>1 DEF SpoolInv, StaleInv, WorkSound
  <2>3. Waiting \cup {j} \subseteq Waiting'
    BY <2>1, <2>2 DEF Waiting
  <2>4. \A x : x \in Covers(PayloadOf(j)) => x \in Covers(j)
    BY DEF Covers, PayloadOf
  <2>5. \A g \in Handler \ {h} : Announced(g)' = Announced(g)
    BY <2>1 DEF TypeOK, Announced
  <2>6. \A x : x \in Announced(h) => x \in Announced(h)' \/ x \in Covers(PayloadOf(j))
    <3> SUFFICES ASSUME NEW x, NEW p \in unsent[h], x \in Covers(p), p # PayloadOf(j)
                 PROVE  x \in Announced(h)'
      BY DEF Announced
    <3>1. p \in unsent'[h]
      BY <2>1 DEF TypeOK
    <3>2. Announced(h)' = UNION {Covers(q) : q \in unsent'[h]}
      BY DEF Announced, Covers
    <3> QED
      BY <3>1, <3>2
  <2> HIDE DEF j
  <2> QED
    BY <2>1, <2>3, <2>4, <2>5, <2>6 DEF Told
<1> QED
  BY <1>2, <1>3, <1>4 DEF Enqueue

LEMMA AgeStale ==
    ASSUME StaleInv, NEW j, Age(j)
    PROVE  StaleInv'
<1>1. UNCHANGED <<row, doc, pending, processing, failed, unsent, unspooled, phase, held, todo, subs,
                  cur, own, top>>
  BY DEF Age, database, sender, working
<1>2. \A m : Told(m) => Told(m)'
  BY <1>1 DEF Told, Waiting, Announced
<1> QED
  BY <1>1, <1>2, WorkerRests

\* A commit announces all whose documents depend on what it changes.
LEMMA CommitStale ==
    ASSUME TypeOK, StaleInv, NEW h \in Handler, NEW ms \in SUBSET Message,
           NEW ps \in SUBSET Payload, Commit(h, ms, ps),
           \A m \in Message : m \in ms \/ TopicOf(m) \in ms =>
               (\E p \in ps : m \in Covers(p)) \/ (m \in Comment /\ m \notin ms /\ row[m].ver = 0),
           \A c \in Comment : c \in ms => row[Parent[c]].ver > 0
    PROVE  StaleInv'
<1>1. /\ unsent[h] = {} /\ unsent' = [unsent EXCEPT ![h] = ps]
      /\ UNCHANGED <<doc, pending, processing, failed, unspooled, phase, held, todo, subs, cur,
                     own, top>>
  BY DEF Commit, Idle, spool, working
<1>2. /\ \A m \in Message : row[m].ver \in Nat /\ row'[m].ver \in Nat /\ row'[m].ver >= row[m].ver
      /\ \A m \in Message \ ms : row'[m] = row[m]
  <2>1. PICK hide \in [ms -> BOOLEAN] :
          row' = [m \in Message |-> IF m \in ms
                     THEN [ver |-> row[m].ver + 1, hidden |-> hide[m]] ELSE row[m]]
    BY DEF Commit
  <2>2. \A m \in Message : row[m].ver \in Nat
    BY DEF TypeOK, Row
  <2>3. \A m \in ms : row'[m].ver = row[m].ver + 1
    BY <2>1
  <2>4. \A m \in Message \ ms : row'[m] = row[m]
    BY <2>1
  <2> QED
    BY <2>2, <2>3, <2>4
<1>3. Announced(h) = {} /\ Announced(h)' = UNION {Covers(p) : p \in ps}
      /\ \A g \in Handler \ {h} : Announced(g)' = Announced(g)
  BY <1>1 DEF Announced, TypeOK
<1>4. \A m : Told(m) => Told(m)'
  <2>1. Waiting' = Waiting
    BY <1>1 DEF Waiting
  <2> QED
    BY <1>1, <1>3, <2>1 DEF Told
<1>5. \A m : (\E p \in ps : m \in Covers(p)) => Told(m)'
  BY <1>3 DEF Told
<1>6. RowsSound'
  <2>1. ASSUME NEW c \in Comment, row'[c].ver > 0 PROVE row'[Parent[c]].ver > 0
    <3>1. c \in Message /\ Parent[c] \in Message
      BY ParentAssumption DEF Message
    <3>2. row[Parent[c]].ver > 0
      BY <1>2, <2>1, <3>1 DEF StaleInv, RowsSound
    <3> QED
      BY <1>2, <3>1, <3>2
  <2>2. ASSUME NEW m \in Message, row'[m].ver = 0 PROVE doc'[m] = NoDoc
    <3>1. row[m].ver = 0
      BY <1>2, <2>2
    <3> QED
      BY <1>1, <3>1 DEF StaleInv, RowsSound
  <2> QED
    BY <2>1, <2>2 DEF RowsSound
<1>7. \A w \in Worker : Unread(w)' = Unread(w) /\ Covers(held[w])' = Covers(held[w])
  BY <1>1 DEF Unread, Covers
<1>8. ASSUME NEW w \in Worker, cur[w] \in Fresh(w), row[cur[w]].ver > 0
      PROVE  Told(cur[w])' \/ cur[w] \in Fresh(w)'
  <2>1. cur[w] \in Message
    BY <1>8 DEF Fresh, TypeOK, Message
  <2>2. CASE cur[w] \in ms \/ TopicOf(cur[w]) \in ms
    BY <1>1, <1>2, <1>5, <1>8, <2>1, <2>2
  <2>3. CASE ~(cur[w] \in ms \/ TopicOf(cur[w]) \in ms)
    <3>1. row'[cur[w]] = row[cur[w]] /\ row'[TopicOf(cur[w])] = row[TopicOf(cur[w])]
      BY <1>2, <2>1, <2>3, Kinds
    <3>2. Fresh(w)' = Fresh(w)
      BY <1>1, <3>1 DEF Fresh
    <3> QED
      BY <1>1, <1>8, <3>2
  <2> QED
    BY <2>2, <2>3
<1>9. ASSUME NEW w \in Worker PROVE WorkSound(w)'
  <2>1. WorkSound(w)
    BY DEF StaleInv
  <2>2. ASSUME phase[w] \in {"ids", "parent", "write"}
        PROVE  row'[cur[w]].ver > 0 /\ (Told(cur[w])' \/ cur[w] \in Fresh(w)')
    <3>1. cur[w] \in Message
      BY <2>2 DEF TypeOK, Message
    <3>2. row[cur[w]].ver > 0 /\ (Told(cur[w]) \/ cur[w] \in Fresh(w))
      BY <2>1, <2>2 DEF WorkSound
    <3>3. Told(cur[w]) => Told(cur[w])'
      BY <1>1, <1>4
    <3> QED
      BY <1>2, <1>8, <3>1, <3>2, <3>3
  <2> QED
    BY <1>1, <1>7, <2>1, <2>2 DEF WorkSound
<1>10. StaleIsAccounted'
  <2> SUFFICES ASSUME NEW m \in Message, doc'[m] # Desired(m)'
               PROVE  Told(m)' \/ \E w \in Worker : m \in Unread(w)' \cup Fresh(w)'
    BY DEF StaleIsAccounted, Told
  <2>1. CASE m \in ms \/ TopicOf(m) \in ms
    <3>1. CASE \E p \in ps : m \in Covers(p)
      BY <1>5, <3>1
    <3>2. CASE m \in Comment /\ m \notin ms /\ row[m].ver = 0
      <4>1. row'[m].ver = 0 /\ doc[m] = NoDoc
        BY <1>2, <3>2 DEF StaleInv, RowsSound
      <4> QED
        BY <1>1, <4>1 DEF Desired, DocOf
    <3> QED
      BY <2>1, <3>1, <3>2
  <2>2. CASE ~(m \in ms \/ TopicOf(m) \in ms)
    <3>1. row'[m] = row[m] /\ row'[TopicOf(m)] = row[TopicOf(m)]
      BY <1>2, <2>2, Kinds
    <3>2. doc[m] # Desired(m)
      BY <1>1, <3>1 DEF Desired
    <3>3. Told(m) \/ \E w \in Worker : m \in Unread(w) \cup Fresh(w)
      BY <3>2 DEF StaleInv, StaleIsAccounted, Told
    <3>4. ASSUME NEW w \in Worker, m \in Fresh(w) PROVE m \in Fresh(w)'
      <4>1. m = cur[w]
        BY <3>4 DEF Fresh
      <4> QED
        BY <1>1, <3>1, <3>4, <4>1 DEF Fresh
    <3> QED
      BY <1>4, <1>7, <3>3, <3>4
  <2> QED
    BY <2>1, <2>2
<1> QED
  BY <1>6, <1>9, <1>10 DEF StaleInv

LEMMA RequestStale ==
    ASSUME TypeOK, StaleInv, NEW h \in Handler, Request(h)
    PROVE  StaleInv'
<1>a. \A c \in Comment : c \in Message /\ Parent[c] \in Topic /\ TopicOf(c) = Parent[c]
  BY ParentAssumption DEF Message, TopicOf
<1>b. \A t \in Topic : t \in Message /\ t \notin Comment /\ TopicOf(t) = t
  BY MessageAssumption DEF Message, TopicOf
<1>c. \A m \in Message : m \in Topic \/ m \in Comment
  BY DEF Message
<1>d. \A c \in Comment : row[c].ver = 0 \/ row[Parent[c]].ver > 0
  BY <1>a DEF StaleInv, RowsSound, TypeOK, Row
<1>1. ASSUME NEW t \in Topic, PostTopic(h, t) PROVE StaleInv'
  <2> DEFINE ps == {TopicPayload(t, FALSE)}
  <2>1. {t} \in SUBSET Message /\ ps \in SUBSET Payload /\ Commit(h, {t}, ps) /\ row[t].ver = 0
    BY <1>1, <1>b, PayloadTypes DEF PostTopic
  <2>2. \A m \in Message : m \in {t} \/ TopicOf(m) \in {t} =>
           (\E p \in ps : m \in Covers(p)) \/ (m \in Comment /\ m \notin {t} /\ row[m].ver = 0)
    BY <1>a, <1>b, <1>c, <1>d, <2>1 DEF Covers, TopicPayload
  <2>3. \A c \in Comment : c \in {t} => row[Parent[c]].ver > 0
    BY <1>b
  <2> HIDE DEF ps
  <2> QED
    BY <2>1, <2>2, <2>3, CommitStale
<1>2. ASSUME NEW t \in Topic, ChangeTopic(h, t) PROVE StaleInv'
  <2> DEFINE ps == {TopicPayload(t, TRUE)}
  <2>1. {t} \in SUBSET Message /\ ps \in SUBSET Payload /\ Commit(h, {t}, ps)
    BY <1>2, <1>b, PayloadTypes DEF ChangeTopic
  <2>2. \A m \in Message : m \in {t} \/ TopicOf(m) \in {t} => \E p \in ps : m \in Covers(p)
    BY <1>a, <1>b, <1>c DEF Covers, TopicPayload
  <2>3. \A c \in Comment : c \in {t} => row[Parent[c]].ver > 0
    BY <1>b
  <2> HIDE DEF ps
  <2> QED
    BY <2>1, <2>2, <2>3, CommitStale
<1>3. ASSUME NEW c \in Comment, ChangeComment(h, c) PROVE StaleInv'
  <2> DEFINE ps == {CommentsPayload({c})}
  <2>1. {c} \in SUBSET Message /\ Commit(h, {c}, ps) /\ row[Parent[c]].ver > 0
    BY <1>3, <1>a DEF ChangeComment
  <2>2. ps \in SUBSET Payload
    BY DEF CommentsPayload, Payload, Message
  <2>3. \A m \in Message : m \in {c} \/ TopicOf(m) \in {c} => \E p \in ps : m \in Covers(p)
    BY <1>a, <1>b, <1>c DEF Covers, CommentsPayload
  <2>4. \A b \in Comment : b \in {c} => row[Parent[b]].ver > 0
    BY <2>1
  <2> HIDE DEF ps
  <2> QED
    BY <2>1, <2>2, <2>3, <2>4, CommitStale
<1>4. ASSUME NEW ts \in SUBSET Topic, NEW cs \in SUBSET Comment, MassDelete(h, ts, cs) PROVE StaleInv'
  <2> DEFINE ps == {TopicPayload(t, TRUE) : t \in ts} \cup {CommentsPayload(cs)}
             ms == ts \cup cs
  <2>1. ms \in SUBSET Message /\ Commit(h, ms, ps) /\ \A m \in ms : row[m].ver > 0
    BY <1>4, <1>a, <1>b DEF MassDelete
  <2>2. ps \in SUBSET Payload
    <3>1. \A t \in ts : TopicPayload(t, TRUE) \in Payload
      BY DEF TopicPayload, Payload, Message
    <3>2. CommentsPayload(cs) \in Payload
      BY DEF CommentsPayload, Payload, Message
    <3> QED
      BY <3>1, <3>2
  <2>3. ASSUME NEW m \in Message, m \in ms \/ TopicOf(m) \in ms PROVE \E p \in ps : m \in Covers(p)
    <3>1. CASE m \in cs
      <4>1. m \in Covers(CommentsPayload(cs))
        BY <3>1 DEF Covers, CommentsPayload
      <4> QED
        BY <4>1
    <3>2. CASE m \notin cs
      <4>1. TopicOf(m) \in ts
        BY <1>a, <1>b, <1>c, <2>3, <3>2
      <4>2. m \in Covers(TopicPayload(TopicOf(m), TRUE))
        BY <1>a, <1>b, <1>c, <4>1 DEF Covers, TopicPayload
      <4> QED
        BY <4>1, <4>2
    <3> QED
      BY <3>1, <3>2
  <2>4. \A c \in Comment : c \in ms => row[Parent[c]].ver > 0
    BY <1>a, <1>d, <2>1
  <2> HIDE DEF ps, ms
  <2> QED
    BY <2>1, <2>2, <2>3, <2>4, CommitStale
<1>5. CASE ScheduleReindex(h)
  <2> DEFINE ps == {MonthPayload}
  <2>1. Commit(h, {}, ps) /\ {} \in SUBSET Message /\ ps \in SUBSET Payload
    BY <1>5 DEF ScheduleReindex, MonthPayload, Payload, Message
  <2> HIDE DEF ps
  <2> QED
    BY <2>1, CommitStale
<1> QED
  BY <1>1, <1>2, <1>3, <1>4, <1>5 DEF Request

-----------------------------------------------------------------------------
Files == pending \cup processing \cup failed
Works(w) == phase[w] \notin {"open", "requeue"}

\* What is not waiting is the file that the one worker works on.
LEMMA WaitingOfOne ==
    ASSUME OneWorker, NEW w \in Worker
    PROVE  /\ Waiting = Files \ (IF Works(w) THEN {held[w]} ELSE {})
           /\ Waiting' = Files' \ (IF Works(w)' THEN {held'[w]} ELSE {})
<1>1. Worker = {w}
  BY DEF OneWorker
<1> QED
  BY <1>1 DEF Waiting, Files, Works

\* The worker's step, when what was to be indexed is still, or need not be.
LEMMA WorkerGoesOn ==
    ASSUME OneWorker, StaleInv, NEW w \in Worker, UNCHANGED row, RowsSound', WorkSound(w)',
           \A m \in Message :
               \/ doc'[m] = doc[m] /\ (Told(m) \/ m \in Unread(w) \cup Fresh(w)
                                        => \/ doc[m] = Desired(m) \/ Told(m)'
                                           \/ m \in Unread(w)' \/ m \in Fresh(w)')
               \/ doc'[m] = Desired(m) \/ Told(m)' \/ m \in Unread(w)' \/ m \in Fresh(w)'
    PROVE  StaleInv'
<1>1. Worker = {w}
  BY DEF OneWorker
<1>2. \A v \in Worker : WorkSound(v)'
  BY <1>1
<1>3. StaleIsAccounted'
  <2> SUFFICES ASSUME NEW m \in Message, doc'[m] # Desired(m)'
               PROVE  Told(m)' \/ m \in Unread(w)' \cup Fresh(w)'
    BY <1>1 DEF StaleIsAccounted, Told
  <2>1. Desired(m)' = Desired(m)
    BY DEF Desired
  <2>2. doc[m] # Desired(m) => Told(m) \/ m \in Unread(w) \cup Fresh(w)
    BY <1>1 DEF StaleInv, StaleIsAccounted, Told
  <2> QED
    BY <2>1, <2>2
<1> QED
  BY <1>2, <1>3 DEF StaleInv

\* While the handlers rest, whoever was told is told while the files wait.
LEMMA ToldWhileWaiting ==
    ASSUME UNCHANGED <<unsent, unspooled>>, Waiting \subseteq Waiting'
    PROVE  \A m : Told(m) => Told(m)'
<1>1. \A h \in Handler : Announced(h)' = Announced(h)
  BY DEF Announced
<1> QED
  BY <1>1 DEF Told

\* What the worker still owes is part of its job.
LEMMA OwesOfItsJob ==
    ASSUME TypeOK, StaleInv, NEW w \in Worker
    PROVE  /\ Unread(w) \subseteq Covers(held[w])
           /\ Fresh(w) \subseteq Covers(held[w])
           /\ phase[w] \notin {"next", "topic", "ids", "comment", "parent", "write"} =>
                Unread(w) = {} /\ Fresh(w) = {}
<1>1. WorkSound(w)
  BY DEF StaleInv
<1>2. Fresh(w) \subseteq Covers(held[w])
  BY <1>1 DEF WorkSound, Fresh
<1>3. Unread(w) \subseteq Covers(held[w])
  BY <1>1 DEF WorkSound, Unread, Covers, CommentsOf
<1> QED
  BY <1>2, <1>3 DEF Unread, Fresh

LEMMA NoJobIsNoFile ==
    ASSUME SpoolInv
    PROVE  NoJob \notin Files
  BY DEF SpoolInv, Files, NoJob

\* A step of the worker that writes nothing and leaves every file waiting.
LEMMA WorkerReads ==
    ASSUME OneWorker, StaleInv, NEW w \in Worker, UNCHANGED <<row, doc, unsent, unspooled>>,
           Waiting \subseteq Waiting', WorkSound(w)',
           \A m \in Message : m \in Unread(w) \cup Fresh(w) =>
               doc[m] = Desired(m) \/ Told(m)' \/ m \in Unread(w)' \/ m \in Fresh(w)'
    PROVE  StaleInv'
<1>1. RowsSound'
  BY DEF StaleInv, RowsSound
<1>2. \A m : Told(m) => Told(m)'
  BY ToldWhileWaiting
<1> QED
  BY <1>1, <1>2, WorkerGoesOn

LEMMA BetweenJobsStale ==
    ASSUME OneWorker, TypeOK, SpoolInv, StaleInv, NEW w \in Worker,
           \/ StartDrain(w) \/ ReclaimStaleQueueJob(w) \/ ListPending(w) \/ EndDrain(w)
           \/ ClaimJob(w) \/ QuarantineJob(w)
    PROVE  StaleInv'
<1>0. WorkSound(w) /\ NoJob \notin Files
  BY NoJobIsNoFile DEF StaleInv
<1>1. ASSUME \/ StartDrain(w) \/ ReclaimStaleQueueJob(w) \/ ListPending(w) \/ EndDrain(w)
             \/ ClaimJob(w) /\ held' = held
      PROVE  /\ UNCHANGED <<row, doc, unsent, unspooled, held, subs, failed>>
             /\ Files' = Files /\ held[w] = NoJob
             /\ phase[w] \in {"wait", "reclaim", "claim"}
             /\ phase'[w] \in {"wait", "reclaim", "claim", "open"}
             /\ phase'[w] = "open" => held[w] # NoJob
  <2>1. CASE StartDrain(w)
    BY <1>0, <2>1 DEF StartDrain, WorkSound, database, spool, sender, working, TypeOK, Files
  <2>2. CASE ReclaimStaleQueueJob(w)
    BY <1>0, <2>2 DEF ReclaimStaleQueueJob, WorkSound, database, sender, working, TypeOK, Files
  <2>3. CASE ListPending(w)
    BY <1>0, <2>3 DEF ListPending, WorkSound, database, spool, sender, working, TypeOK, Files
  <2>4. CASE EndDrain(w)
    BY <1>0, <2>4 DEF EndDrain, WorkSound, database, spool, sender, working, TypeOK, Files
  <2>5. CASE ClaimJob(w) /\ held' = held
    BY <1>0, <2>5 DEF ClaimJob, WorkSound, database, sender, TypeOK, Files
  <2> QED
    BY <1>1, <2>1, <2>2, <2>3, <2>4, <2>5
<1>2. ASSUME ClaimJob(w), held' # held
      PROVE  /\ UNCHANGED <<row, doc, unsent, unspooled, subs, failed>>
             /\ Files' = Files /\ held[w] = NoJob /\ held'[w] \in processing'
             /\ phase[w] = "claim" /\ phase'[w] = "open"
  BY <1>0, <1>2 DEF ClaimJob, WorkSound, database, sender, TypeOK, Files
<1>3. ASSUME QuarantineJob(w)
      PROVE  /\ UNCHANGED <<row, doc, unsent, unspooled, subs>>
             /\ Files' = Files /\ held'[w] = NoJob
             /\ phase[w] = "open" /\ phase'[w] = "claim"
  BY <1>0, <1>3 DEF QuarantineJob, WorkSound, database, sender, TypeOK, Files
<1>4. CASE \/ StartDrain(w) \/ ReclaimStaleQueueJob(w) \/ ListPending(w) \/ EndDrain(w)
           \/ ClaimJob(w) /\ held' = held
  <2>1. Waiting \subseteq Waiting'
    BY <1>0, <1>1, <1>4, WaitingOfOne
  <2>2. WorkSound(w)'
    BY <1>0, <1>1, <1>4 DEF WorkSound
  <2>3. Unread(w) = {} /\ Fresh(w) = {}
    BY <1>1, <1>4 DEF Unread, Fresh
  <2> QED
    BY <1>1, <1>4, <2>1, <2>2, <2>3, WorkerReads
<1>5. CASE ClaimJob(w) /\ held' # held
  <2>1. Waiting \subseteq Waiting'
    BY <1>2, <1>5, WaitingOfOne DEF Works
  <2>2. WorkSound(w)'
    BY <1>0, <1>2, <1>5 DEF WorkSound
  <2>3. Unread(w) = {} /\ Fresh(w) = {}
    BY <1>2, <1>5 DEF Unread, Fresh
  <2> QED
    BY <1>2, <1>5, <2>1, <2>2, <2>3, WorkerReads
<1>6. CASE QuarantineJob(w)
  <2>1. Waiting \subseteq Waiting'
    BY <1>0, <1>3, <1>6, WaitingOfOne
  <2>2. WorkSound(w)'
    BY <1>0, <1>3, <1>6 DEF WorkSound
  <2>3. Unread(w) = {} /\ Fresh(w) = {}
    BY <1>3, <1>6 DEF Unread, Fresh
  <2> QED
    BY <1>3, <1>6, <2>1, <2>2, <2>3, WorkerReads
<1> QED
  BY <1>4, <1>5, <1>6

\* Whoever was told by the file that is opened is on the worker's list now.
LEMMA ReadJobStale ==
    ASSUME OneWorker, TypeOK, SpoolInv, StaleInv, NEW w \in Worker, ReadJob(w)
    PROVE  StaleInv'
<1>0. WorkSound(w)
  BY DEF StaleInv
<1>1. /\ UNCHANGED <<row, doc, unsent, unspooled, pending, processing, failed, held, subs>>
      /\ phase[w] = "open" /\ phase'[w] = "next" /\ todo'[w] = held[w].ids
      /\ held[w] \in processing /\ subs[w] = {}
  BY <1>0 DEF ReadJob, WorkSound, TypeOK, database, spool, sender
<1>2. RowsSound'
  BY <1>1 DEF StaleInv, RowsSound
<1>3. WorkSound(w)'
  BY <1>0, <1>1 DEF WorkSound
<1>4. \A m : m \in Covers(held[w]) => m \in Unread(w)'
  BY <1>1 DEF Unread, Covers
<1>5. Waiting = Files /\ Waiting' = Files \ {held[w]}
  <2>1. Files' = Files
    BY <1>1 DEF Files
  <2> QED
    BY <1>1, <2>1, WaitingOfOne DEF Works
<1>6. \A m : Told(m) => Told(m)' \/ m \in Unread(w)'
  <2>1. \A h \in Handler : Announced(h)' = Announced(h)
    BY <1>1 DEF Announced
  <2>2. \A j : Covers(j)' = Covers(j)
    BY DEF Covers
  <2> QED
    BY <1>1, <1>4, <1>5, <2>1, <2>2 DEF Told
<1>7. Unread(w) = {} /\ Fresh(w) = {}
  BY <1>1 DEF Unread, Fresh
<1> QED
  BY <1>1, <1>2, <1>3, <1>6, <1>7, WorkerGoesOn

\* While the worker goes through its job, no file moves.
Busy(p) == p \notin {"wait", "reclaim", "claim", "open", "requeue"}

LEMMA NoFileMoves ==
    ASSUME OneWorker, NEW w \in Worker, UNCHANGED <<pending, processing, failed, held>>,
           Busy(phase[w]), Busy(phase'[w])
    PROVE  Waiting \subseteq Waiting'
<1>1. Files' = Files
  BY DEF Files
<1> QED
  BY <1>1, WaitingOfOne DEF Works, Busy

LEMMA NextMessageStale ==
    ASSUME OneWorker, TypeOK, StaleInv, NEW w \in Worker, NextMessage(w)
    PROVE  StaleInv'
<1>0. WorkSound(w)
  BY DEF StaleInv
<1>1. UNCHANGED <<row, doc, unsent, unspooled, pending, processing, failed, held>>
      /\ phase[w] = "next" /\ held[w] \in processing
      /\ todo[w] \subseteq held[w].ids /\ subs[w] \subseteq Covers(held[w])
  BY <1>0 DEF NextMessage, WorkSound, database, spool, sender
<1>2. ASSUME NEW c \in subs[w], cur' = [cur EXCEPT ![w] = c],
             subs' = [subs EXCEPT ![w] = @ \ {c}],
             phase' = [phase EXCEPT ![w] = "comment"], todo' = todo
      PROVE  StaleInv'
  <2>1. cur'[w] = c /\ subs'[w] = subs[w] \ {c} /\ phase'[w] = "comment"
    BY <1>2 DEF TypeOK
  <2>2. Waiting \subseteq Waiting'
    BY <1>1, <2>1, NoFileMoves DEF Busy
  <2>3. WorkSound(w)'
    BY <1>0, <1>1, <1>2, <2>1 DEF WorkSound, Covers
  <2>4. Unread(w) \subseteq Unread(w)' /\ Fresh(w) = {}
    BY <1>1, <1>2, <2>1 DEF Unread, Fresh
  <2> QED
    BY <1>1, <2>2, <2>3, <2>4, WorkerReads
<1>3. ASSUME NEW m \in todo[w], subs[w] = {}, cur' = [cur EXCEPT ![w] = m],
             todo' = [todo EXCEPT ![w] = @ \ {m}],
             phase' = [phase EXCEPT ![w] = IF m \in Topic THEN "topic" ELSE "comment"],
             subs' = subs
      PROVE  StaleInv'
  <2>1. /\ cur'[w] = m /\ todo'[w] = todo[w] \ {m} /\ subs'[w] = {}
        /\ phase'[w] = IF m \in Topic THEN "topic" ELSE "comment"
    BY <1>3 DEF TypeOK
  <2>2. Waiting \subseteq Waiting'
    BY <1>1, <2>1, NoFileMoves DEF Busy
  <2>3. WorkSound(w)'
    BY <1>0, <1>1, <1>3, <2>1 DEF WorkSound, Covers
  <2>4. Unread(w) \subseteq Unread(w)' /\ Fresh(w) = {}
    BY <1>1, <1>3, <2>1, ParentAssumption DEF Unread, Fresh, CommentsOf
  <2> QED
    BY <1>1, <2>2, <2>3, <2>4, WorkerReads
<1> QED
  BY <1>2, <1>3 DEF NextMessage

\* A message whose row is not there has no document, and no comment of it has.
LEMMA AbsentIsCurrent ==
    ASSUME TypeOK, StaleInv, NEW m \in Message, row[m].ver = 0
    PROVE  /\ doc[m] = Desired(m)
           /\ \A c \in CommentsOf(m) : doc[c] = Desired(c)
<1>1. ASSUME NEW c \in Message, row[c].ver = 0 PROVE doc[c] = Desired(c)
  BY <1>1 DEF StaleInv, RowsSound, Desired, DocOf
<1>2. ASSUME NEW c \in CommentsOf(m) PROVE row[c].ver = 0 /\ c \in Message
  <2>1. c \in Comment /\ c \in Message /\ Parent[c] = m
    BY DEF CommentsOf, Message
  <2>2. row[c].ver \in Nat
    BY <2>1 DEF TypeOK, Row
  <2> QED
    BY <2>1, <2>2 DEF StaleInv, RowsSound
<1> QED
  BY <1>1, <1>2

LEMMA ReadTopicStale ==
    ASSUME OneWorker, TypeOK, StaleInv, NEW w \in Worker, ReadTopic(w)
    PROVE  StaleInv'
<1>0. WorkSound(w)
  BY DEF StaleInv
<1>1. /\ UNCHANGED <<row, doc, unsent, unspooled, pending, processing, failed, held, todo, subs, cur>>
      /\ phase[w] = "topic" /\ held[w] \in processing /\ cur[w] \in Topic
      /\ cur[w] \in Message /\ row[cur[w]].ver \in Nat
  BY <1>0 DEF ReadTopic, WorkSound, TypeOK, database, spool, sender, Message, Row
<1>2. CASE row[cur[w]].ver = 0
  <2>1. phase'[w] = "next" /\ own' = own /\ top' = top
    BY <1>2 DEF ReadTopic, TypeOK
  <2>2. Waiting \subseteq Waiting'
    BY <1>1, <2>1, NoFileMoves DEF Busy
  <2>3. WorkSound(w)'
    BY <1>0, <1>1, <2>1 DEF WorkSound, Covers
  <2>4. /\ Unread(w) \subseteq Unread(w)' \cup {cur[w]} \cup CommentsOf(cur[w])
        /\ Fresh(w) = {}
    BY <1>1, <2>1 DEF Unread, Fresh
  <2> QED
    BY <1>1, <1>2, <2>2, <2>3, <2>4, AbsentIsCurrent, WorkerReads
<1>3. CASE row[cur[w]].ver # 0
  <2>1. phase'[w] = "ids" /\ own'[w] = row[cur[w]] /\ top'[w] = row[cur[w]]
    BY <1>3 DEF ReadTopic, TypeOK
  <2>2. Waiting \subseteq Waiting'
    BY <1>1, <2>1, NoFileMoves DEF Busy
  <2>3. cur[w] \in Fresh(w)'
    BY <1>1, <2>1 DEF Fresh
  <2>4. WorkSound(w)'
    BY <1>0, <1>1, <1>3, <2>1, <2>3 DEF WorkSound, Covers
  <2>5. Unread(w) \subseteq Unread(w)' \cup {cur[w]} /\ Fresh(w) = {}
    BY <1>1, <2>1 DEF Unread, Fresh, CommentsOf
  <2> QED
    BY <1>1, <2>2, <2>3, <2>4, <2>5, WorkerReads
<1> QED
  BY <1>2, <1>3

LEMMA ReadCommentIdsStale ==
    ASSUME OneWorker, TypeOK, StaleInv, NEW w \in Worker, ReadCommentIds(w)
    PROVE  StaleInv'
<1>0. WorkSound(w)
  BY DEF StaleInv
<1>1. /\ UNCHANGED <<row, doc, unsent, unspooled, pending, processing, failed, held, todo, cur, own, top>>
      /\ phase[w] = "ids" /\ held[w] \in processing /\ cur[w] \in Topic
      /\ cur[w] \in held[w].ids /\ own[w] = top[w] /\ subs[w] = {}
      /\ phase'[w] = "write"
      /\ subs'[w] = IF held[w].withComments
                    THEN {c \in CommentsOf(cur[w]) : row[c].ver > 0} ELSE {}
  BY <1>0 DEF ReadCommentIds, WorkSound, TypeOK, database, spool, sender, reading
<1>2. Waiting \subseteq Waiting'
  BY <1>1, NoFileMoves DEF Busy
<1>3. Fresh(w) \subseteq Fresh(w)'
  BY <1>1, Kinds DEF Fresh, Message
<1>4. Told(cur[w]) => Told(cur[w])'
  <2>1. \A m : Told(m) => Told(m)'
    BY <1>1, <1>2, ToldWhileWaiting
  <2> QED
    BY <1>1, <2>1
<1>5. subs'[w] \subseteq Covers(held[w])
  BY <1>1 DEF Covers, CommentsOf
<1>6. WorkSound(w)'
  BY <1>0, <1>1, <1>3, <1>4, <1>5 DEF WorkSound, Covers
<1>7. ASSUME NEW m \in Message, m \in Unread(w) PROVE doc[m] = Desired(m) \/ m \in Unread(w)'
  <2>1. \/ m \in todo[w]
        \/ held[w].withComments /\ m \in {c \in Comment : Parent[c] \in todo[w]}
        \/ held[w].withComments /\ m \in CommentsOf(cur[w])
    BY <1>1, <1>7 DEF Unread
  <2>2. CASE \/ m \in todo[w]
             \/ held[w].withComments /\ m \in {c \in Comment : Parent[c] \in todo[w]}
    BY <1>1, <2>2 DEF Unread
  <2>3. CASE held[w].withComments /\ m \in CommentsOf(cur[w])
    <3>1. CASE row[m].ver > 0
      BY <1>1, <2>3, <3>1 DEF Unread
    <3>2. CASE ~(row[m].ver > 0)
      <4>1. row[m].ver = 0
        BY <3>2 DEF TypeOK, Row
      <4> QED
        BY <4>1, AbsentIsCurrent
    <3> QED
      BY <3>1, <3>2
  <2> QED
    BY <2>1, <2>2, <2>3
<1> QED
  BY <1>1, <1>2, <1>3, <1>6, <1>7, WorkerReads

LEMMA ReadCommentStale ==
    ASSUME OneWorker, TypeOK, StaleInv, NEW w \in Worker, ReadComment(w)
    PROVE  StaleInv'
<1>0. WorkSound(w)
  BY DEF StaleInv
<1>1. /\ UNCHANGED <<row, doc, unsent, unspooled, pending, processing, failed, held, todo, subs, cur, top>>
      /\ phase[w] = "comment" /\ held[w] \in processing
      /\ cur[w] \in Message /\ row[cur[w]].ver \in Nat
  BY <1>0 DEF ReadComment, WorkSound, TypeOK, database, spool, sender, Message, Row
<1>2. CASE row[cur[w]].ver = 0
  <2>1. phase'[w] = "next" /\ own' = own
    BY <1>2 DEF ReadComment, TypeOK
  <2>2. Waiting \subseteq Waiting'
    BY <1>1, <2>1, NoFileMoves DEF Busy
  <2>3. WorkSound(w)'
    BY <1>0, <1>1, <2>1 DEF WorkSound, Covers
  <2>4. Unread(w) \subseteq Unread(w)' \cup {cur[w]} /\ Fresh(w) = {}
    BY <1>1, <2>1 DEF Unread, Fresh
  <2> QED
    BY <1>1, <1>2, <2>2, <2>3, <2>4, AbsentIsCurrent, WorkerReads
<1>3. CASE row[cur[w]].ver # 0
  <2>1. phase'[w] = "parent" /\ own'[w] = row[cur[w]]
    BY <1>3 DEF ReadComment, TypeOK
  <2>2. Waiting \subseteq Waiting'
    BY <1>1, <2>1, NoFileMoves DEF Busy
  <2>3. cur[w] \in Fresh(w)'
    BY <1>1, <2>1 DEF Fresh
  <2>4. WorkSound(w)'
    BY <1>0, <1>1, <1>3, <2>1, <2>3 DEF WorkSound, Covers
  <2>5. Unread(w) \subseteq Unread(w)' \cup {cur[w]} /\ Fresh(w) = {}
    BY <1>1, <2>1 DEF Unread, Fresh
  <2> QED
    BY <1>1, <2>2, <2>3, <2>4, <2>5, WorkerReads
<1> QED
  BY <1>2, <1>3

LEMMA ReadParentStale ==
    ASSUME OneWorker, TypeOK, StaleInv, NEW w \in Worker, ReadParent(w)
    PROVE  StaleInv'
<1>0. WorkSound(w)
  BY DEF StaleInv
<1>1. /\ UNCHANGED <<row, doc, unsent, unspooled, pending, processing, failed, held, todo, subs, cur, own>>
      /\ phase[w] = "parent" /\ held[w] \in processing /\ cur[w] \in Comment
      /\ phase'[w] = "write" /\ top'[w] = row[Parent[cur[w]]]
  BY <1>0 DEF ReadParent, WorkSound, TypeOK, database, spool, sender
<1>2. Waiting \subseteq Waiting'
  BY <1>1, NoFileMoves DEF Busy
<1>3. Fresh(w) \subseteq Fresh(w)'
  BY <1>1 DEF Fresh, TopicOf
<1>4. Told(cur[w]) => Told(cur[w])'
  <2>1. \A m : Told(m) => Told(m)'
    BY <1>1, <1>2, ToldWhileWaiting
  <2> QED
    BY <1>1, <2>1
<1>5. WorkSound(w)'
  BY <1>0, <1>1, <1>3, <1>4 DEF WorkSound, Covers
<1>6. Unread(w) \subseteq Unread(w)'
  BY <1>1 DEF Unread
<1> QED
  BY <1>1, <1>2, <1>3, <1>5, <1>6, WorkerReads

LEMMA CompleteJobStale ==
    ASSUME OneWorker, TypeOK, StaleInv, NEW w \in Worker, CompleteJob(w)
    PROVE  StaleInv'
<1>0. WorkSound(w)
  BY DEF StaleInv
<1>1. /\ UNCHANGED <<row, doc, unsent, unspooled, pending, processing, failed, held, todo, subs, cur>>
      /\ phase[w] = "next" /\ subs[w] = {} /\ todo[w] = {} /\ held[w] \in processing
      /\ phase'[w] = "remove"
  BY <1>0 DEF CompleteJob, WorkSound, TypeOK, database, spool, sender, working
<1>2. Waiting \subseteq Waiting'
  BY <1>1, NoFileMoves DEF Busy
<1>3. WorkSound(w)'
  BY <1>0, <1>1 DEF WorkSound
<1>4. Unread(w) = {} /\ Fresh(w) = {}
  BY <1>1 DEF Unread, Fresh
<1> QED
  BY <1>1, <1>2, <1>3, <1>4, WorkerReads

LEMMA WriteDocStale ==
    ASSUME OneWorker, TypeOK, StaleInv, NEW w \in Worker, WriteDoc(w)
    PROVE  StaleInv'
<1>0. WorkSound(w)
  BY DEF StaleInv
<1>1. /\ UNCHANGED <<row, unsent, unspooled, pending, processing, failed, held, todo, subs, cur, own, top>>
      /\ phase[w] = "write" /\ held[w] \in processing /\ cur[w] \in Message
      /\ phase'[w] = "next" /\ doc' = Written(w)
  BY <1>0 DEF WriteDoc, WorkSound, TypeOK, spool, sender, working
<1>2. /\ \A m \in Message : m # cur[w] => doc'[m] = doc[m]
      /\ doc'[cur[w]] = DocOf(own[w], top[w])
  BY <1>1 DEF Written, TypeOK
<1>3. Waiting \subseteq Waiting'
  BY <1>1, NoFileMoves DEF Busy
<1>4. \A m : Told(m) => Told(m)'
  BY <1>1, <1>3, ToldWhileWaiting
<1>5. row[cur[w]].ver > 0 /\ (Told(cur[w]) \/ cur[w] \in Fresh(w))
  BY <1>0, <1>1 DEF WorkSound
<1>6. RowsSound'
  <2>1. row[cur[w]].ver # 0
    BY <1>1, <1>5 DEF TypeOK, Row
  <2> QED
    BY <1>1, <1>2, <2>1 DEF StaleInv, RowsSound
<1>7. WorkSound(w)'
  BY <1>0, <1>1 DEF WorkSound
<1>8. Unread(w)' = Unread(w) /\ Fresh(w) \subseteq {cur[w]}
  BY <1>1 DEF Unread, Fresh
<1>9. doc'[cur[w]] = Desired(cur[w]) \/ Told(cur[w])'
  <2>1. CASE Told(cur[w])
    <3>1. Told(cur[w])'
      BY <1>1, <1>4, <2>1
    <3> QED
      BY <3>1
  <2>2. CASE cur[w] \in Fresh(w)
    <3>1. own[w] = row[cur[w]] /\ top[w] = row[TopicOf(cur[w])]
      BY <1>1, <2>2 DEF Fresh
    <3> QED
      BY <1>2, <3>1 DEF Desired
  <2> QED
    BY <1>5, <2>1, <2>2
<1>10. ASSUME NEW m \in Message
       PROVE \/ doc'[m] = doc[m] /\ (Told(m) \/ m \in Unread(w) \cup Fresh(w)
                                        => \/ doc[m] = Desired(m) \/ Told(m)'
                                           \/ m \in Unread(w)' \/ m \in Fresh(w)')
             \/ doc'[m] = Desired(m) \/ Told(m)' \/ m \in Unread(w)' \/ m \in Fresh(w)'
  <2>1. CASE m = cur[w]
    <3>1. Told(cur[w])' => Told(m)'
      BY <1>1, <2>1
    <3> QED
      BY <1>9, <2>1, <3>1
  <2>2. CASE m # cur[w]
    BY <1>2, <1>4, <1>8, <2>2
  <2> QED
    BY <2>1, <2>2
<1> QED
  BY <1>1, <1>6, <1>7, <1>10, WorkerGoesOn

\* What becomes of the documents when a call fails or the process dies.
LEMMA MaybeWritten ==
    ASSUME TypeOK, StaleInv, NEW w \in Worker, UNCHANGED row,
           doc' \in IF phase[w] = "write" THEN {doc, Written(w)} ELSE {doc}
    PROVE  /\ RowsSound'
           /\ \A m \in Message : doc'[m] = doc[m] \/ (phase[w] = "write" /\ m = cur[w])
<1>0. WorkSound(w)
  BY DEF StaleInv
<1>1. CASE doc' = doc
  BY <1>1 DEF StaleInv, RowsSound
<1>2. CASE phase[w] = "write" /\ doc' = Written(w)
  <2>1. cur[w] \in Message /\ row[cur[w]].ver # 0
    BY <1>0, <1>2 DEF WorkSound, TypeOK, Row
  <2>2. \A m \in Message : m # cur[w] => doc'[m] = doc[m]
    BY <1>2, <2>1 DEF Written, TypeOK
  <2> QED
    BY <1>2, <2>1, <2>2 DEF StaleInv, RowsSound
<1> QED
  BY <1>1, <1>2

\* A job given up before its end waits again, and tells all it covers.
LEMMA GivenUpStale ==
    ASSUME OneWorker, TypeOK, SpoolInv, StaleInv, NEW w \in Worker,
           UNCHANGED <<row, unsent, unspooled>>,
           doc' \in IF phase[w] = "write" THEN {doc, Written(w)} ELSE {doc},
           WorkSound(w)', Files \subseteq Waiting'
    PROVE  StaleInv'
<1>0. WorkSound(w)
  BY DEF StaleInv
<1>1. Waiting \subseteq Waiting'
  BY WaitingOfOne
<1>2. \A m : Told(m) => Told(m)'
  BY <1>1, ToldWhileWaiting
<1>3. ASSUME phase[w] \in {"next", "topic", "ids", "comment", "parent", "write"},
             NEW m \in Covers(held[w])
      PROVE  Told(m)'
  <2>1. held[w] \in Waiting'
    BY <1>0, <1>3 DEF WorkSound, Files
  <2>2. \A j : Covers(j)' = Covers(j)
    BY DEF Covers
  <2> QED
    BY <2>1, <2>2 DEF Told
<1>4. \A m : m \in Unread(w) \cup Fresh(w) => Told(m)'
  BY <1>3, OwesOfItsJob
<1>5. ASSUME NEW m, phase[w] = "write", m = cur[w] PROVE Told(m)'
  BY <1>0, <1>3, <1>5 DEF WorkSound
<1>6. RowsSound' /\ \A m \in Message : doc'[m] = doc[m] \/ (phase[w] = "write" /\ m = cur[w])
  BY MaybeWritten
<1> QED
  BY <1>2, <1>4, <1>5, <1>6, WorkerGoesOn

LEMMA FailCallStale ==
    ASSUME OneWorker, TypeOK, SpoolInv, StaleInv, NEW w \in Worker, FailCall(w)
    PROVE  StaleInv'
<1>0. WorkSound(w)
  BY DEF StaleInv
<1>1. /\ UNCHANGED <<row, unsent, unspooled, pending, processing, failed, held, todo, subs, cur>>
      /\ phase'[w] = "requeue" /\ held[w] \in processing
      /\ doc' \in IF phase[w] = "write" THEN {doc, Written(w)} ELSE {doc}
  BY <1>0 DEF FailCall, WorkSound, TypeOK, spool, sender, working
<1>2. Files \subseteq Waiting'
  BY <1>1, WaitingOfOne DEF Files, Works
<1>3. WorkSound(w)'
  BY <1>0, <1>1 DEF WorkSound
<1> QED
  BY <1>1, <1>2, <1>3, GivenUpStale

LEMMA CrashWorkerStale ==
    ASSUME OneWorker, TypeOK, SpoolInv, StaleInv, NEW w \in Worker, CrashWorker(w)
    PROVE  StaleInv'
<1>1. /\ UNCHANGED <<row, unsent, unspooled, pending, processing, failed>>
      /\ phase'[w] = "wait" /\ held'[w] = NoJob /\ subs'[w] = {}
      /\ doc' \in IF phase[w] = "write" THEN {doc, Written(w)} ELSE {doc}
  BY DEF CrashWorker, ForgetWork, TypeOK, spool, sender
<1>2. Files \subseteq Waiting'
  BY <1>1, WaitingOfOne, NoJobIsNoFile DEF Files, Works
<1>3. WorkSound(w)'
  BY <1>1 DEF WorkSound
<1> QED
  BY <1>1, <1>2, <1>3, GivenUpStale

LEMMA FinishStale ==
    ASSUME OneWorker, TypeOK, SpoolInv, StaleInv, NEW w \in Worker, FinishOk(w) \/ FinishErr(w)
    PROVE  StaleInv'
<1>0. WorkSound(w) /\ NoJob \notin Files
  BY NoJobIsNoFile DEF StaleInv
<1>1. CASE FinishOk(w)
  <2>1. /\ UNCHANGED <<row, doc, unsent, unspooled, pending, failed>>
        /\ processing' = processing \ {held[w]}
        /\ phase[w] = "remove" /\ phase'[w] = "claim" /\ held'[w] = NoJob /\ subs'[w] = {}
    BY <1>0, <1>1 DEF FinishOk, ForgetWork, WorkSound, TypeOK, database, sender
  <2>2. Files \ {held[w]} \subseteq Files' /\ Files' \subseteq Files
    BY <2>1 DEF Files
  <2>3. Waiting \subseteq Waiting'
    BY <1>0, <2>1, <2>2, WaitingOfOne DEF Works
  <2>4. WorkSound(w)'
    BY <2>1 DEF WorkSound
  <2>5. Unread(w) = {} /\ Fresh(w) = {}
    BY <2>1 DEF Unread, Fresh
  <2> QED
    BY <2>1, <2>3, <2>4, <2>5, WorkerReads
<1>2. CASE FinishErr(w)
  <2>1. /\ UNCHANGED <<row, doc, unsent, unspooled, failed>>
        /\ pending' \cup processing' = pending \cup processing
        /\ phase[w] = "requeue" /\ phase'[w] = "wait" /\ held'[w] = NoJob /\ subs'[w] = {}
    BY <1>2 DEF FinishErr, ForgetWork, TypeOK, database, sender
  <2>2. Files' = Files
    BY <2>1 DEF Files
  <2>3. Waiting \subseteq Waiting'
    BY <1>0, <2>1, <2>2, WaitingOfOne
  <2>4. WorkSound(w)'
    BY <2>1 DEF WorkSound
  <2>5. Unread(w) = {} /\ Fresh(w) = {}
    BY <2>1 DEF Unread, Fresh
  <2> QED
    BY <2>1, <2>3, <2>4, <2>5, WorkerReads
<1> QED
  BY <1>1, <1>2

LEMMA StepStale == ASSUME OneWorker, TypeOK, SpoolInv, StaleInv, [Next]_vars PROVE StaleInv'
<1>1. CASE \E h \in Handler : Request(h)
  BY <1>1, RequestStale
<1>2. CASE \E h \in Handler : Enqueue(h) \/ AbandonEnqueue(h)
  BY <1>2, EnqueueStale
<1>3. CASE \E j \in pending \cup processing : Age(j)
  BY <1>3, AgeStale
<1>4. ASSUME NEW w \in Worker, Drain(w) \/ QuarantineJob(w) \/ FailCall(w) \/ CrashWorker(w)
      PROVE  StaleInv'
  <2>1. CASE \/ StartDrain(w) \/ ReclaimStaleQueueJob(w) \/ ListPending(w) \/ EndDrain(w)
             \/ ClaimJob(w) \/ QuarantineJob(w)
    BY <2>1, BetweenJobsStale
  <2>2. CASE ReadJob(w)
    BY <2>2, ReadJobStale
  <2>3. CASE NextMessage(w) \/ ReadTopic(w) \/ ReadCommentIds(w)
    BY <2>3, NextMessageStale, ReadTopicStale, ReadCommentIdsStale
  <2>4. CASE ReadComment(w) \/ ReadParent(w) \/ CompleteJob(w)
    BY <2>4, ReadCommentStale, ReadParentStale, CompleteJobStale
  <2>5. CASE WriteDoc(w)
    BY <2>5, WriteDocStale
  <2>6. CASE FinishOk(w) \/ FinishErr(w)
    BY <2>6, FinishStale
  <2>7. CASE FailCall(w) \/ CrashWorker(w)
    BY <2>7, FailCallStale, CrashWorkerStale
  <2> QED
    BY <1>4, <2>1, <2>2, <2>3, <2>4, <2>5, <2>6, <2>7 DEF Drain
<1>5. CASE UNCHANGED vars
  <2>1. UNCHANGED <<row, doc, pending, processing, failed, unsent, unspooled, phase, held, todo, subs,
                    cur, own, top>>
    BY <1>5 DEF vars
  <2>2. \A m : Told(m) => Told(m)'
    BY <2>1 DEF Told, Waiting, Announced
  <2> QED
    BY <2>1, <2>2, WorkerRests
<1> QED
  BY <1>1, <1>2, <1>3, <1>4, <1>5 DEF Next, Fault

\* With one process draining the spool, a document differs from the database
\* only while a handler, a waiting job or the worker still accounts for it, or
\* an enqueue failed after its commit: whatever the failures, the crashes and
\* the changes committed between two reads of a job (search_index.rs:418-530
\* and 575-760; SearchQueue.tla says what accounts for a document).
THEOREM StaleStaysAccounted ==
    ASSUME OneWorker
    PROVE  Spec => []StaleIsAccounted
<1>1. Init => TypeOK /\ SpoolInv /\ StaleInv
  BY InitType, InitSpool, InitStale
<1>2. TypeOK /\ SpoolInv /\ StaleInv /\ [Next]_vars => (TypeOK /\ SpoolInv /\ StaleInv)'
  BY StepType, StepSpool, StepStale
<1>3. StaleInv => StaleIsAccounted
  BY DEF StaleInv
<1> QED
  BY <1>1, <1>2, <1>3, PTL DEF Spec
=============================================================================
