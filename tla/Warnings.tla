------------------------------ MODULE Warnings ------------------------------
(***************************************************************************)
(* Warnings about one topic and its comments, and topics.open_warnings,    *)
(* which hides a topic with more than two from anonymous readers.  Every   *)
(* change of a warning of the topic itself recounts the number in the same *)
(* transaction, with one UPDATE whose subquery reads the snapshot of the   *)
(* statement: a statement that waits for the row of the topic writes the   *)
(* number it counted before it waited.  The statistics job counts anew     *)
(* where the number is not zero, by another rule: it leaves out warnings   *)
(* that are older than twelve hours and those of authors of a low score.   *)
(*                                                                         *)
(* A warning is about the rules, which counts, or another one: a hint      *)
(* about the topic, which is recounted in vain, or one about a comment,    *)
(* which is not.  Who may warn of what is left out.                        *)
(***************************************************************************)
EXTENDS Integers, FiniteSets

CONSTANTS
    Author, Req,
    Nobody,
    Hourly,         \* I_MAX_WARNINGS_PER_HOUR
    MaxWarnings     \* bound: ids drawn

ASSUME WarningAssumption ==
    /\ Hourly \in Nat \ {0} /\ MaxWarnings \in Nat
    /\ IsFiniteSet(Author) /\ IsFiniteSet(Req)
    /\ Nobody \notin Author \cup Req

VARIABLES
    warnings,       \* committed rows of message_warnings
    open_warnings,  \* the committed column
    recent,         \* rows of each author of the last hour
    last,           \* message_warnings_id_seq
    row,            \* who holds the row of the topic, and what is written there
    pc, arg,        \* what each request does next, and with which warning
    seen,           \* what the recount of each request has counted
    job,            \* what the statistics job has counted, and left out
    missed,         \* history: the number in the column was counted too early
    left            \* history: the warnings that this number leaves out

vars == <<warnings, open_warnings, recent, last, row, pc, arg, seen, job, missed, left>>

Warning == [id : 1..MaxWarnings, author : Author, rule : BOOLEAN, open : BOOLEAN]
Free == [by |-> Nobody, count |-> 0, missed |-> FALSE]
NoJob == [counted |-> FALSE, count |-> 0, out |-> {}]
NoArg == [id |-> 0, author |-> Nobody, rule |-> FALSE]

Init ==
    /\ warnings = {} /\ open_warnings = 0 /\ last = 0
    /\ recent = [a \in Author |-> 0]
    /\ row = Free
    /\ pc = [r \in Req |-> "idle"] /\ arg = [r \in Req |-> NoArg]
    /\ seen = [r \in Req |-> 0]
    /\ job = NoJob
    /\ missed = FALSE /\ left = {}

Goto(r, step) == pc' = [pc EXCEPT ![r] = step]
Forgets(r) ==
    /\ Goto(r, "idle")
    /\ arg' = [arg EXCEPT ![r] = NoArg] /\ seen' = [seen EXCEPT ![r] = 0]

\* enCreate up to the transaction.
Check(r, a, rule) ==
    /\ pc[r] = "idle" /\ recent[a] < Hourly
    /\ Goto(r, "insert")
    /\ arg' = [arg EXCEPT ![r] = [id |-> 0, author |-> a, rule |-> rule]]
    /\ UNCHANGED <<warnings, open_warnings, recent, last, row, seen, job, missed, left>>

\* iCreate: the row, with its events; the number only for the topic's own.
Insert(r) ==
    /\ pc[r] = "insert" /\ last < MaxWarnings
    /\ last' = last + 1
    /\ arg' = [arg EXCEPT ![r].id = last + 1]
    /\ Goto(r, "count") \/ (~arg[r].rule /\ Goto(r, "commit"))
    /\ UNCHANGED <<warnings, open_warnings, recent, row, seen, job, missed, left>>

\* sClear finds the warning; vClear then closes it if nobody has yet.
ClearCheck(r, w) ==
    /\ pc[r] = "idle"
    /\ Goto(r, "close")
    /\ arg' = [arg EXCEPT ![r] = [id |-> w.id, author |-> Nobody, rule |-> w.rule]]
    /\ UNCHANGED <<warnings, open_warnings, recent, last, row, seen, job, missed, left>>

\* Of two that close the same row the second one waits, and finds it closed.
Closing(id) ==
    \E r \in Req : /\ pc[r] \in {"count", "write", "commit"}
                   /\ arg[r].author = Nobody /\ arg[r].id = id

\* Mutant: closing does not recount.
CloseQuietly(r) ==
    /\ pc[r] = "close" /\ ~Closing(arg[r].id)
    /\ Goto(r, "commit")
    /\ UNCHANGED <<warnings, open_warnings, recent, last, row, arg, seen, job, missed, left>>

Close(r) ==
    /\ pc[r] = "close" /\ ~Closing(arg[r].id)
    /\ Goto(r, "count") \/ (~arg[r].rule /\ Goto(r, "commit"))
    /\ UNCHANGED <<warnings, open_warnings, recent, last, row, arg, seen, job, missed, left>>

\* The rows that the transaction of r sees: the committed ones and its own.
After(r) ==
    IF arg[r].author = Nobody
    THEN {[w EXCEPT !.open = w.open /\ w.id # arg[r].id] : w \in warnings}
    ELSE warnings \cup {[id |-> arg[r].id, author |-> arg[r].author, rule |-> arg[r].rule,
                         open |-> TRUE]}

Count(rows) == Cardinality({w.author : w \in {v \in rows : v.open /\ v.rule}})

\* vUpdateTopicWarnings: the subquery ...
Recount(r) ==
    /\ pc[r] = "count"
    /\ seen' = [seen EXCEPT ![r] = Count(After(r))]
    /\ Goto(r, "write")
    /\ UNCHANGED <<warnings, open_warnings, recent, last, row, arg, job, missed, left>>

\* ... and the row, once nobody else holds it.
WriteCount(r) ==
    /\ pc[r] = "write" /\ row.by = Nobody
    /\ row' = [by |-> r, count |-> seen[r], missed |-> seen[r] # Count(After(r))]
    /\ Goto(r, "commit")
    /\ UNCHANGED <<warnings, open_warnings, recent, last, arg, seen, job, missed, left>>

Commit(r) ==
    /\ pc[r] = "commit"
    /\ warnings' = After(r)
    /\ recent' = IF arg[r].author = Nobody THEN recent ELSE [recent EXCEPT ![arg[r].author] = @ + 1]
    /\ IF row.by = r
       THEN /\ open_warnings' = row.count /\ row' = Free
            /\ missed' = row.missed /\ left' = {}
       ELSE UNCHANGED <<open_warnings, missed, left, row>>
    /\ Forgets(r)
    /\ UNCHANGED <<last, job>>

Abort(r) ==
    /\ pc[r] \in {"count", "write", "commit"}
    /\ row' = IF row.by = r THEN Free ELSE row
    /\ Forgets(r)
    /\ UNCHANGED <<warnings, open_warnings, recent, last, job, missed, left>>

\* The oldest warning of the author leaves the hour.
HourPasses(a) ==
    /\ recent[a] > 0
    /\ recent' = [recent EXCEPT ![a] = @ - 1]
    /\ UNCHANGED <<warnings, open_warnings, last, row, pc, arg, seen, job, missed, left>>

-----------------------------------------------------------------------------
(* The statistics job; an advisory lock keeps it from running twice at once. *)

Kept(rows, out) == {w \in rows : w.id \notin out}

\* vUpdateStatistics: the condition and the subquery, which leaves out what is
\* too old and whose author has lost his score; both change from outside ...
JobCount(out) ==
    /\ ~job.counted /\ open_warnings > 0
    /\ job' = [counted |-> TRUE, count |-> Count(Kept(warnings, out)), out |-> out]
    /\ UNCHANGED <<warnings, open_warnings, recent, last, row, pc, arg, seen, missed, left>>

\* ... and the row, once nobody else holds it, if the condition holds there still.
JobWrite ==
    /\ job.counted /\ row.by = Nobody
    /\ IF open_warnings > 0
       THEN /\ open_warnings' = job.count /\ left' = job.out
            /\ missed' = (job.count # Count(Kept(warnings, job.out)))
       ELSE UNCHANGED <<open_warnings, missed, left>>
    /\ job' = NoJob
    /\ UNCHANGED <<warnings, recent, last, row, pc, arg, seen>>

JobFails ==
    /\ job.counted
    /\ job' = NoJob
    /\ UNCHANGED <<warnings, open_warnings, recent, last, row, pc, arg, seen, missed, left>>

Next ==
    \/ \E r \in Req :
        \/ \E a \in Author, rule \in BOOLEAN : Check(r, a, rule)
        \/ \E w \in warnings : ClearCheck(r, w)
        \/ Insert(r) \/ Close(r) \/ Recount(r) \/ WriteCount(r) \/ Commit(r) \/ Abort(r)
    \/ \E a \in Author : HourPasses(a)
    \/ \E out \in SUBSET {w.id : w \in {v \in warnings : v.open /\ v.rule}} : JobCount(out)
    \/ JobWrite \/ JobFails

Spec == Init /\ [][Next]_vars

(***************************************************************************)
(* Properties                                                              *)
(***************************************************************************)

\* Every variable keeps its type; the row of the topic is held by a request
\* that has something to commit; the number never exceeds the authors.
WarningsTypeOK ==
    /\ warnings \subseteq Warning /\ last \in 0..MaxWarnings
    /\ recent \in [Author -> 0..MaxWarnings]
    /\ open_warnings \in 0..Cardinality(Author) /\ missed \in BOOLEAN
    /\ left \subseteq 1..MaxWarnings /\ job.out \subseteq 1..MaxWarnings
    /\ row.by = Nobody \/ pc[row.by] = "commit"
    /\ pc \in [Req -> {"idle", "insert", "close", "count", "write", "commit"}]

\* The number that hides the topic is that of the authors with an open
\* complaint, but for the complaints that the statistics job has left out since
\* a request counted last, and unless whoever counted last waited for another
\* transaction that changed the complaints.
OpenWarningsExact == missed \/ open_warnings = Count(Kept(warnings, left))

\* The hourly limit is read before the transaction: requests that overlap pass
\* it together, so it is exceeded by one warning less than there are of them.
HourlyHolds == \A a \in Author : recent[a] <= Hourly - 1 + Cardinality(Req)

\* What the topic shows of its complaints, and what the limit counts.
WarningsConsistent == WarningsTypeOK /\ OpenWarningsExact /\ HourlyHolds

\* A closed warning is not opened again, and none is lost.
KeepsWarnings == \A w \in warnings : \E v \in warnings' : v.id = w.id /\ (v.open => w.open)
=============================================================================
