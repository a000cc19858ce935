---------------------------- MODULE CommentEdits ----------------------------
(***************************************************************************)
(* Edits of one comment by its author, in several windows or by a form     *)
(* that is sent twice, while it is answered and deleted.  The text that    *)
(* goes to the history is the one that was read before the transaction;    *)
(* what is counted is counted in it, once the row is locked.               *)
(***************************************************************************)
EXTENDS Integers, FiniteSets

CONSTANTS
    Text, First,    \* texts, and the one the comment was posted with
    Req, Nobody,
    MaxEdits        \* bound: rows of edit_info

EditConstants == First \in Text /\ Nobody \notin Req /\ MaxEdits \in Nat

VARIABLES
    text, deleted, edit_count,  \* the comment: committed
    edits,          \* rows of edit_info: [id, old]
    answered,       \* it has a live reply
    holder,         \* the transaction that holds the row of msgbase
    pc, old, new,   \* what each request does next, the text it read, its form
    late,           \* history: its comment was answered, deleted or edited since
    shown,          \* history: texts that were committed
    unrecorded      \* history: texts that an edit which had not read them replaced

vars == <<text, deleted, edit_count, edits, answered, holder, pc, old, new, late,
          shown, unrecorded>>

Init ==
    /\ text = First /\ deleted = FALSE /\ edit_count = 0 /\ edits = {} /\ answered = FALSE
    /\ holder = Nobody
    /\ pc = [r \in Req |-> "idle"] /\ old = [r \in Req |-> First] /\ new = [r \in Req |-> First]
    /\ late = [r \in Req |-> {}] /\ shown = {First} /\ unrecorded = {}

Goto(r, step) == pc' = [pc EXCEPT ![r] = step]
Notices(what) == late' = [q \in Req |-> IF pc[q] = "idle" THEN {} ELSE late[q] \cup {what}]
Done(r) ==
    /\ pc' = [pc EXCEPT ![r] = "idle"]
    /\ old' = [old EXCEPT ![r] = First] /\ new' = [new EXCEPT ![r] = First]

\* optCommentEditEligibilityError, of what stays of the author's own comment.
Eligible == ~deleted /\ ~answered

\* edit_comment up to the transaction: the row and the checks.
Read(r, t) ==
    /\ pc[r] = "idle" /\ Eligible
    /\ Goto(r, "update")
    /\ old' = [old EXCEPT ![r] = text] /\ new' = [new EXCEPT ![r] = t]
    /\ late' = [late EXCEPT ![r] = {}]
    /\ UNCHANGED <<text, deleted, edit_count, edits, answered, holder, shown, unrecorded>>

\* UPDATE msgbase waits for the row.
Update(r) ==
    /\ pc[r] = "update" /\ holder = Nobody
    /\ holder' = r
    /\ Goto(r, "record")
    /\ UNCHANGED <<text, deleted, edit_count, edits, answered, old, new, late, shown, unrecorded>>

\* optOldMessage: nothing is recorded when the form has the text that was read.
Recorded(r) ==
    IF old[r] = new[r] THEN {} ELSE {[id |-> Cardinality(edits) + 1, old |-> old[r]]}

\* Mutant: the rows are counted before the new one is inserted.
CountedFirst(r) == Cardinality(edits)

\* count(*) after the INSERT: the committed rows and the own one.
Counted(r) == Cardinality(edits \cup Recorded(r))

Commit(r) ==
    /\ pc[r] = "record" /\ Cardinality(edits) < MaxEdits
    /\ text' = new[r] /\ shown' = shown \cup {new[r]}
    /\ edits' = edits \cup Recorded(r)
    /\ edit_count' = IF Recorded(r) = {} THEN edit_count ELSE Counted(r)
    /\ unrecorded' = IF "edited" \in late[r] THEN unrecorded \cup {text} ELSE unrecorded
    /\ holder' = Nobody /\ Done(r) /\ Notices("edited")
    /\ UNCHANGED <<deleted, answered>>

Abort(r) ==
    /\ pc[r] \in {"update", "record"}
    /\ holder' = IF holder = r THEN Nobody ELSE holder
    /\ Done(r)
    /\ UNCHANGED <<text, deleted, edit_count, edits, answered, late, shown, unrecorded>>

Answer ==
    /\ ~answered /\ ~deleted
    /\ answered' = TRUE /\ Notices("answered")
    /\ UNCHANGED <<text, deleted, edit_count, edits, holder, pc, old, new, shown, unrecorded>>

Delete ==
    /\ ~deleted
    /\ deleted' = TRUE /\ Notices("deleted")
    /\ UNCHANGED <<text, edit_count, edits, answered, holder, pc, old, new, shown, unrecorded>>

Next ==
    \/ \E r \in Req :
        \/ \E t \in Text : Read(r, t)
        \/ Update(r) \/ Commit(r) \/ Abort(r)
    \/ Answer \/ Delete

Spec == Init /\ [][Next]_vars

(***************************************************************************)
(* Properties                                                              *)
(***************************************************************************)

\* Every variable keeps its type, and edit_count is the number of rows of the
\* history, however edits overlap.
EditsTypeOK ==
    /\ text \in Text /\ edits \subseteq [id : 1..MaxEdits, old : Text]
    /\ holder = Nobody \/ pc[holder] = "record"
    /\ \A d, e \in edits : d.id = e.id => d = e

\* The number of edits a reader is shown is the length of the history.
EditCountExact == edit_count = Cardinality(edits)

\* Whatever the comment has said is its text or in the history: only a text
\* that the edit which replaced it had not read may be lost.
TextsKept == shown \subseteq {text} \cup {e.old : e \in edits} \cup unrecorded

\* The history is complete, and counted.
HistoryConsistent == EditsTypeOK /\ EditCountExact /\ TextsKept

\* A comment that was answered or deleted changes no more, except by a request
\* that had found it otherwise.
ChangesUnanswered ==
    text' # text /\ (answered \/ deleted)
    => \E r \in Req : /\ pc[r] = "record" /\ pc'[r] = "idle"
                      /\ {"answered", "deleted"} \cap late[r] # {}
=============================================================================
