-------------------------------- MODULE Polls --------------------------------
(***************************************************************************)
(* Voting in one poll while it is edited.  That a user has not voted yet   *)
(* is read in the transaction but locks nothing; the unique index knows    *)
(* the variant, so it stops a vote for the same variant only.  A variant   *)
(* with votes cannot be deleted: the foreign key makes the edit fail.      *)
(***************************************************************************)
EXTENDS Integers, FiniteSets, FiniteSetsExt

CONSTANTS
    User, Req,
    MaxVariants,    \* bound: ids drawn from votes_id
    MaxBallots      \* bound: requests to vote

PollConstants == IsFiniteSet(User) /\ MaxVariants \in Nat \ {0, 1} /\ MaxBallots \in Nat

VARIABLES
    variants, votes,    \* committed rows of polls_variants, and their counters
    multiselect,
    rows,               \* committed rows of vote_users
    drawn,
    voter, ballot,      \* of each request: who, and the variants still to insert
    mine,               \* the rows that its transaction has inserted
    pc,
    asked,              \* requests to vote so far
    overlaps,           \* history: requests whose user has voted since they counted
    twice,              \* history: users who voted by two requests that overlapped
    plural,             \* history: users with a ballot of several variants
    edit                \* the edit: variants to delete and those it has deleted

vars == <<variants, votes, multiselect, rows, drawn, voter, ballot, mine, pc, asked,
          overlaps, twice, plural, edit>>

Variant == 1..MaxVariants
NoEdit == [on |-> FALSE, todo |-> {}, gone |-> {}, multi |-> FALSE, new |-> 0]

\* save_poll, of a topic that is posted.
Init ==
    /\ variants = {1, 2} /\ drawn = 2
    /\ votes = [v \in Variant |-> 0] /\ rows = {}
    /\ multiselect \in BOOLEAN
    /\ voter \in [Req -> User]      \* each window belongs to somebody
    /\ ballot = [r \in Req |-> {}] /\ mine = [r \in Req |-> {}] /\ pc = [r \in Req |-> "idle"]
    /\ asked = 0 /\ overlaps = {} /\ twice = {} /\ plural = {}
    /\ edit = NoEdit

Done(r) ==
    /\ pc' = [pc EXCEPT ![r] = "idle"]
    /\ ballot' = [ballot EXCEPT ![r] = {}] /\ mine' = [mine EXCEPT ![r] = {}]

\* vValidateVoteRequest, by what VOTE_TOPIC_SQL read before the transaction.
Valid(chosen) == chosen # {} /\ (multiselect \/ Cardinality(chosen) = 1)

Ask(r, chosen) ==
    /\ pc[r] = "idle" /\ asked < MaxBallots /\ Valid(chosen)
    /\ asked' = asked + 1
    /\ ballot' = [ballot EXCEPT ![r] = chosen]
    /\ pc' = [pc EXCEPT ![r] = "count"]
    /\ UNCHANGED <<variants, votes, multiselect, rows, drawn, voter, mine, overlaps, twice,
                   plural, edit>>

Voted(r) == \E v \in Variant : <<voter[r], v>> \in rows

\* already_voted and valid_count.
Count(r) ==
    /\ pc[r] = "count"
    /\ IF Voted(r) \/ ~(ballot[r] \subseteq variants)
       THEN Done(r)
       ELSE pc' = [pc EXCEPT ![r] = "insert"] /\ UNCHANGED <<ballot, mine>>
    /\ overlaps' = overlaps \ {r}
    /\ UNCHANGED <<variants, votes, multiselect, rows, drawn, voter, asked, twice, plural, edit>>

\* The row of a variant is held by who has voted for it or deletes it.
Held(v) == v \in edit.gone \/ \E r \in Req : \E u \in User : <<u, v>> \in mine[r]

\* Mutant: the counter is raised whether a row was inserted or not.
RaiseAlways(r, v) == TRUE

\* rows_affected of INSERT ... ON CONFLICT DO NOTHING.
Raise(r, v) == <<voter[r], v>> \notin rows

\* A row for each variant, in their order; a deleted variant ends it.
Insert(r) ==
    LET v == Min(ballot[r]) IN
    /\ pc[r] = "insert" /\ ballot[r] # {} /\ ~Held(v)
    /\ IF v \notin variants
       THEN Done(r)
       ELSE /\ ballot' = [ballot EXCEPT ![r] = @ \ {v}]
            /\ mine' = [mine EXCEPT ![r] = IF Raise(r, v) THEN @ \cup {<<voter[r], v>>} ELSE @]
            /\ pc' = pc
    /\ UNCHANGED <<variants, votes, multiselect, rows, drawn, voter, asked, overlaps, twice,
                   plural, edit>>

Commit(r) ==
    /\ pc[r] = "insert" /\ ballot[r] = {}
    /\ rows' = rows \cup mine[r]
    /\ votes' = [v \in Variant |-> IF <<voter[r], v>> \in mine[r] THEN votes[v] + 1 ELSE votes[v]]
    /\ overlaps' = (overlaps \cup {q \in Req : voter[q] = voter[r] /\ pc[q] = "insert"}) \ {r}
    /\ twice' = IF r \in overlaps /\ mine[r] # {} THEN twice \cup {voter[r]} ELSE twice
    /\ plural' = IF Cardinality(mine[r]) > 1 THEN plural \cup {voter[r]} ELSE plural
    /\ Done(r)
    /\ UNCHANGED <<variants, multiselect, drawn, voter, asked, edit>>

Abort(r) ==
    /\ pc[r] # "idle"
    /\ Done(r)
    /\ UNCHANGED <<variants, votes, multiselect, rows, drawn, voter, asked, overlaps, twice,
                   plural, edit>>

(***************************************************************************)
(* vUpdatePollTx                                                           *)
(***************************************************************************)
EditPoll(kept, new, multi) ==
    /\ ~edit.on /\ drawn + new <= MaxVariants
    /\ edit' = [on |-> TRUE, todo |-> variants \ kept, gone |-> {}, multi |-> multi, new |-> new]
    /\ UNCHANGED <<variants, votes, multiselect, rows, drawn, voter, ballot, mine, pc, asked,
                   overlaps, twice, plural>>

\* vote_users_variant_id_fkey.
Referenced(v) == \E u \in User : <<u, v>> \in rows

\* DELETE waits for who votes for the variant, and fails if he did.
DeleteVariant ==
    LET v == Min(edit.todo) IN
    /\ edit.on /\ edit.todo # {} /\ ~Held(v)
    /\ edit' = IF Referenced(v) THEN NoEdit
               ELSE [edit EXCEPT !.todo = @ \ {v}, !.gone = @ \cup {v}]
    /\ UNCHANGED <<variants, votes, multiselect, rows, drawn, voter, ballot, mine, pc, asked,
                   overlaps, twice, plural>>

CommitEdit ==
    /\ edit.on /\ edit.todo = {}
    /\ variants' = (variants \ edit.gone) \cup drawn+1 .. drawn+edit.new
    /\ rows' = {x \in rows : x[2] \notin edit.gone}
    /\ drawn' = drawn + edit.new
    /\ multiselect' = edit.multi
    /\ edit' = NoEdit
    /\ UNCHANGED <<votes, voter, ballot, mine, pc, asked, overlaps, twice, plural>>

Next ==
    \/ \E r \in Req :
        \/ \E chosen \in SUBSET Variant : Ask(r, chosen)
        \/ Count(r) \/ Insert(r) \/ Commit(r) \/ Abort(r)
    \/ \E kept \in SUBSET variants, new \in 0..1, multi \in BOOLEAN : EditPoll(kept, new, multi)
    \/ DeleteVariant \/ CommitEdit

Spec == Init /\ [][Next]_vars

(***************************************************************************)
(* Properties                                                              *)
(***************************************************************************)

\* Every variable keeps its type, and votes are for variants that exist.
PollsTypeOK ==
    /\ variants \subseteq Variant /\ drawn \in 2..MaxVariants
    /\ rows \subseteq User \X variants
    /\ \A v \in Variant : votes[v] \in 0..Cardinality(User)
    /\ pc \in [Req -> {"idle", "count", "insert"}]

\* The counter of each variant is the number of its votes, however requests,
\* failures and edits of the poll interleave.
VotesAreRows == \A v \in variants : votes[v] = Cardinality({u \in User : <<u, v>> \in rows})

\* Who votes votes once: two votes are those of one ballot with several
\* variants, or of two requests that were under way together.
OneVoteEach ==
    \A u \in User : \/ Cardinality({v \in Variant : <<u, v>> \in rows}) <= 1
                    \/ u \in twice \/ u \in plural

\* The result is that of the votes, each of a different user.
VotesConsistent == PollsTypeOK /\ VotesAreRows /\ OneVoteEach

\* No edit of the poll takes back a vote.
KeepsVotes == rows \subseteq rows'
=============================================================================
