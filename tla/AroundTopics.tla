---------------------------- MODULE AroundTopics -----------------------------
(***************************************************************************)
(* Topics around their text: where they are listed, when they are posted,  *)
(* the tags they have, the votes in their polls, and the events that tell  *)
(* users of all that happens in them.  The five share no variable; what    *)
(* each promises is stated here once, for the runs and for the proofs.     *)
(***************************************************************************)
EXTENDS Lists

CONSTANTS Req, Address, Sections, Short, Long, Memory, Day, Limit    \* Posting
CONSTANTS MaxClock, MaxTopics, MaxRequests
CONSTANTS User, MaxVariants, MaxBallots                                 \* Polls
CONSTANTS Topic, First, Name, Free, NoName, MaxIds, MaxTagRequests      \* Tags

CONSTANTS Reader, Comment, Nobody, LastEvent                            \* UnreadEvents

VARIABLES clock, entries, topics, req, asked, passed, dropped, excess
VARIABLES variants, votes, multiselect, rows, drawn, voter, ballot, mine, pc, voted,
          overlaps, twice, plural, edit
VARIABLES value, counter, synonym, tagged, posted, ids, jobs, indexed, retag, retags, stale,
          short, unseen, twins
VARIABLES row, cache, unread, lock, fact, nextId, telling, shown, started

Ps == INSTANCE Posting WITH Section <- Sections
Po == INSTANCE Polls WITH asked <- voted
Ta == INSTANCE Tags WITH
    MaxRequests <- MaxTagRequests, rows <- tagged, drawn <- ids, req <- retag, asked <- retags
Un == INSTANCE UnreadEvents WITH
    User <- Reader, Handler <- Req, mine <- unread, req <- telling

psvars == <<clock, entries, topics, req, asked, passed, dropped, excess>>
povars == <<variants, votes, multiselect, rows, drawn, voter, ballot, mine, pc, voted,
            overlaps, twice, plural, edit>>
tavars == <<value, counter, synonym, tagged, posted, ids, jobs, indexed, retag, retags, stale,
            short, unseen, twins>>
unvars == <<row, cache, unread, lock, fact, nextId, telling, shown, started>>

-----------------------------------------------------------------------------
\* The properties of the instances, which their modules state and explain.
PostingLimited == Ps!PostingLimited
VotesConsistent == Po!VotesConsistent
TagsConsistent == Ta!TagsConsistent

\* No step drifts from what it counts: an edit of a poll keeps its votes, and a
\* transaction alone keeps, and a recount repairs, the numbers of unread events.
StepsHold ==
    [][/\ Po!KeepsVotes
       /\ Un!UnreadTypeOK' /\ Un!KeepsExact /\ Un!RecountsExactly]_<<povars, unvars>>
=============================================================================
