----------------------------- MODULE Moderation -----------------------------
(***************************************************************************)
(* What happens to messages after they are written: warnings, reactions,   *)
(* edits of a comment, and the deletion of all that one user or address    *)
(* has written.  The four share no variable; what each promises is stated  *)
(* here once, for the runs and for the proofs.                             *)
(***************************************************************************)
EXTENDS Warnings

CONSTANTS Topic, Own, Poster, Mod, MaxComments, MaxPurges   \* Purge
CONSTANTS User, Wrote, Frequent, MaxRequests        \* Reactions: Wrote are the authors
CONSTANTS Text, First, MaxEdits                     \* CommentEdits

VARIABLES comments, topics, drawn, banned, post, purging, purges, spared, closed, purged
VARIABLES reactions, log, events, deleted, frozen, purge, req, asked, hasty, late
VARIABLES text, gone, edit_count, edits, answered, holder, at, old, new, since, shown, unrecorded

Pu == INSTANCE Purge WITH purge <- purging
Re == INSTANCE Reactions WITH Author <- Wrote
Ce == INSTANCE CommentEdits WITH deleted <- gone, pc <- at, late <- since

puvars == <<comments, topics, banned, post, purging, purges, spared, closed, purged, drawn>>
revars == <<reactions, log, events, deleted, frozen, purge, req, asked, hasty, late>>
cevars == <<text, gone, edit_count, edits, answered, holder, at, old, new, since, shown, unrecorded>>

-----------------------------------------------------------------------------
\* A deleted comment has no live reply, every counter is the number of live
\* comments, and what a purge leaves of the culprit has a reply or could not be
\* seen (stExecute, stDeleteByIp).
PurgeConsistent == Pu!PurgeConsistent

\* The reactions shown and the reactions counted agree, events tell of reactions
\* that stand, and requests do not wait for each other (do_set_reaction).
ReactionsConsistent == Re!ReactionsConsistent

\* The history of a comment is numbered and counted, and keeps every text but one
\* that an edit had not read (vUpdateComment, edit_info).
HistoryConsistent == Ce!HistoryConsistent

\* No step takes back what was decided: a closed warning stays closed, a purge
\* spares only answered comments, and an answered comment keeps its text.
DecisionsStand ==
    [][KeepsWarnings /\ Pu!SparesTheAnswered /\ Ce!ChangesUnanswered]_<<vars, puvars, cevars>>
=============================================================================
