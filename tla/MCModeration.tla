---------------------------- MODULE MCModeration ----------------------------
(***************************************************************************)
(* Requests of one kind race with each other; the four components are      *)
(* checked each by itself: a behaviour is one of the component that `part` *)
(* names, and the others rest.  The statistics job runs beside one warning *)
(* fewer than the other requests have.                                     *)
(***************************************************************************)
EXTENDS Moderation, TLC

CONSTANTS own, host, alice, bob, carol, dan, eve
VARIABLES part

MCAuthor == {dan, eve}       \* who warns
MCWrote == [topic |-> alice, comment |-> bob]
Symmetric == Permutations(Req) \cup Permutations(Author)
ASSUME Pu!PurgeConstants /\ Re!ReactionConstants /\ Ce!EditConstants

\* Strangers only answer: what else they write no purge looks at.
StrangersAnswer ==
    \A p \in Poster : post'[p].pc # "idle" /\ ~post'[p].own => post'[p].parent # 0

MCInit ==
    /\ part \in {"warnings", "statistics", "purge", "reactions", "edits"}
    /\ Init /\ Pu!Init /\ Re!Init /\ Ce!Init
MCNext ==
    /\ part' = part
    /\ \/ part = "warnings" /\ Next /\ job' = NoJob /\ UNCHANGED puvars /\ UNCHANGED revars /\ UNCHANGED cevars
       \/ part = "statistics" /\ Next /\ last' < MaxWarnings /\ UNCHANGED puvars /\ UNCHANGED revars /\ UNCHANGED cevars
       \/ part = "purge" /\ Pu!Next /\ StrangersAnswer /\ UNCHANGED vars /\ UNCHANGED revars /\ UNCHANGED cevars
       \/ part = "reactions" /\ Re!Next /\ UNCHANGED vars /\ UNCHANGED puvars /\ UNCHANGED cevars
       \/ part = "edits" /\ Ce!Next /\ UNCHANGED vars /\ UNCHANGED puvars /\ UNCHANGED revars
MCSpec == MCInit /\ [][MCNext]_<<part, vars, puvars, revars, cevars>>
=============================================================================
