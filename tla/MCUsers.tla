------------------------------ MODULE MCUsers -------------------------------
(***************************************************************************)
(* Accounts, with one account that exists and one nick that is free,       *)
(* Sessions, for one account, and Images, for one topic of an author.      *)
(* Each is checked with the others at rest: a behaviour is one of the      *)
(* component that `part` names.                                            *)
(***************************************************************************)
EXTENDS Users

CONSTANTS n1, n2, a, b, c
VARIABLES part

MCNick == {n1, n2}
MCAddress == {a, b, c}
MCSettled == [n \in {n1} |-> a]
ASSUME I!ImageConstants

\* The last of the sessions' requests begins when the others have ended.
LastIsAlone == begun' = MaxLogins /\ begun # MaxLogins => \A r \in Req : spc[r] = "idle"
\* Pictures above the limit are drawn where nothing has failed.
FaultsAreFew == faults' = 0 \/ drawn' <= Limit

MCInit == part \in {"accounts", "sessions", "images"} /\ Init /\ S!Init /\ I!Init
MCNext ==
    /\ part' = part
    /\ \/ part = "accounts" /\ Next /\ UNCHANGED svars /\ UNCHANGED ivars
       \/ part = "sessions" /\ S!Next /\ LastIsAlone /\ UNCHANGED vars /\ UNCHANGED ivars
       \/ part = "images" /\ I!Next /\ FaultsAreFew /\ UNCHANGED vars /\ UNCHANGED svars
MCSpec ==
    /\ MCInit /\ [][MCNext]_<<part, vars, svars, ivars>>
    /\ WF_vars(part = "accounts" /\ JobStep)
    /\ WF_ivars(part = "images" /\ I!TimeAndJob)

\* What the jobs are to clean up goes: accounts nobody uses and old previews.
CleanupsFinish == InactiveAreDeleted /\ I!PreviewsGo
=============================================================================
