------------------------------- MODULE Users --------------------------------
(***************************************************************************)
(* What belongs to the users: their accounts, the credentials of one       *)
(* account and the pictures of one topic.  They write different columns    *)
(* and files; what each promises is stated here once, for the runs and for *)
(* the proofs.                                                             *)
(***************************************************************************)
EXTENDS Accounts

CONSTANTS MaxLogins                                     \* Sessions
CONSTANTS Limit, MaxPreviews, MaxImages, MaxFaults      \* Images

VARIABLES row, asked, cookies, codes, spc, sarg, begun, salts, dead, void
VARIABLES posted, images, recorded, dirs, parts, old, drawn, staged,
          ipc, room, uses, new, target, stale, lost, leaked, over, both, faults

svars == <<row, asked, cookies, codes, spc, sarg, begun, salts, dead, void>>
ivars == <<posted, images, recorded, dirs, parts, old, drawn, staged,
           ipc, room, uses, new, target, stale, lost, leaked, over, both, faults>>

S == INSTANCE Sessions WITH MaxRequests <- MaxLogins, pc <- spc, arg <- sarg, started <- begun
I == INSTANCE Images WITH pc <- ipc

-----------------------------------------------------------------------------
\* What ends a session or a reset code ends it for good: cookies are
\* checked over the row of the moment (optRememberMeUserId), and so are codes.
CredentialsEnd == S!CredentialsEnd

\* Rows, files, history and the rules of the gallery agree (create_topic,
\* edit_topic, vDelete).
PicturesConsistent == I!PicturesConsistent

\* No step of a request or of the job undoes what another has settled: what the
\* mailed codes confirm stays, and the upgrade of an old hash never puts back a
\* password that was replaced between the check of the login and its UPDATE.
SettledStands == [][KeepsConfirmed /\ S!KeepsPassword]_<<vars, svars>>
=============================================================================
