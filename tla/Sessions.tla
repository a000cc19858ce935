------------------------------ MODULE Sessions ------------------------------
(***************************************************************************)
(* The credentials of one activated account: logins, remember-me cookies,  *)
(* "log out everywhere", changes and resets of the password.  A cookie is  *)
(* signed over the hash of the password and over token_generation; nothing *)
(* is stored about it, so a session ends when either one changes.          *)
(*                                                                         *)
(* A word is a password, a salt tells one hash of it from another; salt 0  *)
(* is the old format, which the first login replaces by bcrypt.  The code  *)
(* that resets the password is signed over the moment in lostpwd.          *)
(***************************************************************************)
EXTENDS Integers

CONSTANTS Req,           \* the tasks that serve requests
          MaxRequests    \* bound: requests started

VARIABLES
    row,      \* the row of users
    asked,    \* user_log has an own request for a reset of the last day
    cookies,  \* the cookies browsers hold
    codes,    \* the reset codes mailed
    pc, arg,  \* what each request does next, and what it has read
    started,  \* requests started (bound); the moments in lostpwd
    salts,    \* salts drawn, and words chosen
    dead,     \* history: cookies and logins under way that were ended
    void      \* history: reset codes that were ended

vars == <<row, asked, cookies, codes, pc, arg, started, salts, dead, void>>

Hash == [word : Nat, salt : Nat]
Identity == [passwd : Hash, gen : Nat]       \* StLoginIdentity
Row == [passwd : Hash, gen : Nat, lost : Nat, expired : BOOLEAN, blocked : BOOLEAN]

StIdentity == [passwd |-> row.passwd, gen |-> row.gen]
Bcrypt(h) == h.salt # 0
NoArg == [id |-> StIdentity, code |-> 0, own |-> TRUE]

Init ==
    /\ row = [passwd |-> [word |-> 0, salt |-> 0], gen |-> 0, lost |-> 0,
              expired |-> FALSE, blocked |-> FALSE]
    /\ asked = FALSE
    /\ cookies = {} /\ codes = {}
    /\ pc = [r \in Req |-> "idle"]
    /\ arg = [r \in Req |-> NoArg]
    /\ started = 0 /\ salts = 0
    /\ dead = {} /\ void = {}

\* Mutant: token_generation left out of the signature.
ValidByPassword(c) == ~row.blocked /\ c.passwd = row.passwd

\* optRememberMeUserId: the signature is made again over the row.
Valid(c) == ~row.blocked /\ c.passwd = row.passwd /\ c.gen = row.gen
LoggedIn == \E c \in cookies : Valid(c)

\* A request that begins has read the row; its number stands for the moment.
BeginFor(r, step, own) ==
    /\ pc[r] = "idle" /\ started < MaxRequests
    /\ started' = started + 1
    /\ pc' = [pc EXCEPT ![r] = step]
    /\ arg' = [arg EXCEPT ![r] = [id |-> StIdentity, code |-> started + 1, own |-> own]]

Begin(r, step) == BeginFor(r, step, TRUE)
Goto(r, step) == pc' = [pc EXCEPT ![r] = step]

\* Identities that exist outside of the row: in browsers, or read by a login
\* that has only its answer left.
Issued == cookies \cup {arg[r].id : r \in {q \in Req : pc[q] = "cookie"}}

(***************************************************************************)
(* Login                                                                   *)
(***************************************************************************)
LoginRead(r, w) ==
    /\ ~row.blocked /\ row.passwd.word = w
    /\ Begin(r, IF Bcrypt(row.passwd) THEN "cookie" ELSE "upgrade")
    /\ UNCHANGED <<row, asked, cookies, codes, salts, dead, void>>

\* Mutant: UPDATE users SET passwd WHERE id.
UpgradeById(r) ==
    LET new == [arg[r].id.passwd EXCEPT !.salt = salts + 1] IN
    /\ pc[r] = "upgrade"
    /\ row' = [row EXCEPT !.passwd = new]
    /\ arg' = [arg EXCEPT ![r].id.passwd = new]
    /\ dead' = dead \cup Issued
    /\ salts' = salts + 1
    /\ Goto(r, "cookie")
    /\ UNCHANGED <<asked, cookies, codes, started, void>>

\* UPDATE users SET passwd WHERE id AND passwd = the hash that was verified.
Upgrade(r) ==
    LET new == [arg[r].id.passwd EXCEPT !.salt = salts + 1] IN
    /\ pc[r] = "upgrade"
    /\ IF row.passwd = arg[r].id.passwd
       THEN /\ row' = [row EXCEPT !.passwd = new]
            /\ arg' = [arg EXCEPT ![r].id.passwd = new]
            /\ dead' = dead \cup Issued
            /\ salts' = salts + 1
            /\ Goto(r, "cookie")
       ELSE Goto(r, "reread") /\ UNCHANGED <<row, arg, salts, dead>>
    /\ UNCHANGED <<asked, cookies, codes, started, void>>

\* Somebody else replaced the hash: the login takes what is stored by now.
Reread(r) ==
    /\ pc[r] = "reread"
    /\ arg' = [arg EXCEPT ![r].id.passwd = row.passwd]
    /\ Goto(r, "cookie")
    /\ UNCHANGED <<row, asked, cookies, codes, started, salts, dead, void>>

Cookie(r) ==
    /\ pc[r] = "cookie"
    /\ cookies' = cookies \cup {arg[r].id}
    /\ Goto(r, "idle")
    /\ UNCHANGED <<row, asked, codes, arg, started, salts, dead, void>>

LogoutAll ==
    /\ LoggedIn /\ started < MaxRequests
    /\ started' = started + 1
    /\ row' = [row EXCEPT !.gen = @ + 1]
    /\ dead' = dead \cup Issued
    /\ UNCHANGED <<asked, cookies, codes, pc, arg, salts, void>>

(***************************************************************************)
(* Changes of the password                                                 *)
(***************************************************************************)

\* passwd = a new hash, lostpwd = 'epoch': the profile, the reset by code and
\* the reset by a moderator run the same statement.
NewPassword ==
    /\ salts' = salts + 1
    /\ row' = [row EXCEPT !.passwd = [word |-> salts + 1, salt |-> salts + 1], !.lost = 0]
    /\ dead' = dead \cup Issued
    /\ void' = void \cup {row.lost}

\* edit_profile: a session, and the old password over the hash of the moment.
ChangeCheck(r, w) ==
    /\ LoggedIn /\ row.passwd.word = w
    /\ Begin(r, "change")
    /\ UNCHANGED <<row, asked, cookies, codes, salts, dead, void>>

Change(r) ==
    /\ pc[r] = "change"
    /\ NewPassword
    /\ Goto(r, "identity")
    /\ UNCHANGED <<asked, cookies, codes, arg, started>>

\* optLoadLoginIdentity after the commit: a new cookie, unless blocked by now.
LoadIdentity(r) ==
    /\ pc[r] = "identity"
    /\ IF row.blocked
       THEN Goto(r, "idle") /\ arg' = arg
       ELSE Goto(r, "cookie") /\ arg' = [arg EXCEPT ![r].id = StIdentity]
    /\ UNCHANGED <<row, asked, cookies, codes, started, salts, dead, void>>

ModeratorReset ==
    /\ started < MaxRequests
    /\ started' = started + 1
    /\ NewPassword
    /\ UNCHANGED <<asked, cookies, codes, pc, arg>>

(***************************************************************************)
(* The lost password                                                       *)
(***************************************************************************)
\* The owner may ask once a day, a moderator at any time.
LostCheck(r, own) ==
    /\ ~row.blocked /\ (own => ~asked)
    /\ BeginFor(r, "letter", own)
    /\ UNCHANGED <<row, asked, cookies, codes, salts, dead, void>>

\* The letter first; when it cannot be sent the row stays as it was.
LostLetter(r) ==
    /\ pc[r] = "letter"
    /\ \/ codes' = codes \cup {arg[r].code} /\ Goto(r, "lostpwd")
       \/ codes' = codes /\ Goto(r, "idle")
    /\ UNCHANGED <<row, asked, cookies, arg, started, salts, dead, void>>

StoreLost(r) ==
    /\ pc[r] = "lostpwd"
    /\ row' = [row EXCEPT !.lost = arg[r].code, !.expired = FALSE]
    /\ asked' = (asked \/ arg[r].own)
    /\ void' = void \cup {row.lost}
    /\ Goto(r, "idle")
    /\ UNCHANGED <<cookies, codes, arg, started, salts, dead>>

ResetCheck(r, c) ==
    /\ ~row.blocked /\ row.lost = c /\ ~row.expired
    /\ Begin(r, "reset")
    /\ UNCHANGED <<row, asked, cookies, codes, salts, dead, void>>

Reset(r) ==
    /\ pc[r] = "reset"
    /\ NewPassword
    /\ Goto(r, "idle")
    /\ UNCHANGED <<asked, cookies, codes, arg, started>>

\* vBlock, vDeregister and the unblock, as far as sessions see them.
SetBlocked ==
    /\ started < MaxRequests
    /\ started' = started + 1
    /\ row' = [row EXCEPT !.blocked = ~@]
    /\ UNCHANGED <<asked, cookies, codes, pc, arg, salts, dead, void>>

DayPasses ==
    /\ asked \/ (row.lost # 0 /\ ~row.expired)
    /\ asked' = FALSE
    /\ row' = [row EXCEPT !.expired = row.lost # 0]
    /\ UNCHANGED <<cookies, codes, pc, arg, started, salts, dead, void>>

Next ==
    \/ \E r \in Req :
        \/ Upgrade(r) \/ Reread(r) \/ Cookie(r) \/ Change(r) \/ LoadIdentity(r)
        \/ LostLetter(r) \/ StoreLost(r) \/ Reset(r)
        \/ \E own \in BOOLEAN : LostCheck(r, own)
        \/ \E w \in 0..MaxRequests : LoginRead(r, w) \/ ChangeCheck(r, w)
        \/ \E c \in codes : ResetCheck(r, c)
    \/ LogoutAll \/ ModeratorReset \/ SetBlocked \/ DayPasses

Spec == Init /\ [][Next]_vars

(***************************************************************************)
(* Properties                                                              *)
(***************************************************************************)

\* Every variable keeps its type.
SessionsTypeOK ==
    /\ row \in Row /\ asked \in BOOLEAN
    /\ cookies \subseteq Identity /\ dead \subseteq Identity
    /\ codes \subseteq Nat /\ void \subseteq Nat /\ started \in Nat /\ salts \in Nat
    /\ pc \in [Req -> {"idle", "upgrade", "reread", "cookie", "change", "identity",
                       "letter", "lostpwd", "reset"}]
    /\ arg \in [Req -> [id : Identity, code : Nat, own : BOOLEAN]]

\* A session that "log out everywhere" or a new password ended never works
\* again, whatever resets, upgrades and logouts follow; nor does the cookie of
\* a login that had read the row before.
SessionsEnd == \A c \in dead : ~Valid(c)

\* A reset code ends with the password it was asked for: once it was used,
\* replaced by a newer one, or overtaken by a change, no check accepts it.
CodesEnd == row.lost = 0 \/ row.lost \notin void

\* Whatever ends the validity of a credential ends it for good.
CredentialsEnd == SessionsTypeOK /\ SessionsEnd /\ CodesEnd

\* The upgrade of an old hash never puts back a password that was replaced
\* between the login's check and its UPDATE.
KeepsPassword == row'.passwd.word >= row.passwd.word
=============================================================================
