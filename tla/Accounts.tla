------------------------------ MODULE Accounts ------------------------------
(***************************************************************************)
(* The rows of users and ban_info: registration, activation, the change of *)
(* an address in two steps, blocks, and the daily job that deletes the     *)
(* accounts nobody activated.  A request reads and checks first, outside   *)
(* of any transaction, and writes later; its transaction touches the rows  *)
(* of one account only and begins with the row of users, so it is one      *)
(* step.  The job's transaction touches many rows and is one step for each *)
(* DELETE.                                                                 *)
(*                                                                         *)
(* Addresses are the classes of normalize_email.  Scores, which decide     *)
(* whom the low-score job blocks, are left out: it may block anybody.      *)
(***************************************************************************)
EXTENDS Integers, FiniteSets

CONSTANTS
    Nick, Address,
    Settled,       \* accounts as they were at the start: nick |-> address
    Req,           \* the tasks that serve requests
    None,          \* NULL, and no row
    MaxRequests    \* bound: requests started

VARIABLES
    users,     \* the row of each nick, with its row of ban_info
    uid,       \* s_uid
    letters,   \* the codes mailed: for whom, to which address
    pc, arg,   \* what each request does next, and for whom
    job,       \* vDeleteInactiveAccounts: how far it is, and its deletions
    started    \* requests started (bound)

vars == <<users, uid, letters, pc, arg, job, started>>

\* age: 1 after 12 hours, 2 after 30 days.  Kept for the properties: auto, the
\* block has no row of ban_info because the job made it; late, the account
\* was blocked between the check of its activation code and the activation.
Account == [id : Nat, email : Address, new_email : Address \cup {None},
            activated : BOOLEAN, blocked : BOOLEAN, ban_info : BOOLEAN,
            recent : BOOLEAN, age : 0..2, auto : BOOLEAN, late : BOOLEAN]

ASSUME AccountsAssumption ==
    /\ None \notin Nick \cup Address /\ None \notin Account /\ MaxRequests \in Nat
    /\ DOMAIN Settled \subseteq Nick /\ \A n \in DOMAIN Settled : Settled[n] \in Address

Arg == [nick : Nick \cup {None}, id : Nat, to : Address \cup {None}]
NoArg == [nick |-> None, id |-> 0, to |-> None]
Idle == [at |-> "idle", users |-> {}, bans |-> {}]

Exists(n) == users[n] # None
HasId(n, i) == Exists(n) /\ users[n].id = i

\* Rows the job has deleted and not committed: whoever wants one waits.
HeldRow(n) == n \in job.users
HeldBan(n) == n \in job.bans

NewAccount(i, a) ==
    [id |-> i, email |-> a, new_email |-> None, activated |-> FALSE, blocked |-> FALSE,
     ban_info |-> FALSE, recent |-> FALSE, age |-> 0, auto |-> FALSE, late |-> FALSE]

Code(n, a) == [nick |-> n, id |-> users[n].id, to |-> a]

\* The settled accounts were activated long ago by the codes mailed to them.
Init ==
    /\ users = [n \in Nick |-> IF n \in DOMAIN Settled
                              THEN [NewAccount(0, Settled[n]) EXCEPT !.activated = TRUE, !.age = 2]
                              ELSE None]
    /\ letters = {Code(n, Settled[n]) : n \in DOMAIN Settled}
    /\ uid = 0
    /\ pc = [r \in Req |-> "idle"] /\ arg = [r \in Req |-> NoArg]
    /\ job = Idle
    /\ started = 0

Begin(r, step, a) ==
    /\ pc[r] = "idle" /\ started < MaxRequests
    /\ started' = started + 1
    /\ pc' = [pc EXCEPT ![r] = step] /\ arg' = [arg EXCEPT ![r] = a]
    /\ UNCHANGED <<users, uid, letters, job>>

Done(r) == pc' = [pc EXCEPT ![r] = "idle"] /\ arg' = [arg EXCEPT ![r] = NoArg]

(***************************************************************************)
(* Registration                                                            *)
(***************************************************************************)
Holders(a) == {n \in Nick : Exists(n) /\ users[n].email = a}

\* EMAIL_IN_USE_SQL judges one account: an unblocked one first, then the newest.
InUse(a) ==
    \/ \E n \in Holders(a) : ~users[n].blocked
    \/ \E n \in Holders(a) : /\ \A m \in Holders(a) : users[m].id <= users[n].id
                             /\ users[n].recent

RegisterCheck(r, n, a) ==
    /\ ~Exists(n) /\ ~InUse(a)
    /\ Begin(r, "insert", [nick |-> n, id |-> 0, to |-> a])

\* users has a unique index on the nick and none on the address.
InsertUser(r) ==
    LET n == arg[r].nick IN
    /\ pc[r] = "insert" /\ ~HeldRow(n)
    /\ IF Exists(n)
       THEN Done(r) /\ UNCHANGED <<users, uid>>
       ELSE /\ uid' = uid + 1
            /\ users' = [users EXCEPT ![n] = NewAccount(uid + 1, arg[r].to)]
            /\ pc' = [pc EXCEPT ![r] = "mail"]
            /\ arg' = [arg EXCEPT ![r].id = uid + 1]
    /\ UNCHANGED <<letters, job, started>>

\* The letter leaves after the commit, or it does not leave at all.
Mail(r) ==
    /\ pc[r] = "mail"
    /\ \/ letters' = letters \cup {arg[r]}
       \/ letters' = letters
    /\ Done(r)
    /\ UNCHANGED <<users, uid, job, started>>

(***************************************************************************)
(* Activation                                                              *)
(***************************************************************************)
ActivateCheck(r, n) ==
    /\ Exists(n) /\ ~users[n].activated /\ ~users[n].blocked
    /\ Code(n, users[n].email) \in letters
    /\ Begin(r, "activate", Code(n, users[n].email))

\* The row is found by its id and by nothing else.
Activate(r) ==
    LET n == arg[r].nick IN
    /\ pc[r] = "activate" /\ ~HeldRow(n)
    /\ users' = IF HasId(n, arg[r].id)
                THEN [users EXCEPT ![n].activated = TRUE,
                                   ![n].late = @ \/ users[n].blocked]
                ELSE users
    /\ Done(r)
    /\ UNCHANGED <<uid, letters, job, started>>

(***************************************************************************)
(* Change of the address                                                   *)
(***************************************************************************)
LoggedIn(n) == Exists(n) /\ users[n].activated /\ ~users[n].blocked

ChangeCheck(r, n, a) ==
    /\ LoggedIn(n) /\ a # users[n].email
    /\ \A m \in Holders(a) : users[m].blocked
    /\ Begin(r, "stage", Code(n, a))

Stage(r) ==
    LET n == arg[r].nick IN
    /\ pc[r] = "stage"
    /\ users' = IF HasId(n, arg[r].id) THEN [users EXCEPT ![n].new_email = arg[r].to] ELSE users
    /\ pc' = [pc EXCEPT ![r] = "mail"]
    /\ UNCHANGED <<uid, letters, arg, job, started>>

AcceptCheck(r, n) ==
    /\ LoggedIn(n) /\ users[n].new_email # None
    /\ Code(n, users[n].new_email) \in letters
    /\ Begin(r, "accept", Code(n, users[n].new_email))

\* Mutant: UPDATE ... WHERE id.
AcceptById(r) ==
    LET n == arg[r].nick IN
    /\ pc[r] = "accept"
    /\ users' = IF HasId(n, arg[r].id)
                THEN [users EXCEPT ![n].email = arg[r].to, ![n].new_email = None]
                ELSE users
    /\ Done(r)
    /\ UNCHANGED <<uid, letters, job, started>>

\* UPDATE ... WHERE id AND new_email IS NOT DISTINCT FROM the address checked.
Accept(r) ==
    LET n == arg[r].nick IN
    /\ pc[r] = "accept"
    /\ users' = IF HasId(n, arg[r].id) /\ users[n].new_email = arg[r].to
                THEN [users EXCEPT ![n].email = arg[r].to, ![n].new_email = None]
                ELSE users
    /\ Done(r)
    /\ UNCHANGED <<uid, letters, job, started>>

(***************************************************************************)
(* Blocks                                                                  *)
(***************************************************************************)
BlockCheck(r, n) ==
    /\ Exists(n) /\ ~users[n].blocked
    /\ Begin(r, "block", Code(n, None))

\* The owner's own block runs the same statements as a moderator's.
DeregisterCheck(r, n) ==
    /\ LoggedIn(n)
    /\ Begin(r, "block", Code(n, None))

\* A second row of ban_info breaks its key: the whole transaction fails.
Blocked(n, i) ==
    IF HasId(n, i) /\ ~users[n].ban_info
    THEN [users EXCEPT ![n].blocked = TRUE, ![n].ban_info = TRUE, ![n].recent = TRUE,
                       ![n].auto = FALSE]
    ELSE users

Block(r) ==
    LET n == arg[r].nick IN
    /\ pc[r] = "block" /\ ~HeldRow(n) /\ ~HeldBan(n)
    /\ users' = Blocked(n, arg[r].id)
    /\ Done(r)
    /\ UNCHANGED <<uid, letters, job, started>>

UnblockCheck(r, n) == Exists(n) /\ Begin(r, "unblock", Code(n, None))

\* Mutant: the row of ban_info stays.
UnblockedKeepingBan(n, i) ==
    IF HasId(n, i) THEN [users EXCEPT ![n].blocked = FALSE, ![n].auto = FALSE] ELSE users

Unblocked(n, i) ==
    IF HasId(n, i)
    THEN [users EXCEPT ![n].blocked = FALSE, ![n].ban_info = FALSE, ![n].auto = FALSE]
    ELSE users

Unblock(r) ==
    LET n == arg[r].nick IN
    /\ pc[r] = "unblock" /\ ~HeldRow(n) /\ ~HeldBan(n)
    /\ users' = Unblocked(n, arg[r].id)
    /\ Done(r)
    /\ UNCHANGED <<uid, letters, job, started>>

LowScore(n) ==
    /\ Exists(n) /\ ~users[n].blocked /\ ~HeldRow(n)
    /\ users' = [users EXCEPT ![n].blocked = TRUE, ![n].auto = TRUE]
    /\ UNCHANGED <<uid, letters, pc, arg, job, started>>

(***************************************************************************)
(* vDeleteInactiveAccounts                                                 *)
(***************************************************************************)
Unused(n) == Exists(n) /\ ~users[n].activated
Dormant(n) == Unused(n) /\ ~users[n].blocked /\ users[n].age >= 1
Abandoned(n) == Unused(n) /\ users[n].age = 2

JobRegular ==
    /\ job.at = "idle" /\ \E n \in Nick : Dormant(n) \/ Abandoned(n)
    /\ job' = [job EXCEPT !.at = "bans", !.users = {n \in Nick : Dormant(n)}]
    /\ UNCHANGED <<users, uid, letters, pc, arg, started>>

\* Mutant: DELETE FROM ban_info left out.
JobKeepsBans ==
    /\ job.at = "bans"
    /\ job' = [job EXCEPT !.at = "blocked"]
    /\ UNCHANGED <<users, uid, letters, pc, arg, started>>

JobBans ==
    /\ job.at = "bans"
    /\ job' = [job EXCEPT !.at = "blocked",
                 !.bans = {n \in Nick \ job.users : Abandoned(n) /\ users[n].ban_info}]
    /\ UNCHANGED <<users, uid, letters, pc, arg, started>>

\* An account blocked since the bans were deleted still has its row: the
\* foreign key of ban_info fails the whole job.
JobBlocked ==
    LET more == {n \in Nick \ job.users : Abandoned(n)} IN
    /\ job.at = "blocked"
    /\ job' = IF \E n \in more \ job.bans : users[n].ban_info
              THEN Idle
              ELSE [job EXCEPT !.at = "commit", !.users = @ \cup more]
    /\ UNCHANGED <<users, uid, letters, pc, arg, started>>

JobCommit ==
    /\ job.at = "commit"
    /\ users' = [n \in Nick |-> IF n \in job.users THEN None
                                ELSE IF n \in job.bans THEN [users[n] EXCEPT !.ban_info = FALSE]
                                ELSE users[n]]
    /\ job' = Idle
    /\ UNCHANGED <<uid, letters, pc, arg, started>>

\* A block or an unblock has the row of users and waits for that of ban_info,
\* the job the other way round: the server ends one of the two.
Deadlock(r) ==
    LET n == arg[r].nick IN
    /\ pc[r] \in {"block", "unblock"} /\ job.at = "blocked" /\ HeldBan(n)
    /\ Done(r)
    /\ \/ users' = users /\ job' = job
       \/ /\ users' = IF pc[r] = "block" THEN Blocked(n, arg[r].id) ELSE Unblocked(n, arg[r].id)
          /\ job' = Idle
    /\ UNCHANGED <<uid, letters, started>>

\* Time passes for one account: 12 hours, 30 days, 14 days since its block.
Ages(n) ==
    /\ Exists(n)
    /\ \/ users[n].age < 2 /\ users' = [users EXCEPT ![n].age = @ + 1]
       \/ users[n].recent /\ users' = [users EXCEPT ![n].recent = FALSE]
    /\ UNCHANGED <<uid, letters, pc, arg, job, started>>

JobStep == JobRegular \/ JobBans \/ JobBlocked \/ JobCommit

Write(r) == \/ InsertUser(r) \/ Mail(r) \/ Activate(r) \/ Stage(r) \/ Accept(r)
            \/ Block(r) \/ Unblock(r) \/ Deadlock(r)

Check(r, n) ==
    \/ ActivateCheck(r, n) \/ AcceptCheck(r, n)
    \/ BlockCheck(r, n) \/ DeregisterCheck(r, n) \/ UnblockCheck(r, n)
    \/ \E a \in Address : RegisterCheck(r, n, a) \/ ChangeCheck(r, n, a)

Next ==
    \/ \E r \in Req : Write(r) \/ \E n \in Nick : Check(r, n)
    \/ \E n \in Nick : LowScore(n) \/ Ages(n)
    \/ JobStep

Spec == Init /\ [][Next]_vars /\ WF_vars(JobStep)
(***************************************************************************)
(* Properties                                                              *)
(***************************************************************************)

\* Every variable keeps its type: rows, letters, requests and the job.
TypeOK ==
    /\ users \in [Nick -> Account \cup {None}]
    /\ uid \in Nat
    /\ letters \subseteq Arg
    /\ pc \in [Req -> {"idle", "insert", "mail", "activate", "stage", "accept", "block", "unblock"}]
    /\ arg \in [Req -> Arg]
    /\ job.at \in {"idle", "bans", "blocked", "commit"}
    /\ job.users \subseteq Nick /\ job.bans \subseteq Nick
    /\ started \in Nat

\* A row of ban_info belongs to a blocked account, and a blocked account has
\* one, whatever blocks, unblocks and cleanups run side by side: except where
\* the low-score job made the block, or the account was activated after it.
BanExplained ==
    \A n \in Nick : Exists(n) =>
        /\ users[n].ban_info => users[n].blocked
        /\ users[n].blocked => users[n].ban_info \/ users[n].auto \/ users[n].late

\* The address of an activated account is one to which a code for this very
\* account was mailed: of its registration or of its change of address.
AddressConfirmed ==
    \A n \in Nick : Exists(n) /\ users[n].activated => Code(n, users[n].email) \in letters

\* What an account says of its block and of its address is true.
AccountsConsistent == TypeOK /\ BanExplained /\ AddressConfirmed

\* The account is there before and after the step.
Same(n) == Exists(n)' /\ users'[n].id = users[n].id

\* The daily cleanup deletes no activated account, however late the activation
\* comes between its statements.
KeepsActivated(n) ==
    Exists(n) /\ users[n].activated => Same(n) /\ users'[n].activated

\* An address waiting for its code is dropped by its own acceptance or by a
\* newer change, never by the acceptance of an older one.
KeepsStaged(n) ==
    /\ Exists(n) /\ Same(n)
    /\ users[n].new_email # None /\ users'[n].new_email = None
    => users'[n].email = users[n].new_email

\* No step of a request or of the job undoes what the mailed codes confirm.
KeepsConfirmed == \A n \in Nick : KeepsActivated(n) /\ KeepsStaged(n)

\* An account nobody activates within twelve hours is deleted or blocked, and
\* a blocked one is deleted once it is thirty days old: a new block or a
\* deadlock makes the job start again, it does not stop it for good.
InactiveAreDeleted ==
    \A n \in Nick : Dormant(n) \/ Abandoned(n) ~> ~Unused(n) \/ (users[n].age < 2 /\ users[n].blocked)
=============================================================================
