---------------------------- MODULE Users_proofs ----------------------------
(***************************************************************************)
(* What holds of accounts, of the credentials of one account and of the    *)
(* pictures of one topic, for any number of requests, nicks, addresses,    *)
(* previews and pictures.  The three share no variable; each has its own   *)
(* specification, invariant and theorems.                                  *)
(***************************************************************************)
EXTENDS Users, FiniteSetTheorems, TLAPS

-----------------------------------------------------------------------------
(* Accounts *)

Step == {"idle", "insert", "mail", "activate", "stage", "accept", "block", "unblock"}
JobRow == [at : {"idle", "bans", "blocked", "commit"}, users : SUBSET Nick, bans : SUBSET Nick]
AccountsTyped ==
    /\ users \in [Nick -> Account \cup {None}]
    /\ uid \in Nat /\ letters \subseteq Arg /\ started \in Nat
    /\ pc \in [Req -> Step] /\ arg \in [Req -> Arg] /\ job \in JobRow

\* What a request has checked names an account of the past or of now, and an
\* address where it will write one.
Checked(r) ==
    /\ pc[r] # "idle" => arg[r].nick \in Nick
    /\ pc[r] \in {"insert", "stage", "accept"} => arg[r].to \in Address
    /\ arg[r].id <= uid
    /\ pc[r] = "accept" => arg[r] \in letters
    /\ pc[r] = "activate" /\ HasId(arg[r].nick, arg[r].id) =>
         Code(arg[r].nick, users[arg[r].nick].email) \in letters
OldIds == \A n \in Nick : Exists(n) => users[n].id <= uid

\* The rows the job has deleted are of accounts nobody activated; where only
\* the row of ban_info goes, the account was activated under its block.
JobSound ==
    /\ job.at \in {"idle"} => job.users = {}
    /\ job.at \in {"idle", "bans"} => job.bans = {}
    /\ \A n \in job.users : Exists(n) /\ ~users[n].activated
    /\ \A n \in job.bans :
         /\ Exists(n) /\ users[n].blocked /\ users[n].ban_info /\ users[n].age = 2
         /\ users[n].activated => users[n].late
         /\ job.at = "commit" /\ n \notin job.users => users[n].activated

AccountsInv ==
    /\ AccountsTyped /\ OldIds /\ JobSound /\ \A r \in Req : Checked(r)
    /\ BanExplained /\ AddressConfirmed


\* What a step may do to the row of one nick: nothing, an edit that keeps the
\* account what it says it is, a registration, or the cleanup.
Edited(n) ==
    /\ Exists(n) /\ Exists(n)' /\ users'[n].id = users[n].id
    /\ users[n].activated => users'[n].activated
    /\ users'[n].ban_info => users'[n].blocked
    /\ users'[n].blocked => users'[n].ban_info \/ users'[n].auto \/ users'[n].late
    /\ \/ Code(n, users'[n].email) \in letters
       \/ users'[n].email = users[n].email /\ (users'[n].activated => users[n].activated)
    /\ users[n].new_email # None /\ users'[n].new_email = None => users'[n].email = users[n].new_email
    /\ n \in job.users /\ job' = job => ~users'[n].activated
    /\ n \in job.bans /\ job' = job =>
         /\ users'[n].blocked /\ users'[n].ban_info /\ users'[n].age = 2
         /\ users'[n].activated => users'[n].late
         /\ users[n].activated => users'[n].activated
Added(n) ==
    /\ ~Exists(n) /\ uid' = uid + 1 /\ users'[n].id = uid + 1
    /\ ~users'[n].activated /\ ~users'[n].blocked /\ ~users'[n].ban_info
Removed(n) == n \in job.users /\ ~Exists(n)' /\ job' = Idle
RowFits(n) == users'[n] = users[n] \/ Edited(n) \/ Added(n) \/ Removed(n)

\* What one step owes: every row fits, and the invariant holds again.
Keeps == AccountsInv' /\ \A n \in Nick : RowFits(n)

LEMMA RowTyped ==
    ASSUME AccountsTyped, NEW n \in Nick, Exists(n)
    PROVE  /\ users[n] \in Account /\ users[n].id \in Nat /\ users[n].email \in Address
           /\ users[n].new_email \in Address \cup {None} /\ users[n].age \in 0..2
           /\ \A to \in Address \cup {None} : Code(n, to) \in Arg
<1>1. users[n] \in Account
  BY DEF AccountsTyped, Exists
<1>2. /\ users[n].id \in Nat /\ users[n].email \in Address
      /\ users[n].new_email \in Address \cup {None} /\ users[n].age \in 0..2
  BY <1>1 DEF Account
<1> QED BY <1>1, <1>2 DEF Code, Arg

\* The deletions of the job stay sound while it waits, commits or starts over.
LEMMA JobStays ==
    ASSUME AccountsInv, \A n \in Nick : RowFits(n), job' = job \/ job' = Idle
    PROVE  JobSound'
<1>1. JobSound /\ job \in JobRow
  BY DEF AccountsInv, AccountsTyped
<1>2. CASE job' = Idle
  BY <1>2 DEF JobSound, Idle
<1>3. CASE job' = job /\ job' # Idle
  <2>1. job.users \subseteq Nick /\ job.bans \subseteq Nick
    BY <1>1 DEF JobRow
  <2>2. ASSUME NEW n \in job.users PROVE Exists(n)' /\ ~users'[n].activated
    BY <1>1, <1>3, <2>1, <2>2 DEF JobSound, RowFits, Edited, Added, Removed, Exists
  <2>3. ASSUME NEW n \in job.bans
        PROVE  /\ Exists(n)' /\ users'[n].blocked /\ users'[n].ban_info /\ users'[n].age = 2
               /\ users'[n].activated => users'[n].late
               /\ job.at = "commit" /\ n \notin job.users => users'[n].activated
    BY <1>1, <1>3, <2>1, <2>3 DEF JobSound, RowFits, Edited, Added, Removed, Exists
  <2> QED BY <1>1, <1>3, <2>2, <2>3 DEF JobSound
<1> QED BY <1>2, <1>3

\* What was checked of an account is of that account still: a code for its
\* present address was mailed, and no later account has its id.
LEMMA CheckedStays ==
    ASSUME AccountsInv, AccountsTyped', NEW q \in Req, \A n \in Nick : RowFits(n),
           uid <= uid', letters \subseteq letters', pc'[q] = pc[q], arg'[q] = arg[q]
    PROVE  Checked(q)'
<1>1. /\ AccountsTyped /\ Checked(q) /\ uid \in Nat /\ uid' \in Nat
      /\ arg[q] \in Arg /\ arg[q].id \in Nat
  BY DEF AccountsInv, AccountsTyped, Arg
<1>2. ASSUME pc[q] = "activate", HasId(arg[q].nick, arg[q].id)'
      PROVE  Code(arg[q].nick, users[arg[q].nick].email)' \in letters'
  <2> DEFINE n == arg[q].nick
  <2>1. n \in Nick /\ arg[q].id <= uid
    BY <1>1, <1>2 DEF Checked
  <2>2. Exists(n)' /\ users'[n].id = arg[q].id /\ RowFits(n)
    BY <1>2, <2>1 DEF HasId
  <2>3. Exists(n) /\ users[n].id = arg[q].id
    BY <1>1, <2>1, <2>2 DEF RowFits, Edited, Added, Removed, Exists
  <2>4. Code(n, users[n].email) \in letters
    BY <1>1, <1>2, <2>3 DEF Checked, HasId
  <2>5. users'[n].email = users[n].email \/ Code(n, users'[n].email) \in letters
    BY <1>1, <2>1, <2>2 DEF RowFits, Edited, Added, Removed
  <2>6. Code(n, users'[n].email) \in letters
    BY <2>4, <2>5
  <2>7. Code(n, users[n].email)' = Code(n, users'[n].email)
    BY <2>2, <2>3 DEF Code
  <2> QED BY <2>6, <2>7
<1>3. arg[q].id <= uid'
  BY <1>1 DEF Checked
<1> QED BY <1>1, <1>2, <1>3 DEF Checked

\* The frame of every step: what fits in each row holds of the whole table.
LEMMA RowsKeep ==
    ASSUME AccountsInv, AccountsTyped', \A n \in Nick : RowFits(n), JobSound',
           uid <= uid', letters \subseteq letters',
           \A q \in Req : Checked(q)' \/ (pc'[q] = pc[q] /\ arg'[q] = arg[q])
    PROVE  AccountsInv'
<1>1. AccountsTyped /\ OldIds /\ BanExplained /\ AddressConfirmed /\ uid \in Nat /\ uid' \in Nat
  BY DEF AccountsInv, AccountsTyped
<1>2. ASSUME NEW n \in Nick, Exists(n)' PROVE users'[n].id <= uid'
  <2>1. CASE users'[n] = users[n] \/ Edited(n)
    BY <1>1, <1>2, <2>1, RowTyped DEF OldIds, Edited, Exists
  <2>2. CASE Added(n)
    BY <1>1, <2>2 DEF Added
  <2> QED BY <1>2, <2>1, <2>2 DEF RowFits, Removed
<1>3. ASSUME NEW n \in Nick, Exists(n)'
      PROVE  /\ users'[n].ban_info => users'[n].blocked
             /\ users'[n].blocked => users'[n].ban_info \/ users'[n].auto \/ users'[n].late
  BY <1>1, <1>3 DEF BanExplained, RowFits, Edited, Added, Removed, Exists
<1>4. ASSUME NEW n \in Nick, Exists(n)', users'[n].activated
      PROVE  Code(n, users[n].email)' \in letters'
  <2>1. Exists(n) /\ users'[n].id = users[n].id /\ Code(n, users'[n].email) \in letters
    BY <1>1, <1>4 DEF AddressConfirmed, RowFits, Edited, Added, Removed, Exists
  <2>2. Code(n, users[n].email)' = Code(n, users'[n].email)
    BY <2>1 DEF Code
  <2> QED BY <2>1, <2>2
<1>5. \A q \in Req : Checked(q)'
  BY CheckedStays
<1> QED BY <1>2, <1>3, <1>4, <1>5 DEF AccountsInv, OldIds, BanExplained, AddressConfirmed

LEMMA InitAccounts == ASSUME Init PROVE AccountsInv
<1> DEFINE Old(n) == [NewAccount(0, Settled[n]) EXCEPT !.activated = TRUE, !.age = 2]
<1>1. ASSUME NEW n \in DOMAIN Settled
      PROVE  /\ n \in Nick /\ Old(n) \in Account /\ Old(n).id = 0
             /\ Old(n).email = Settled[n] /\ ~Old(n).blocked /\ ~Old(n).ban_info
  <2>1. n \in Nick /\ Settled[n] \in Address
    BY AccountsAssumption
  <2>2. /\ NewAccount(0, Settled[n]) \in Account /\ NewAccount(0, Settled[n]).id = 0
        /\ NewAccount(0, Settled[n]).email = Settled[n]
        /\ ~NewAccount(0, Settled[n]).blocked /\ ~NewAccount(0, Settled[n]).ban_info
    BY <2>1 DEF NewAccount, Account
  <2> HIDE DEF NewAccount
  <2>3. Old(n) = [[NewAccount(0, Settled[n]) EXCEPT !.activated = TRUE] EXCEPT !.age = 2]
    BY Zenon DEF Old
  <2>4. [NewAccount(0, Settled[n]) EXCEPT !.activated = TRUE] \in Account
    BY <2>2 DEF Account
  <2>5. Old(n) \in Account
    <3>1. \A y \in Account : [y EXCEPT !.age = 2] \in Account
      BY DEF Account
    <3> HIDE DEF Old
    <3> QED BY <2>3, <2>4, <3>1
  <2>6. /\ Old(n).id = 0 /\ Old(n).email = Settled[n]
        /\ ~Old(n).blocked /\ ~Old(n).ban_info
    BY <2>2 DEF Account
  <2> QED BY <2>1, <2>5, <2>6
<1>2. users = [n \in Nick |-> IF n \in DOMAIN Settled THEN Old(n) ELSE None]
  BY DEF Init
<1> HIDE DEF Old
<1>3. None \notin Account
  BY AccountsAssumption
<1>4. \A n \in DOMAIN Settled : n \in Nick /\ Exists(n) /\ users[n] = Old(n)
  BY <1>1, <1>2, <1>3 DEF Exists
<1>5. \A n \in Nick : Exists(n) =>
        /\ n \in DOMAIN Settled /\ users[n] \in Account /\ users[n].id = 0
        /\ users[n].email = Settled[n] /\ ~users[n].blocked /\ ~users[n].ban_info
  BY <1>1, <1>2 DEF Exists
<1>6. users \in [Nick -> Account \cup {None}]
  BY <1>1, <1>2
<1>7. /\ letters = {Code(n, Settled[n]) : n \in DOMAIN Settled} /\ uid = 0 /\ started = 0
      /\ pc = [r \in Req |-> "idle"] /\ arg = [r \in Req |-> NoArg] /\ job = Idle
  BY DEF Init
<1>8. letters \subseteq Arg
  <2>1. ASSUME NEW n \in DOMAIN Settled PROVE Code(n, Settled[n]) \in Arg
    <3>1. n \in Nick /\ users[n].id = 0 /\ Settled[n] \in Address
      BY <1>4, <1>5, AccountsAssumption
    <3> QED BY <3>1 DEF Code, Arg
  <2> QED BY <1>7, <2>1
<1>9. NoArg \in Arg /\ NoArg.id = 0
  BY DEF NoArg, Arg
<1>10. AccountsTyped
  BY <1>6, <1>7, <1>8, <1>9 DEF AccountsTyped, Step, Idle, JobRow
<1>11. OldIds /\ BanExplained
  BY <1>5, <1>7 DEF OldIds, BanExplained
<1>12. AddressConfirmed
  BY <1>5, <1>7 DEF AddressConfirmed
<1>13. JobSound
  BY <1>7 DEF JobSound, Idle
<1>14. \A r \in Req : pc[r] = "idle" /\ arg[r].id <= uid
  BY <1>7, <1>9
<1>15. \A r \in Req : Checked(r)
  BY <1>14 DEF Checked
<1> QED BY <1>10, <1>11, <1>12, <1>13, <1>15 DEF AccountsInv

\* A request that ends: its rows fit, and nothing else moves.
LEMMA EndKeeps ==
    ASSUME AccountsInv, NEW r \in Req, Done(r), users' \in [Nick -> Account \cup {None}],
           \A n \in Nick : RowFits(n), uid' = uid, started' = started,
           letters' \subseteq Arg, letters \subseteq letters', job' = job \/ job' = Idle
    PROVE  Keeps
<1>1. AccountsTyped /\ uid \in Nat
  BY DEF AccountsInv, AccountsTyped
<1>2. NoArg \in Arg /\ NoArg.id = 0
  BY DEF NoArg, Arg
<1>3. /\ pc' \in [Req -> Step] /\ arg' \in [Req -> Arg]
      /\ pc'[r] = "idle" /\ arg'[r].id = 0
      /\ \A q \in Req \ {r} : pc'[q] = pc[q] /\ arg'[q] = arg[q]
  BY <1>1, <1>2 DEF AccountsTyped, Done, Step
<1>4. job' \in JobRow
  BY <1>1 DEF AccountsTyped, JobRow, Idle
<1>5. AccountsTyped'
  BY <1>1, <1>3, <1>4 DEF AccountsTyped
<1>6. Checked(r)'
  BY <1>1, <1>3 DEF Checked
<1>7. JobSound'
  BY JobStays
<1>8. uid <= uid'
  BY <1>1
<1>9. \A q \in Req : Checked(q)' \/ (pc'[q] = pc[q] /\ arg'[q] = arg[q])
  BY <1>3, <1>6
<1> QED BY <1>5, <1>7, <1>8, <1>9, RowsKeep DEF Keeps

\* A step that changes one row, of an account that is there.
LEMMA OneRow ==
    ASSUME AccountsTyped, NEW n \in Nick, Exists(n), users'[n] \in Account, Edited(n),
           \A m \in Nick \ {n} : users'[m] = users[m]
    PROVE  \A m \in Nick : RowFits(m)
  BY DEF RowFits

LEMMA CheckKeeps == ASSUME AccountsInv, NEW r \in Req, NEW n \in Nick, Check(r, n) PROVE Keeps
<1>1. /\ AccountsTyped /\ OldIds /\ AddressConfirmed /\ JobSound /\ uid \in Nat
      /\ letters \subseteq Arg /\ pc \in [Req -> Step] /\ arg \in [Req -> Arg]
  BY DEF AccountsInv, AccountsTyped
<1>2. ASSUME NEW step \in Step \ {"idle", "mail"}, NEW to \in Address \cup {None}, NEW i \in Nat, i <= uid,
             Begin(r, step, [nick |-> n, id |-> i, to |-> to]),
             step \in {"insert", "stage", "accept"} => to \in Address,
             step \in {"accept", "activate"} => [nick |-> n, id |-> i, to |-> to] \in letters,
             step = "activate" => HasId(n, i) /\ to = users[n].email
      PROVE  Keeps
  <2> DEFINE c == [nick |-> n, id |-> i, to |-> to]
  <2>1. c \in Arg /\ c.nick = n /\ c.id = i /\ c.to = to
    BY DEF Arg
  <2>2. /\ pc' = [pc EXCEPT ![r] = step] /\ arg' = [arg EXCEPT ![r] = c]
        /\ started' = started + 1 /\ UNCHANGED <<users, uid, letters, job>>
    BY <1>2 DEF Begin
  <2>3. step = "activate" => Code(n, users[n].email) = c
    BY <1>2 DEF Code, HasId
  <2>4. /\ step \in {"insert", "stage", "accept"} => c.to \in Address
        /\ step \in {"accept", "activate"} => c \in letters
    BY <1>2, <2>1
  <2> HIDE DEF c
  <2>5. /\ pc' \in [Req -> Step] /\ arg' \in [Req -> Arg]
        /\ pc'[r] = step /\ arg'[r] = c
        /\ \A q \in Req \ {r} : pc'[q] = pc[q] /\ arg'[q] = arg[q]
    BY <1>1, <2>1, <2>2
  <2>6. AccountsTyped'
    BY <1>1, <2>2, <2>5 DEF AccountsTyped
  <2>7. step = "activate" => Code(n, users[n].email)' \in letters'
    <3>1. Code(n, users[n].email)' = Code(n, users[n].email)
      BY <2>2 DEF Code
    <3> QED BY <2>2, <2>3, <2>4, <3>1
  <2>8. Checked(r)'
    BY <1>2, <2>1, <2>2, <2>4, <2>5, <2>7 DEF Checked
  <2>9. \A m \in Nick : RowFits(m)
    BY <2>2 DEF RowFits
  <2>10. JobSound'
    BY <2>2, <2>9, JobStays
  <2>11. uid <= uid' /\ letters \subseteq letters'
    BY <1>1, <2>2
  <2>12. \A q \in Req : Checked(q)' \/ (pc'[q] = pc[q] /\ arg'[q] = arg[q])
    BY <2>5, <2>8
  <2> QED BY <2>6, <2>9, <2>10, <2>11, <2>12, RowsKeep DEF Keeps
<1>3. ASSUME Exists(n)
      PROVE  /\ users[n].id \in Nat /\ users[n].id <= uid /\ users[n].email \in Address
             /\ users[n].new_email \in Address \cup {None}
             /\ \A to : Code(n, to) = [nick |-> n, id |-> users[n].id, to |-> to]
             /\ HasId(n, users[n].id)
  BY <1>1, <1>3, RowTyped DEF OldIds, Code, HasId
<1>4. CASE ActivateCheck(r, n)
  BY <1>2, <1>3, <1>4 DEF ActivateCheck, Step
<1>5. CASE AcceptCheck(r, n)
  BY <1>2, <1>3, <1>5 DEF AcceptCheck, LoggedIn, Step
<1>6. CASE BlockCheck(r, n)
  BY <1>2, <1>3, <1>6 DEF BlockCheck, Step
<1>7. CASE DeregisterCheck(r, n)
  BY <1>2, <1>3, <1>7 DEF DeregisterCheck, LoggedIn, Step
<1>8. CASE UnblockCheck(r, n)
  BY <1>2, <1>3, <1>8 DEF UnblockCheck, Step
<1>9. ASSUME NEW a \in Address, RegisterCheck(r, n, a) PROVE Keeps
  BY <1>1, <1>2, <1>9 DEF RegisterCheck, Step
<1>10. ASSUME NEW a \in Address, ChangeCheck(r, n, a) PROVE Keeps
  BY <1>2, <1>3, <1>10 DEF ChangeCheck, LoggedIn, Step
<1> QED BY <1>4, <1>5, <1>6, <1>7, <1>8, <1>9, <1>10 DEF Check

LEMMA InsertUserKeeps == ASSUME AccountsInv, NEW r \in Req, InsertUser(r) PROVE Keeps
<1> DEFINE n == arg[r].nick
<1>1. /\ AccountsTyped /\ JobSound /\ uid \in Nat /\ users \in [Nick -> Account \cup {None}]
      /\ letters \subseteq Arg /\ pc \in [Req -> Step] /\ arg \in [Req -> Arg] /\ pc[r] = "insert"
      /\ arg[r] \in Arg /\ n \in Nick /\ arg[r].to \in Address
      /\ UNCHANGED <<letters, job, started>>
  BY DEF AccountsInv, AccountsTyped, Checked, InsertUser
<1>2. CASE Exists(n)
  <2>1. Done(r) /\ UNCHANGED <<users, uid>>
    BY <1>2 DEF InsertUser
  <2>2. \A m \in Nick : RowFits(m)
    BY <2>1 DEF RowFits
  <2> QED BY <1>1, <2>1, <2>2, EndKeeps
<1>3. CASE ~Exists(n)
  <2>1. /\ uid' = uid + 1 /\ users' = [users EXCEPT ![n] = NewAccount(uid + 1, arg[r].to)]
        /\ pc' = [pc EXCEPT ![r] = "mail"] /\ arg' = [arg EXCEPT ![r].id = uid + 1]
    BY <1>3 DEF InsertUser
  <2> DEFINE x == NewAccount(uid + 1, arg[r].to)
  <2>2. /\ x \in Account /\ x.id = uid + 1 /\ ~x.activated /\ ~x.blocked /\ ~x.ban_info
    BY <1>1 DEF NewAccount, Account
  <2> HIDE DEF x
  <2>3. /\ users' \in [Nick -> Account \cup {None}] /\ users'[n] = x
        /\ \A m \in Nick \ {n} : users'[m] = users[m]
    BY <1>1, <2>1, <2>2 DEF x
  <2>4. \A m \in Nick : RowFits(m)
    <3>1. RowFits(n)
      BY <1>3, <2>1, <2>2, <2>3 DEF RowFits, Added
    <3> QED BY <2>3, <3>1 DEF RowFits
  <2>5. /\ pc' \in [Req -> Step] /\ arg' \in [Req -> Arg] /\ pc'[r] = "mail"
        /\ arg'[r].nick = n /\ arg'[r].id = uid + 1
        /\ \A q \in Req \ {r} : pc'[q] = pc[q] /\ arg'[q] = arg[q]
    BY <1>1, <2>1 DEF Step, Arg
  <2>6. AccountsTyped'
    BY <1>1, <2>1, <2>3, <2>5 DEF AccountsTyped
  <2>7. Checked(r)'
    BY <1>1, <2>1, <2>5 DEF Checked
  <2>8. JobSound'
    BY <1>1, <2>4, JobStays
  <2>9. \A q \in Req : Checked(q)' \/ (pc'[q] = pc[q] /\ arg'[q] = arg[q])
    BY <2>5, <2>7
  <2>10. uid <= uid' /\ letters \subseteq letters'
    BY <1>1, <2>1
  <2> QED BY <2>4, <2>6, <2>8, <2>9, <2>10, RowsKeep DEF Keeps
<1> QED BY <1>2, <1>3

LEMMA MailKeeps == ASSUME AccountsInv, NEW r \in Req, Mail(r) PROVE Keeps
<1>1. AccountsTyped /\ arg[r] \in Arg /\ letters \subseteq Arg
  BY DEF AccountsInv, AccountsTyped
<1>2. /\ Done(r) /\ UNCHANGED <<users, uid, job, started>>
      /\ letters' = letters \cup {arg[r]} \/ letters' = letters
  BY DEF Mail
<1>3. users' \in [Nick -> Account \cup {None}] /\ \A n \in Nick : RowFits(n)
  BY <1>1, <1>2 DEF RowFits, AccountsTyped
<1> QED BY <1>1, <1>2, <1>3, EndKeeps

LEMMA ActivateKeeps == ASSUME AccountsInv, NEW r \in Req, Activate(r) PROVE Keeps
<1>1. PICK n \in Nick : n = arg[r].nick
  BY DEF AccountsInv, AccountsTyped, Checked, Activate
<1>2. /\ AccountsTyped /\ JobSound /\ BanExplained /\ users \in [Nick -> Account \cup {None}]
      /\ letters \subseteq Arg /\ n \in Nick /\ n \notin job.users
      /\ HasId(n, arg[r].id) => Code(n, users[n].email) \in letters
      /\ Done(r) /\ UNCHANGED <<uid, letters, job, started>>
  BY <1>1 DEF AccountsInv, AccountsTyped, Checked, Activate, HeldRow
<1>3. CASE HasId(n, arg[r].id)
  <2>1. users' = [users EXCEPT ![n].activated = TRUE, ![n].late = @ \/ users[n].blocked]
    BY <1>1, <1>3 DEF Activate
  <2>2. Exists(n) /\ users[n] \in Account
    BY <1>2, <1>3, RowTyped DEF HasId
  <2>3. /\ users' \in [Nick -> Account \cup {None}] /\ users'[n] \in Account
        /\ \A m \in Nick \ {n} : users'[m] = users[m]
        /\ users'[n].id = users[n].id /\ users'[n].activated
        /\ users[n].late \/ users[n].blocked => users'[n].late
        /\ users'[n].email = users[n].email /\ users'[n].new_email = users[n].new_email
        /\ users'[n].blocked = users[n].blocked /\ users'[n].ban_info = users[n].ban_info
        /\ users'[n].auto = users[n].auto /\ users'[n].age = users[n].age
    BY <1>2, <2>1, <2>2 DEF Account
  <2>4. /\ users[n].ban_info => users[n].blocked
        /\ n \in job.bans => users[n].blocked /\ users[n].ban_info /\ users[n].age = 2
        /\ Exists(n)' /\ Code(n, users'[n].email) \in letters
    <3>1. Exists(n)'
      BY <2>3, AccountsAssumption DEF Exists
    <3>2. Code(n, users'[n].email) \in letters
      BY <1>2, <1>3, <2>3
    <3> QED BY <1>2, <2>2, <3>1, <3>2 DEF BanExplained, JobSound
  <2>5. Edited(n)
    BY <1>2, <2>2, <2>3, <2>4 DEF Edited
  <2>6. \A m \in Nick : RowFits(m)
    BY <1>2, <2>2, <2>3, <2>5, OneRow
  <2> QED BY <1>2, <2>3, <2>6, EndKeeps
<1>4. CASE ~HasId(n, arg[r].id)
  <2>1. users' = users
    BY <1>1, <1>4 DEF Activate
  <2>2. \A m \in Nick : RowFits(m)
    BY <2>1 DEF RowFits
  <2> QED BY <1>2, <2>1, <2>2, EndKeeps
<1> QED BY <1>3, <1>4

LEMMA StageAddressKeeps == ASSUME AccountsInv, NEW r \in Req, Stage(r) PROVE Keeps
<1> DEFINE n == arg[r].nick
<1>1. /\ AccountsTyped /\ JobSound /\ BanExplained /\ users \in [Nick -> Account \cup {None}]
      /\ letters \subseteq Arg /\ pc \in [Req -> Step] /\ pc[r] = "stage" /\ uid \in Nat
      /\ n \in Nick /\ arg[r].to \in Address /\ arg[r].id <= uid
      /\ pc' = [pc EXCEPT ![r] = "mail"] /\ UNCHANGED <<uid, letters, arg, job, started>>
  BY DEF AccountsInv, AccountsTyped, Checked, Stage
<1>2. users' \in [Nick -> Account \cup {None}] /\ \A m \in Nick : RowFits(m)
  <2>1. CASE HasId(n, arg[r].id)
    <3>1. users' = [users EXCEPT ![n].new_email = arg[r].to]
      BY <2>1 DEF Stage
    <3>2. Exists(n) /\ users[n] \in Account
      BY <1>1, <2>1, RowTyped DEF HasId
    <3>3. /\ users' \in [Nick -> Account \cup {None}] /\ users'[n] \in Account
          /\ \A m \in Nick \ {n} : users'[m] = users[m]
          /\ users'[n].id = users[n].id /\ users'[n].activated = users[n].activated
          /\ users'[n].email = users[n].email /\ users'[n].new_email = arg[r].to
          /\ users'[n].blocked = users[n].blocked /\ users'[n].ban_info = users[n].ban_info
          /\ users'[n].auto = users[n].auto /\ users'[n].late = users[n].late
          /\ users'[n].age = users[n].age
      BY <1>1, <3>1, <3>2 DEF Account
    <3>4. users'[n].new_email # None
      BY <1>1, <3>3, AccountsAssumption
    <3>5. Edited(n)
      BY <1>1, <3>2, <3>3, <3>4, AccountsAssumption DEF Edited, Exists, BanExplained, JobSound
    <3> QED BY <1>1, <3>2, <3>3, <3>5, OneRow
  <2>2. CASE ~HasId(n, arg[r].id)
    BY <1>1, <2>2 DEF Stage, RowFits
  <2> QED BY <2>1, <2>2
<1>3. pc' \in [Req -> Step] /\ pc'[r] = "mail" /\ \A q \in Req \ {r} : pc'[q] = pc[q]
  BY <1>1 DEF Step
<1>4. AccountsTyped'
  BY <1>1, <1>2, <1>3 DEF AccountsTyped
<1>5. Checked(r)'
  BY <1>1, <1>3 DEF Checked
<1>6. JobSound'
  BY <1>1, <1>2, JobStays
<1>7. \A q \in Req : Checked(q)' \/ (pc'[q] = pc[q] /\ arg'[q] = arg[q])
  BY <1>1, <1>3, <1>5
<1>8. uid <= uid' /\ letters \subseteq letters'
  BY <1>1
<1> QED BY <1>2, <1>4, <1>6, <1>7, <1>8, RowsKeep DEF Keeps

LEMMA AcceptKeeps == ASSUME AccountsInv, NEW r \in Req, Accept(r) PROVE Keeps
<1>1. PICK n \in Nick : n = arg[r].nick
  BY DEF AccountsInv, AccountsTyped, Checked, Accept
<1>2. /\ AccountsTyped /\ JobSound /\ BanExplained /\ users \in [Nick -> Account \cup {None}]
      /\ letters \subseteq Arg /\ n \in Nick /\ arg[r].to \in Address
      /\ arg[r] \in letters /\ arg[r] \in Arg
      /\ Done(r) /\ UNCHANGED <<uid, letters, job, started>>
  BY <1>1 DEF AccountsInv, AccountsTyped, Checked, Accept
<1>3. CASE HasId(n, arg[r].id) /\ users[n].new_email = arg[r].to
  <2>1. users' = [users EXCEPT ![n].email = arg[r].to, ![n].new_email = None]
    BY <1>1, <1>3 DEF Accept
  <2>2. Exists(n) /\ users[n] \in Account
    BY <1>2, <1>3, RowTyped DEF HasId
  <2>3. /\ users' \in [Nick -> Account \cup {None}] /\ users'[n] \in Account
        /\ \A m \in Nick \ {n} : users'[m] = users[m]
        /\ users'[n].id = users[n].id /\ users'[n].activated = users[n].activated
        /\ users'[n].email = arg[r].to /\ users'[n].new_email = None
        /\ users'[n].blocked = users[n].blocked /\ users'[n].ban_info = users[n].ban_info
        /\ users'[n].auto = users[n].auto /\ users'[n].late = users[n].late
        /\ users'[n].age = users[n].age
    BY <1>2, <2>1, <2>2 DEF Account
  <2>4. Code(n, users'[n].email) \in letters
    <3>1. Code(n, arg[r].to) = arg[r]
      BY <1>1, <1>2, <1>3 DEF Code, HasId, Arg
    <3> QED BY <1>2, <2>3, <3>1
  <2>5. /\ users[n].ban_info => users[n].blocked
        /\ users[n].blocked => users[n].ban_info \/ users[n].auto \/ users[n].late
        /\ n \in job.users => ~users[n].activated
        /\ n \in job.bans => users[n].blocked /\ users[n].ban_info /\ users[n].age = 2
        /\ n \in job.bans /\ users[n].activated => users[n].late
        /\ Exists(n)' /\ users[n].new_email = arg[r].to
    <3>1. Exists(n)'
      BY <2>3, AccountsAssumption DEF Exists
    <3> QED BY <1>2, <1>3, <2>2, <3>1 DEF BanExplained, JobSound
  <2>6. Edited(n)
    BY <1>2, <2>2, <2>3, <2>4, <2>5 DEF Edited
  <2>7. \A m \in Nick : RowFits(m)
    BY <1>2, <2>2, <2>3, <2>6, OneRow
  <2> QED BY <1>2, <2>3, <2>7, EndKeeps
<1>4. CASE ~(HasId(n, arg[r].id) /\ users[n].new_email = arg[r].to)
  <2>1. users' = users
    BY <1>1, <1>4 DEF Accept
  <2>2. \A m \in Nick : RowFits(m)
    BY <2>1 DEF RowFits
  <2> QED BY <1>2, <2>1, <2>2, EndKeeps
<1> QED BY <1>3, <1>4

\* A block fits where the job has not deleted the account, and an unblock where
\* it has not deleted the row of ban_info, or the job gives up what it deleted.
LEMMA BlockFits ==
    ASSUME AccountsInv, NEW n \in Nick, NEW i, users' = Blocked(n, i),
           n \notin job.users \/ job' # job
    PROVE  users' \in [Nick -> Account \cup {None}] /\ \A m \in Nick : RowFits(m)
<1>1. /\ AccountsTyped /\ JobSound /\ BanExplained /\ users \in [Nick -> Account \cup {None}]
  BY DEF AccountsInv, AccountsTyped
<1>2. CASE HasId(n, i) /\ ~users[n].ban_info
  <2>1. users' = [users EXCEPT ![n].blocked = TRUE, ![n].ban_info = TRUE, ![n].recent = TRUE,
                               ![n].auto = FALSE]
    BY <1>2 DEF Blocked
  <2>2. Exists(n) /\ users[n] \in Account
    BY <1>1, <1>2, RowTyped DEF HasId
  <2> DEFINE x == [users[n] EXCEPT !.blocked = TRUE, !.ban_info = TRUE, !.recent = TRUE,
                                   !.auto = FALSE]
  <2>3. users' = [users EXCEPT ![n] = x]
    BY <2>1, Zenon
  <2>4. x \in Account
    <3>1. x = [[[[users[n] EXCEPT !.blocked = TRUE] EXCEPT !.ban_info = TRUE]
                          EXCEPT !.recent = TRUE] EXCEPT !.auto = FALSE]
      BY Zenon
    <3>2. \A y \in Account :
            /\ [y EXCEPT !.blocked = TRUE] \in Account
            /\ [y EXCEPT !.ban_info = TRUE] \in Account
            /\ [y EXCEPT !.recent = TRUE] \in Account
            /\ [y EXCEPT !.auto = FALSE] \in Account
      BY DEF Account
    <3> HIDE DEF x
    <3> QED BY <2>2, <3>1, <3>2
  <2>5. /\ users' \in [Nick -> Account \cup {None}] /\ users'[n] \in Account
        /\ \A m \in Nick \ {n} : users'[m] = users[m]
    <3> HIDE DEF x
    <3> QED BY <1>1, <2>3, <2>4
  <2>6. /\ users'[n].id = users[n].id /\ users'[n].activated = users[n].activated
        /\ users'[n].email = users[n].email /\ users'[n].new_email = users[n].new_email
        /\ users'[n].blocked /\ users'[n].ban_info
    BY <1>1, <2>1, <2>2 DEF Account
  <2>7. n \notin job.bans
    BY <1>1, <1>2 DEF JobSound
  <2>8. n \in job.users => ~users[n].activated
    BY <1>1 DEF JobSound
  <2>9. Edited(n)
    BY <2>2, <2>6, <2>7, <2>8, <2>5, AccountsAssumption DEF Edited, Exists
  <2> QED BY <1>1, <2>2, <2>9, <2>5, OneRow
<1>3. CASE ~(HasId(n, i) /\ ~users[n].ban_info)
  BY <1>1, <1>3 DEF Blocked, RowFits
<1> QED BY <1>2, <1>3

LEMMA UnblockFits ==
    ASSUME AccountsInv, NEW n \in Nick, NEW i, users' = Unblocked(n, i),
           n \notin job.bans \/ job' # job
    PROVE  users' \in [Nick -> Account \cup {None}] /\ \A m \in Nick : RowFits(m)
<1>1. /\ AccountsTyped /\ JobSound /\ users \in [Nick -> Account \cup {None}]
  BY DEF AccountsInv, AccountsTyped
<1>2. CASE HasId(n, i)
  <2>1. users' = [users EXCEPT ![n].blocked = FALSE, ![n].ban_info = FALSE, ![n].auto = FALSE]
    BY <1>2 DEF Unblocked
  <2>2. Exists(n) /\ users[n] \in Account
    BY <1>1, <1>2, RowTyped DEF HasId
  <2> DEFINE x == [users[n] EXCEPT !.blocked = FALSE, !.ban_info = FALSE, !.auto = FALSE]
  <2>3. users' = [users EXCEPT ![n] = x]
    BY <2>1, Zenon
  <2>4. x \in Account
    <3>1. x = [[[users[n] EXCEPT !.blocked = FALSE] EXCEPT !.ban_info = FALSE]
                         EXCEPT !.auto = FALSE]
      BY Zenon
    <3>2. \A y \in Account :
            /\ [y EXCEPT !.blocked = FALSE] \in Account
            /\ [y EXCEPT !.ban_info = FALSE] \in Account
            /\ [y EXCEPT !.auto = FALSE] \in Account
      BY DEF Account
    <3> HIDE DEF x
    <3> QED BY <2>2, <3>1, <3>2
  <2>5. /\ users' \in [Nick -> Account \cup {None}] /\ users'[n] \in Account
        /\ \A m \in Nick \ {n} : users'[m] = users[m]
    <3> HIDE DEF x
    <3> QED BY <1>1, <2>3, <2>4
  <2>6. /\ users'[n].id = users[n].id /\ users'[n].activated = users[n].activated
        /\ users'[n].email = users[n].email /\ users'[n].new_email = users[n].new_email
        /\ ~users'[n].blocked /\ ~users'[n].ban_info
    BY <1>1, <2>1, <2>2 DEF Account
  <2>7. n \in job.users => ~users[n].activated
    BY <1>1 DEF JobSound
  <2>8. Edited(n)
    BY <2>2, <2>6, <2>7, <2>5, AccountsAssumption DEF Edited, Exists
  <2> QED BY <1>1, <2>2, <2>8, <2>5, OneRow
<1>3. CASE ~HasId(n, i)
  BY <1>1, <1>3 DEF Unblocked, RowFits
<1> QED BY <1>2, <1>3

LEMMA BlocksKeep ==
    ASSUME AccountsInv, NEW r \in Req, Block(r) \/ Unblock(r) \/ Deadlock(r) PROVE Keeps
<1> DEFINE n == arg[r].nick
<1>1. /\ AccountsTyped /\ JobSound /\ users \in [Nick -> Account \cup {None}]
      /\ letters \subseteq Arg /\ n \in Nick
      /\ Done(r) /\ UNCHANGED <<uid, letters, started>>
  BY DEF AccountsInv, AccountsTyped, Checked, Block, Unblock, Deadlock
<1>2. /\ users' \in [Nick -> Account \cup {None}] /\ \A m \in Nick : RowFits(m)
      /\ job' = job \/ job' = Idle
  <2>1. CASE Block(r)
    <3>1. users' = Blocked(n, arg[r].id) /\ n \notin job.users /\ job' = job
      BY <2>1 DEF Block, HeldRow
    <3> QED BY <1>1, <3>1, BlockFits
  <2>2. CASE Unblock(r)
    <3>1. users' = Unblocked(n, arg[r].id) /\ n \notin job.bans /\ job' = job
      BY <2>2 DEF Unblock, HeldBan
    <3> QED BY <1>1, <3>1, UnblockFits
  <2>3. CASE Deadlock(r)
    <3>1. job.at = "blocked" /\ job # Idle
      BY <2>3 DEF Deadlock, Idle
    <3>2. CASE users' = users /\ job' = job
      BY <1>1, <3>2 DEF RowFits
    <3>3. CASE users' = Blocked(n, arg[r].id) /\ job' = Idle
      BY <1>1, <3>1, <3>3, BlockFits
    <3>4. CASE users' = Unblocked(n, arg[r].id) /\ job' = Idle
      BY <1>1, <3>1, <3>4, UnblockFits
    <3> QED BY <2>3, <3>2, <3>3, <3>4 DEF Deadlock
  <2> QED BY <2>1, <2>2, <2>3
<1> QED BY <1>1, <1>2, EndKeeps

\* A step outside the requests: they wait.
LEMMA WaitingKeeps ==
    ASSUME AccountsInv, users' \in [Nick -> Account \cup {None}], \A n \in Nick : RowFits(n),
           job' \in JobRow, JobSound', UNCHANGED <<uid, letters, pc, arg, started>>
    PROVE  Keeps
<1>1. AccountsTyped /\ uid \in Nat
  BY DEF AccountsInv, AccountsTyped
<1>2. AccountsTyped'
  BY <1>1 DEF AccountsTyped
<1>3. uid <= uid' /\ letters \subseteq letters'
  BY <1>1
<1>4. \A q \in Req : pc'[q] = pc[q] /\ arg'[q] = arg[q]
  OBVIOUS
<1> QED BY <1>2, <1>3, <1>4, RowsKeep DEF Keeps

LEMMA LowScoreKeeps == ASSUME AccountsInv, NEW n \in Nick, LowScore(n) PROVE Keeps
<1>1. /\ AccountsTyped /\ JobSound /\ BanExplained /\ users \in [Nick -> Account \cup {None}]
      /\ job \in JobRow /\ Exists(n) /\ ~users[n].blocked /\ n \notin job.users
      /\ UNCHANGED <<uid, letters, pc, arg, job, started>>
      /\ users' = [users EXCEPT ![n].blocked = TRUE, ![n].auto = TRUE]
  BY DEF AccountsInv, AccountsTyped, LowScore, HeldRow
<1>2. users[n] \in Account
  BY <1>1, RowTyped
<1>3. /\ users' \in [Nick -> Account \cup {None}] /\ users'[n] \in Account
      /\ \A m \in Nick \ {n} : users'[m] = users[m]
      /\ users'[n].id = users[n].id /\ users'[n].activated = users[n].activated
      /\ users'[n].email = users[n].email /\ users'[n].new_email = users[n].new_email
      /\ users'[n].blocked /\ users'[n].ban_info = users[n].ban_info /\ users'[n].auto
  BY <1>1, <1>2 DEF Account
<1>4. Exists(n)' /\ n \notin job.bans
  BY <1>1, <1>3, AccountsAssumption DEF Exists, JobSound
<1>5. Edited(n)
  BY <1>1, <1>3, <1>4 DEF Edited
<1>6. \A m \in Nick : RowFits(m)
  BY <1>1, <1>3, <1>5, OneRow
<1>7. JobSound'
  BY <1>1, <1>6, JobStays
<1> QED BY <1>1, <1>3, <1>6, <1>7, WaitingKeeps

LEMMA AgesKeeps == ASSUME AccountsInv, NEW n \in Nick, Ages(n) PROVE Keeps
<1>1. /\ AccountsTyped /\ JobSound /\ BanExplained /\ users \in [Nick -> Account \cup {None}]
      /\ job \in JobRow /\ Exists(n) /\ UNCHANGED <<uid, letters, pc, arg, job, started>>
      /\ \/ users[n].age < 2 /\ users' = [users EXCEPT ![n].age = @ + 1]
         \/ users' = [users EXCEPT ![n].recent = FALSE]
  BY DEF AccountsInv, AccountsTyped, Ages
<1>2. users[n] \in Account /\ users[n].age \in 0..2
  BY <1>1, RowTyped
<1>3. /\ users' \in [Nick -> Account \cup {None}] /\ users'[n] \in Account
      /\ \A m \in Nick \ {n} : users'[m] = users[m]
      /\ users'[n].id = users[n].id /\ users'[n].activated = users[n].activated
      /\ users'[n].email = users[n].email /\ users'[n].new_email = users[n].new_email
      /\ users'[n].blocked = users[n].blocked /\ users'[n].ban_info = users[n].ban_info
      /\ users'[n].auto = users[n].auto /\ users'[n].late = users[n].late
      /\ users'[n].age = users[n].age \/ users[n].age # 2
  <2>1. CASE users[n].age < 2 /\ users' = [users EXCEPT ![n].age = @ + 1]
    <3>1. users[n].age + 1 \in 0..2 /\ users[n].age # 2
      BY <1>2, <2>1
    <3> QED BY <1>1, <1>2, <2>1, <3>1 DEF Account
  <2>2. CASE users' = [users EXCEPT ![n].recent = FALSE]
    BY <1>1, <1>2, <2>2 DEF Account
  <2> QED BY <1>1, <2>1, <2>2
<1>4. /\ Exists(n)'
      /\ users[n].ban_info => users[n].blocked
      /\ users[n].blocked => users[n].ban_info \/ users[n].auto \/ users[n].late
      /\ n \in job.users => ~users[n].activated
      /\ n \in job.bans => /\ users[n].blocked /\ users[n].ban_info /\ users[n].age = 2
                           /\ users[n].activated => users[n].late
  <2>1. Exists(n)'
    BY <1>3, AccountsAssumption DEF Exists
  <2> QED BY <1>1, <2>1 DEF BanExplained, JobSound
<1>5. Edited(n)
  BY <1>1, <1>3, <1>4 DEF Edited
<1>6. \A m \in Nick : RowFits(m)
  BY <1>1, <1>3, <1>5, OneRow
<1>7. JobSound'
  BY <1>1, <1>6, JobStays
<1> QED BY <1>1, <1>3, <1>6, <1>7, WaitingKeeps

LEMMA JobKeeps == ASSUME AccountsInv, JobStep PROVE Keeps
<1>1. /\ AccountsTyped /\ JobSound /\ BanExplained /\ users \in [Nick -> Account \cup {None}]
      /\ job \in JobRow /\ job.users \in SUBSET Nick /\ job.bans \in SUBSET Nick
  BY DEF AccountsInv, AccountsTyped, JobRow
<1>2. /\ Idle \in JobRow /\ UNCHANGED <<uid, letters, pc, arg, started>>
  BY DEF Idle, JobRow, JobStep, JobRegular, JobBans, JobBlocked, JobCommit
<1>3. ASSUME UNCHANGED users, job' \in JobRow, JobSound' PROVE Keeps
  BY <1>1, <1>2, <1>3, WaitingKeeps DEF RowFits
<1>4. ASSUME UNCHANGED users PROVE \A n \in Nick : Exists(n)' = Exists(n)
  BY <1>4 DEF Exists
<1>5. CASE JobRegular
  <2>1. /\ users' = users /\ job.at = "idle" /\ job.bans = {}
        /\ job' = [job EXCEPT !.at = "bans", !.users = {n \in Nick : Dormant(n)}]
    BY <1>1, <1>5 DEF JobRegular, JobSound
  <2>2. /\ job'.at = "bans" /\ job'.bans = {} /\ job'.users = {n \in Nick : Dormant(n)}
        /\ job' \in JobRow
    BY <1>1, <2>1 DEF JobRow
  <2>3. JobSound'
    BY <1>4, <2>1, <2>2 DEF JobSound, Dormant, Unused
  <2> QED BY <1>3, <2>1, <2>2, <2>3
<1>6. CASE JobBans
  <2> DEFINE B == {n \in Nick \ job.users : Abandoned(n) /\ users[n].ban_info}
  <2>1. users' = users /\ job.at = "bans" /\ job' = [job EXCEPT !.at = "blocked", !.bans = B]
    BY <1>6 DEF JobBans
  <2>2. /\ B \in SUBSET Nick
        /\ \A n \in B : /\ Exists(n) /\ users[n].blocked /\ users[n].ban_info /\ users[n].age = 2
                        /\ ~users[n].activated
    BY <1>1 DEF Abandoned, Unused, BanExplained
  <2> HIDE DEF B
  <2>3. job'.at = "blocked" /\ job'.bans = B /\ job'.users = job.users /\ job' \in JobRow
    BY <1>1, <2>1, <2>2 DEF JobRow
  <2>4. JobSound'
    BY <1>1, <1>4, <2>1, <2>2, <2>3 DEF JobSound
  <2> QED BY <1>3, <2>1, <2>3, <2>4
<1>7. CASE JobBlocked
  <2> DEFINE more == {n \in Nick \ job.users : Abandoned(n)}
  <2>1. /\ users' = users /\ job.at = "blocked"
        /\ job' = Idle \/ job' = [job EXCEPT !.at = "commit", !.users = @ \cup more]
    BY <1>7 DEF JobBlocked
  <2>2. /\ more \in SUBSET Nick
        /\ \A n \in more : Exists(n) /\ ~users[n].activated
        /\ \A n \in Nick \ (job.users \cup more) :
             Exists(n) /\ users[n].age = 2 => users[n].activated
    BY <1>1 DEF Abandoned, Unused
  <2> HIDE DEF more
  <2>3. CASE job' = Idle
    BY <1>2, <1>3, <2>1, <2>3 DEF JobSound, Idle
  <2>4. CASE job' = [job EXCEPT !.at = "commit", !.users = @ \cup more]
    <3>1. job'.at = "commit" /\ job'.bans = job.bans /\ job'.users = job.users \cup more /\ job' \in JobRow
      BY <1>1, <2>2, <2>4 DEF JobRow
    <3>2. JobSound'
      BY <1>1, <1>4, <2>1, <2>2, <3>1 DEF JobSound
    <3> QED BY <1>3, <2>1, <3>1, <3>2
  <2> QED BY <2>1, <2>3, <2>4
<1>8. CASE JobCommit
  <2>1. /\ job.at = "commit" /\ job' = Idle
        /\ users' = [n \in Nick |-> IF n \in job.users THEN None
                                    ELSE IF n \in job.bans THEN [users[n] EXCEPT !.ban_info = FALSE]
                                    ELSE users[n]]
    BY <1>8 DEF JobCommit
  <2>2. job # Idle
    BY <2>1 DEF Idle
  <2>3. ASSUME NEW n \in Nick PROVE RowFits(n) /\ users'[n] \in Account \cup {None}
    <3>1. CASE n \in job.users
      BY <2>1, <3>1 DEF RowFits, Removed, Exists
    <3>2. CASE n \notin job.users /\ n \in job.bans
      <4>1. /\ users'[n] = [users[n] EXCEPT !.ban_info = FALSE] /\ users[n] \in Account
            /\ Exists(n) /\ users[n].blocked /\ users[n].activated /\ users[n].late
        BY <1>1, <2>1, <3>2, RowTyped DEF JobSound
      <4>2. /\ users'[n] \in Account
            /\ users'[n].id = users[n].id /\ users'[n].activated = users[n].activated
            /\ users'[n].email = users[n].email /\ users'[n].new_email = users[n].new_email
            /\ users'[n].blocked /\ ~users'[n].ban_info /\ users'[n].late
        <5>1. PICK a \in Account : a = users[n]
          BY <4>1
        <5>2. a.blocked /\ a.late /\ users'[n] = [a EXCEPT !.ban_info = FALSE]
          BY <4>1, <5>1
        <5> QED BY <5>1, <5>2 DEF Account
      <4>3. Exists(n)'
        BY <4>2, AccountsAssumption DEF Exists
      <4>4. Edited(n)
        BY <2>1, <2>2, <4>1, <4>2, <4>3 DEF Edited
      <4> QED BY <4>2, <4>4 DEF RowFits
    <3>3. CASE n \notin job.users /\ n \notin job.bans
      BY <1>1, <2>1, <3>3 DEF RowFits
    <3> QED BY <3>1, <3>2, <3>3
  <2>4. users' \in [Nick -> Account \cup {None}]
    BY <2>1, <2>3
  <2>5. JobSound'
    BY <2>1 DEF JobSound, Idle
  <2> QED BY <1>2, <2>1, <2>3, <2>4, <2>5, WaitingKeeps
<1> QED BY <1>5, <1>6, <1>7, <1>8 DEF JobStep

LEMMA StepAccounts == ASSUME AccountsInv, [Next]_vars PROVE Keeps
<1>1. CASE UNCHANGED vars
  <2>1. \A n \in Nick : RowFits(n)
    BY <1>1 DEF vars, RowFits
  <2>2. JobSound'
    BY <1>1, <2>1, JobStays DEF vars
  <2> QED BY <1>1, <2>1, <2>2, WaitingKeeps DEF vars, AccountsInv, AccountsTyped
<1>2. ASSUME NEW r \in Req, Write(r) PROVE Keeps
  BY <1>2, InsertUserKeeps, MailKeeps, ActivateKeeps, StageAddressKeeps, AcceptKeeps, BlocksKeep DEF Write
<1>3. ASSUME NEW r \in Req, NEW n \in Nick, Check(r, n) PROVE Keeps
  BY <1>3, CheckKeeps
<1>4. ASSUME NEW n \in Nick, LowScore(n) \/ Ages(n) PROVE Keeps
  BY <1>4, LowScoreKeeps, AgesKeeps
<1>5. CASE JobStep
  BY <1>5, JobKeeps
<1> QED BY <1>1, <1>2, <1>3, <1>4, <1>5 DEF Next

\* Whatever blocks, unblocks, activations and cleanups run side by side, a row
\* of ban_info belongs to a blocked account, a blocked account says why, and the
\* address of an activated account is one to which its code was mailed
\* (registration, account_profile, account_recovery, user_moderation, the job).
THEOREM AccountsStayConsistent == Spec => []AccountsConsistent
<1>1. AccountsInv => AccountsConsistent
  BY DEF AccountsInv, AccountsTyped, JobRow, Step, AccountsConsistent, TypeOK
<1>2. AccountsInv /\ [Next]_vars => AccountsInv'
  BY StepAccounts DEF Keeps
<1> QED BY <1>1, <1>2, InitAccounts, PTL DEF Spec

\* No step deletes an activated account, or drops an address that waits for its
\* code without accepting it.
LEMMA ConfirmedIsKept == ASSUME AccountsInv, [Next]_vars PROVE KeepsConfirmed
<1>1. Keeps /\ JobSound
  BY StepAccounts DEF AccountsInv
<1>2. ASSUME NEW n \in Nick PROVE KeepsActivated(n) /\ KeepsStaged(n)
  <2>1. RowFits(n) /\ (n \in job.users => ~users[n].activated)
    BY <1>1 DEF Keeps, JobSound
  <2>2. KeepsActivated(n)
    BY <2>1 DEF KeepsActivated, Same, RowFits, Edited, Added, Removed, Exists
  <2>3. KeepsStaged(n)
    BY <2>1 DEF KeepsStaged, Same, RowFits, Edited, Added, Removed, Exists
  <2> QED BY <2>2, <2>3
<1> QED BY <1>2 DEF KeepsConfirmed
-----------------------------------------------------------------------------
(* Credentials *)

CredentialStep == {"idle", "upgrade", "reread", "cookie", "change", "identity",
                   "letter", "lostpwd", "reset"}
CredentialsTyped ==
    /\ row \in S!Row /\ asked \in BOOLEAN
    /\ cookies \subseteq S!Identity /\ dead \subseteq S!Identity
    /\ codes \subseteq Nat /\ void \subseteq Nat /\ begun \in Nat /\ salts \in Nat
    /\ spc \in [Req -> CredentialStep]
    /\ sarg \in [Req -> [id : S!Identity, code : Nat, own : BOOLEAN]]

\* Identities are of the past or of now: salts and generations only grow.
Held == cookies \cup dead \cup {sarg[r].id : r \in Req}
Past ==
    /\ \A c \in Held : c.passwd.salt <= salts /\ c.gen <= row.gen
    /\ row.passwd.salt <= salts /\ row.passwd.word <= salts
Ended == \A c \in dead : c.passwd # row.passwd \/ c.gen # row.gen

\* A code that is about to be stored was never stored before, nor is another
\* request about to.
Lost(r) == spc[r] \in {"letter", "lostpwd"}
CodesNew ==
    /\ row.lost \in 0 .. begun /\ void \subseteq 0 .. begun
    /\ \A r \in Req : Lost(r) =>
         /\ sarg[r].code \in 1 .. begun /\ sarg[r].code # row.lost /\ sarg[r].code \notin void
         /\ \A q \in Req \ {r} : Lost(q) => sarg[q].code # sarg[r].code

CredentialsInv == CredentialsTyped /\ Past /\ Ended /\ CodesNew /\ S!CodesEnd


LEMMA InitCredentials == ASSUME S!Init PROVE CredentialsInv
<1>1. /\ row \in S!Row /\ row.lost = 0 /\ row.gen = 0
      /\ row.passwd.salt = 0 /\ row.passwd.word = 0
  BY DEF S!Init, S!Row, S!Hash
<1>2. S!NoArg \in [id : S!Identity, code : Nat, own : BOOLEAN]
  BY <1>1 DEF S!NoArg, S!StIdentity, S!Identity, S!Row
<1>3. CredentialsTyped
  BY <1>1, <1>2 DEF S!Init, CredentialsTyped, CredentialStep
<1>4. \A r \in Req : sarg[r].id.passwd = row.passwd /\ sarg[r].id.gen = row.gen
  BY DEF S!Init, S!NoArg, S!StIdentity
<1>5. Past /\ Ended
  BY <1>1, <1>4 DEF S!Init, Past, Held, Ended
<1>6. CodesNew /\ S!CodesEnd
  BY <1>1 DEF S!Init, CodesNew, Lost, S!CodesEnd
<1> QED BY <1>3, <1>5, <1>6 DEF CredentialsInv

\* What the row and the identities are made of.
LEMMA CredentialData ==
    ASSUME CredentialsTyped
    PROVE  /\ row.passwd \in S!Hash /\ row.passwd.word \in Nat /\ row.passwd.salt \in Nat
           /\ row.gen \in Nat /\ row.lost \in Nat
           /\ S!StIdentity \in S!Identity
           /\ S!StIdentity.passwd = row.passwd /\ S!StIdentity.gen = row.gen
           /\ Held \subseteq S!Identity
           /\ \A c \in Held : c.passwd \in S!Hash /\ c.passwd.salt \in Nat /\ c.gen \in Nat
           /\ S!Issued \subseteq Held
<1>1. row.passwd \in S!Hash /\ row.gen \in Nat /\ row.lost \in Nat
  BY DEF CredentialsTyped, S!Row
<1>2. \A h \in S!Hash : h.word \in Nat /\ h.salt \in Nat
  BY DEF S!Hash
<1>3. \A c \in S!Identity : c.passwd \in S!Hash /\ c.gen \in Nat
  BY DEF S!Identity
<1>4. Held \subseteq S!Identity
  BY DEF Held, CredentialsTyped
<1>5. S!Issued \subseteq Held
  BY DEF S!Issued, Held
<1>6. /\ S!StIdentity \in S!Identity
      /\ S!StIdentity.passwd = row.passwd /\ S!StIdentity.gen = row.gen
  BY <1>1 DEF S!StIdentity, S!Identity
<1> QED BY <1>1, <1>2, <1>3, <1>4, <1>5, <1>6

\* A step that leaves the password and the generation alone, and moves
\* identities only from the row or among those that hold one.
LEMMA QuietKeeps ==
    ASSUME CredentialsInv, CredentialsTyped',
           row'.passwd = row.passwd, row'.gen = row.gen, salts' = salts, dead' = dead,
           \A c \in Held' : \/ c \in Held
                            \/ \E d \in Held \cup {S!StIdentity} :
                                 c.gen = d.gen /\ c.passwd = row.passwd
    PROVE  Past' /\ Ended'
<1>1. CredentialsTyped /\ Past /\ Ended
  BY DEF CredentialsInv
<1>2. \A c \in Held' : c.passwd.salt <= salts /\ c.gen <= row.gen
  BY <1>1, CredentialData DEF Past
<1> QED BY <1>1, <1>2 DEF Past, Ended

\* A step that sets the password anew, or ends all sessions.
LEMMA LoudKeeps ==
    ASSUME CredentialsInv, CredentialsTyped', dead' = dead \cup S!Issued,
           \/ /\ salts' = salts + 1 /\ row'.passwd.salt = salts + 1
              /\ row'.passwd.word <= salts + 1 /\ row'.gen = row.gen
           \/ salts' = salts /\ row'.passwd = row.passwd /\ row'.gen = row.gen + 1,
           \A c \in Held' : \/ c \in Held
                            \/ c.passwd = row'.passwd /\ \E d \in Held : c.gen = d.gen
    PROVE  Past' /\ Ended'
<1>1. CredentialsTyped /\ Past /\ Ended
  BY DEF CredentialsInv
<1>2. salts \in Nat
  BY <1>1 DEF CredentialsTyped
<1>3. \A c \in Held' : c.passwd.salt <= salts' /\ c.gen <= row'.gen
  BY <1>1, <1>2, CredentialData DEF Past
<1>4. row'.passwd.salt <= salts' /\ row'.passwd.word <= salts'
  BY <1>1, <1>2, CredentialData DEF Past
<1>5. dead' \subseteq Held
  BY <1>1, CredentialData DEF Held
<1>6. ASSUME NEW c \in dead' PROVE c.passwd # row'.passwd \/ c.gen # row'.gen
  BY <1>1, <1>2, <1>5, CredentialData DEF Past
<1> QED BY <1>3, <1>4, <1>6 DEF Past, Ended

\* A step that stores no code keeps the codes apart.
LEMMA NoCodeStored ==
    ASSUME CredentialsInv, begun' \in Nat, begun <= begun',
           \/ row'.lost = row.lost /\ void' = void
           \/ row'.lost = 0 /\ void' = void \cup {row.lost},
           \A r \in Req : Lost(r)' => Lost(r) /\ sarg'[r].code = sarg[r].code
    PROVE  CodesNew' /\ S!CodesEnd'
<1>1. CredentialsTyped /\ CodesNew /\ S!CodesEnd /\ begun \in Nat
  BY DEF CredentialsInv, CredentialsTyped
<1>2. row'.lost \in 0 .. begun' /\ void' \subseteq 0 .. begun'
  <2>1. row.lost \in 0 .. begun /\ void \subseteq 0 .. begun
    BY <1>1 DEF CodesNew
  <2>2. row.lost \in 0 .. begun' /\ void \subseteq 0 .. begun' /\ 0 \in 0 .. begun'
    BY <1>1, <2>1
  <2>3. void \cup {row.lost} \subseteq 0 .. begun'
    BY <2>2
  <2> QED BY <2>2, <2>3
<1>3. ASSUME NEW r \in Req, Lost(r)'
      PROVE  /\ sarg'[r].code \in 1 .. begun' /\ sarg'[r].code # row'.lost
             /\ sarg'[r].code \notin void'
             /\ \A q \in Req \ {r} : Lost(q)' => sarg'[q].code # sarg'[r].code
  <2>1. Lost(r) /\ sarg'[r].code = sarg[r].code
    BY <1>3
  <2>2. /\ sarg[r].code \in 1 .. begun /\ sarg[r].code # row.lost /\ sarg[r].code \notin void
        /\ \A q \in Req \ {r} : Lost(q) => sarg[q].code # sarg[r].code
    BY <1>1, <2>1 DEF CodesNew
  <2>3. \A q \in Req \ {r} : Lost(q)' => sarg'[q].code # sarg'[r].code
    BY <2>1, <2>2
  <2> QED BY <1>1, <2>1, <2>2, <2>3
<1> QED BY <1>1, <1>2, <1>3 DEF CodesNew, S!CodesEnd

\* What a request takes along when it begins.
LEMMA BeginsWith ==
    ASSUME CredentialsInv, NEW r \in Req, NEW step \in CredentialStep, NEW o \in BOOLEAN,
           S!BeginFor(r, step, o)
    PROVE  /\ spc[r] = "idle" /\ spc' = [spc EXCEPT ![r] = step] /\ spc' \in [Req -> CredentialStep]
           /\ sarg' = [sarg EXCEPT ![r] = [id |-> S!StIdentity, code |-> begun + 1, own |-> o]]
           /\ sarg' \in [Req -> [id : S!Identity, code : Nat, own : BOOLEAN]]
           /\ begun' = begun + 1 /\ begun' \in Nat
           /\ \A q \in Req : sarg'[q].id = IF q = r THEN S!StIdentity ELSE sarg[q].id
           /\ \A q \in Req : sarg'[q].code = IF q = r THEN begun + 1 ELSE sarg[q].code
<1>1. CredentialsTyped /\ S!StIdentity \in S!Identity /\ begun \in Nat
  BY CredentialData DEF CredentialsInv, CredentialsTyped
<1>2. /\ spc' = [spc EXCEPT ![r] = step] /\ begun' = begun + 1 /\ spc[r] = "idle"
      /\ sarg' = [sarg EXCEPT ![r] = [id |-> S!StIdentity, code |-> begun + 1, own |-> o]]
  BY DEF S!BeginFor
<1>3. spc' \in [Req -> CredentialStep]
  BY <1>1, <1>2 DEF CredentialsTyped
<1>4. [id |-> S!StIdentity, code |-> begun + 1, own |-> o] \in [id : S!Identity, code : Nat, own : BOOLEAN]
  BY <1>1
<1>5. sarg \in [Req -> [id : S!Identity, code : Nat, own : BOOLEAN]]
  BY <1>1 DEF CredentialsTyped
<1> QED BY <1>1, <1>2, <1>3, <1>4, <1>5

\* Requests that begin with a look at the row and with nothing else.
LEMMA BeginKeeps ==
    ASSUME CredentialsInv, NEW r \in Req, NEW step \in CredentialStep \ {"letter", "lostpwd"},
           S!BeginFor(r, step, TRUE), UNCHANGED <<row, asked, cookies, codes, salts, dead, void>>
    PROVE  CredentialsInv'
<1>1. CredentialsTyped /\ begun \in Nat
  BY DEF CredentialsInv, CredentialsTyped
<1>2. /\ spc' = [spc EXCEPT ![r] = step] /\ spc' \in [Req -> CredentialStep]
      /\ sarg' \in [Req -> [id : S!Identity, code : Nat, own : BOOLEAN]]
      /\ begun' = begun + 1 /\ begun' \in Nat
      /\ \A q \in Req : sarg'[q].id = IF q = r THEN S!StIdentity ELSE sarg[q].id
      /\ \A q \in Req : sarg'[q].code = IF q = r THEN begun + 1 ELSE sarg[q].code
  <2>1. step \in CredentialStep /\ TRUE \in BOOLEAN
    OBVIOUS
  <2> QED BY <2>1, BeginsWith
<1>3. CredentialsTyped'
  BY <1>1, <1>2 DEF CredentialsTyped
<1>4. \A c \in Held' : c \in Held \/ c = S!StIdentity
  BY <1>2 DEF Held
<1>5. Past' /\ Ended'
  <2>1. S!StIdentity.passwd = row.passwd
    BY <1>1, CredentialData
  <2> QED BY <1>3, <1>4, <2>1, QuietKeeps
<1>6. \A q \in Req : Lost(q)' => Lost(q) /\ sarg'[q].code = sarg[q].code
  BY <1>1, <1>2 DEF Lost, CredentialsTyped
<1>7. CodesNew' /\ S!CodesEnd'
  BY <1>1, <1>2, <1>6, NoCodeStored
<1> QED BY <1>3, <1>5, <1>7 DEF CredentialsInv

LEMMA LostCheckKeeps ==
    ASSUME CredentialsInv, NEW r \in Req, NEW o \in BOOLEAN, S!LostCheck(r, o)
    PROVE  CredentialsInv'
<1>1. CredentialsTyped /\ CodesNew /\ S!CodesEnd /\ begun \in Nat
  BY DEF CredentialsInv, CredentialsTyped
<1>2. S!BeginFor(r, "letter", o) /\ UNCHANGED <<row, asked, cookies, codes, salts, dead, void>>
  BY DEF S!LostCheck
<1>3. "letter" \in CredentialStep
  BY DEF CredentialStep
<1>4. CredentialsTyped'
  BY <1>1, <1>2, <1>3, BeginsWith DEF CredentialsTyped
<1>5. \A c \in Held' : c \in Held \/ c = S!StIdentity
  BY <1>2, <1>3, BeginsWith DEF Held
<1>6. Past' /\ Ended'
  <2>1. S!StIdentity.passwd = row.passwd
    BY <1>1, CredentialData
  <2> QED BY <1>2, <1>4, <1>5, <2>1, QuietKeeps
<1>7. /\ begun' = begun + 1 /\ sarg'[r].code = begun + 1
      /\ \A q \in Req \ {r} : sarg'[q].code = sarg[q].code /\ (Lost(q)' => Lost(q))
  BY <1>1, <1>2, <1>3, BeginsWith DEF Lost, CredentialsTyped
<1>8. row.lost \in 0 .. begun /\ void \subseteq 0 .. begun
      /\ \A q \in Req : Lost(q) => sarg[q].code \in 1 .. begun
  BY <1>1 DEF CodesNew
<1>9. row.lost \in 0 .. begun + 1 /\ void \subseteq 0 .. begun + 1
      /\ begun + 1 # row.lost /\ begun + 1 \notin void
      /\ \A q \in Req : Lost(q) => sarg[q].code \in 1 .. begun + 1 /\ sarg[q].code # begun + 1
  BY <1>1, <1>8
<1>10. CodesNew'
  <2>1. ASSUME NEW q \in Req, Lost(q)'
        PROVE  /\ sarg'[q].code \in 1 .. begun' /\ sarg'[q].code # row.lost
               /\ sarg'[q].code \notin void
               /\ \A p \in Req \ {q} : Lost(p)' => sarg'[p].code # sarg'[q].code
    <3>1. CASE q = r
      BY <1>1, <1>7, <1>9, <3>1
    <3>2. CASE q # r
      <4>1. Lost(q) /\ sarg'[q].code = sarg[q].code
        BY <1>7, <2>1, <3>2
      <4>2. /\ sarg[q].code # row.lost /\ sarg[q].code \notin void
            /\ \A p \in Req \ {q} : Lost(p) => sarg[p].code # sarg[q].code
        BY <1>1, <4>1 DEF CodesNew
      <4> QED BY <1>7, <1>9, <4>1, <4>2
    <3> QED BY <3>1, <3>2
  <2> QED BY <1>2, <1>7, <1>9, <2>1 DEF CodesNew
<1>11. S!CodesEnd'
  BY <1>1, <1>2 DEF S!CodesEnd
<1> QED BY <1>4, <1>6, <1>10, <1>11 DEF CredentialsInv

\* The steps of a login after its check.
LEMMA UpgradeKeeps ==
    ASSUME CredentialsInv, NEW r \in Req, S!Upgrade(r) PROVE CredentialsInv'
<1>1. CredentialsTyped /\ begun \in Nat /\ salts \in Nat /\ Past
  BY DEF CredentialsInv, CredentialsTyped
<1>2. sarg[r].id \in S!Identity /\ sarg[r].id \in Held /\ sarg[r] \in [id : S!Identity, code : Nat, own : BOOLEAN]
  BY <1>1 DEF CredentialsTyped, Held
<1> DEFINE n == [sarg[r].id.passwd EXCEPT !.salt = salts + 1]
<1>3. n \in S!Hash /\ n.salt = salts + 1 /\ n.word = sarg[r].id.passwd.word
  BY <1>1, <1>2, CredentialData DEF S!Hash
<1> HIDE DEF n
<1>4. CASE row.passwd = sarg[r].id.passwd
  <2>1. /\ row' = [row EXCEPT !.passwd = n] /\ sarg' = [sarg EXCEPT ![r].id.passwd = n]
        /\ dead' = dead \cup S!Issued /\ salts' = salts + 1
        /\ spc' = [spc EXCEPT ![r] = "cookie"]
        /\ UNCHANGED <<asked, cookies, codes, begun, void>>
    BY <1>4 DEF S!Upgrade, S!Goto, n
  <2>2. row' \in S!Row /\ row'.passwd = n /\ row'.gen = row.gen /\ row'.lost = row.lost
    BY <1>1, <1>3, <2>1 DEF CredentialsTyped, S!Row
  <2>3. [sarg[r].id EXCEPT !.passwd = n] \in S!Identity
    BY <1>2, <1>3 DEF S!Identity
  <2>4. /\ sarg' \in [Req -> [id : S!Identity, code : Nat, own : BOOLEAN]]
        /\ sarg'[r].id = [sarg[r].id EXCEPT !.passwd = n]
        /\ \A q \in Req \ {r} : sarg'[q] = sarg[q]
        /\ \A q \in Req : sarg'[q].code = sarg[q].code
    BY <1>1, <1>2, <2>1, <2>3 DEF CredentialsTyped
  <2>5. CredentialsTyped'
    <3>1. dead' \subseteq S!Identity
      BY <1>1, <2>1, CredentialData DEF Held
    <3> QED BY <1>1, <2>1, <2>2, <2>4, <3>1 DEF CredentialsTyped, CredentialStep
  <2>6. sarg'[r].id.passwd = n /\ sarg'[r].id.gen = sarg[r].id.gen
    BY <1>2, <2>4 DEF S!Identity
  <2>7. \A c \in Held' : \/ c \in Held
                          \/ c = sarg'[r].id
    BY <1>1, <2>1, <2>4, CredentialData DEF Held
  <2>8. Past' /\ Ended'
    <3>1. n.word <= salts + 1
      BY <1>1, <1>2, <1>3, <1>4, CredentialData DEF Past
    <3> QED BY <1>2, <1>3, <2>1, <2>2, <2>5, <2>6, <2>7, <3>1, LoudKeeps
  <2>9. \A q \in Req : Lost(q)' => Lost(q) /\ sarg'[q].code = sarg[q].code
    BY <1>1, <2>1, <2>4 DEF Lost, CredentialsTyped
  <2>10. CodesNew' /\ S!CodesEnd'
    BY <1>1, <2>1, <2>2, <2>9, NoCodeStored
  <2> QED BY <2>5, <2>8, <2>10 DEF CredentialsInv
<1>5. CASE row.passwd # sarg[r].id.passwd
  <2>1. /\ spc' = [spc EXCEPT ![r] = "reread"]
        /\ UNCHANGED <<row, sarg, salts, dead, asked, cookies, codes, begun, void>>
    BY <1>5 DEF S!Upgrade, S!Goto
  <2>2. CredentialsTyped' /\ Held' = Held
    BY <1>1, <2>1 DEF CredentialsTyped, CredentialStep, Held
  <2>3. Past' /\ Ended'
    BY <2>1, <2>2, QuietKeeps
  <2>4. \A q \in Req : Lost(q)' => Lost(q) /\ sarg'[q].code = sarg[q].code
    BY <1>1, <2>1 DEF Lost, CredentialsTyped
  <2>5. CodesNew' /\ S!CodesEnd'
    BY <1>1, <2>1, <2>4, NoCodeStored
  <2> QED BY <2>2, <2>3, <2>5 DEF CredentialsInv
<1> QED BY <1>4, <1>5

\* A request whose identity becomes that of the row, or has its password.
LEMMA TakesIdentity ==
    ASSUME CredentialsInv, NEW r \in Req, NEW i \in S!Identity,
           i.passwd = row.passwd, i.gen \in {row.gen, sarg[r].id.gen},
           spc' = [spc EXCEPT ![r] = "cookie"], sarg' = [sarg EXCEPT ![r].id = i],
           UNCHANGED <<row, asked, cookies, codes, begun, salts, dead, void>>
    PROVE  CredentialsInv'
<1>1. CredentialsTyped /\ begun \in Nat
  BY DEF CredentialsInv, CredentialsTyped
<1>2. /\ sarg' \in [Req -> [id : S!Identity, code : Nat, own : BOOLEAN]]
      /\ sarg'[r].id = i
      /\ \A q \in Req \ {r} : sarg'[q] = sarg[q]
      /\ \A q \in Req : sarg'[q].code = sarg[q].code
  BY <1>1 DEF CredentialsTyped
<1>3. CredentialsTyped'
  BY <1>1, <1>2 DEF CredentialsTyped, CredentialStep
<1>4. \A c \in Held' : c \in Held \/ c = i
  BY <1>2 DEF Held
<1>5. sarg[r].id \in Held
  BY DEF Held
<1>6. Past' /\ Ended'
  BY <1>1, <1>3, <1>4, <1>5, CredentialData, QuietKeeps
<1>7. \A q \in Req : Lost(q)' => Lost(q) /\ sarg'[q].code = sarg[q].code
  BY <1>1, <1>2 DEF Lost, CredentialsTyped
<1>8. CodesNew' /\ S!CodesEnd'
  BY <1>1, <1>7, NoCodeStored
<1> QED BY <1>3, <1>6, <1>8 DEF CredentialsInv

LEMMA RereadKeeps ==
    ASSUME CredentialsInv, NEW r \in Req, S!Reread(r) PROVE CredentialsInv'
<1>1. CredentialsTyped
  BY DEF CredentialsInv
<1>2. sarg[r] \in [id : S!Identity, code : Nat, own : BOOLEAN] /\ sarg[r].id \in S!Identity
  BY <1>1 DEF CredentialsTyped
<1> DEFINE i == [sarg[r].id EXCEPT !.passwd = row.passwd]
<1>3. i \in S!Identity /\ i.passwd = row.passwd /\ i.gen = sarg[r].id.gen
  BY <1>1, <1>2, CredentialData DEF S!Identity
<1>4. sarg' = [sarg EXCEPT ![r].id = i]
  BY <1>1, <1>2 DEF S!Reread, CredentialsTyped
<1> HIDE DEF i
<1> QED BY <1>3, <1>4, TakesIdentity DEF S!Reread, S!Goto

LEMMA LoadIdentityKeeps ==
    ASSUME CredentialsInv, NEW r \in Req, S!LoadIdentity(r), ~row.blocked PROVE CredentialsInv'
<1>1. CredentialsTyped
  BY DEF CredentialsInv
<1> QED BY <1>1, CredentialData, TakesIdentity DEF S!LoadIdentity, S!Goto

\* Steps that take no identity and no code along.
LEMMA PlainKeeps ==
    ASSUME CredentialsInv, CredentialsTyped', UNCHANGED <<sarg, salts, dead>>,
           row'.passwd = row.passwd, row'.gen = row.gen, row'.lost = row.lost, void' = void,
           begun <= begun', \A c \in cookies' : c \in Held,
           \A q \in Req : Lost(q)' => Lost(q)
    PROVE  CredentialsInv'
<1>1. CredentialsTyped /\ begun \in Nat /\ begun' \in Nat
  BY DEF CredentialsInv, CredentialsTyped
<1>2. Past' /\ Ended'
  <2>1. \A c \in Held' : c \in Held
    BY DEF Held
  <2> QED BY <2>1, QuietKeeps
<1>3. CodesNew' /\ S!CodesEnd'
  BY <1>1, NoCodeStored
<1> QED BY <1>2, <1>3 DEF CredentialsInv

LoadsNothing(r) == S!LoadIdentity(r) /\ row.blocked
LEMMA PlainSteps ==
    ASSUME CredentialsInv,
           \/ \E r \in Req : S!Cookie(r) \/ LoadsNothing(r) \/ S!LostLetter(r)
           \/ S!SetBlocked \/ S!DayPasses
    PROVE  CredentialsInv'
<1>1. CredentialsTyped /\ begun \in Nat
  BY DEF CredentialsInv, CredentialsTyped
<1>2. ASSUME NEW r \in Req, S!Cookie(r) \/ LoadsNothing(r) \/ S!LostLetter(r)
      PROVE  CredentialsInv'
  <2>1. /\ \E step \in {"idle", "lostpwd"} :
             /\ spc' = [spc EXCEPT ![r] = step] /\ (step = "lostpwd" => spc[r] = "letter")
        /\ codes' \in {codes, codes \cup {sarg[r].code}}
        /\ cookies' \in {cookies, cookies \cup {sarg[r].id}}
        /\ UNCHANGED <<row, asked, sarg, begun, salts, dead, void>>
    BY <1>2 DEF S!Cookie, LoadsNothing, S!LoadIdentity, S!LostLetter, S!Goto
  <2>2. sarg[r].id \in S!Identity /\ sarg[r].id \in Held /\ sarg[r].code \in Nat
    BY <1>1 DEF CredentialsTyped, Held
  <2>3. CredentialsTyped'
    BY <1>1, <2>1, <2>2 DEF CredentialsTyped, CredentialStep
  <2>4. \A q \in Req : Lost(q)' => Lost(q)
    BY <1>1, <2>1 DEF CredentialsTyped, Lost
  <2>5. \A c \in cookies' : c \in Held
    BY <2>1, <2>2 DEF Held
  <2> QED BY <1>1, <2>1, <2>3, <2>4, <2>5, PlainKeeps
<1>3. CASE S!SetBlocked \/ S!DayPasses
  <2>1. /\ \/ row' = [row EXCEPT !.blocked = ~@]
           \/ row' = [row EXCEPT !.expired = row.lost # 0]
        /\ begun' \in {begun, begun + 1} /\ asked' \in {asked, FALSE}
        /\ UNCHANGED <<cookies, codes, spc, sarg, salts, dead, void>>
    BY <1>3 DEF S!SetBlocked, S!DayPasses
  <2>2. row.blocked \in BOOLEAN
    BY <1>1 DEF CredentialsTyped, S!Row
  <2>3. /\ row' \in S!Row /\ row'.passwd = row.passwd /\ row'.gen = row.gen
        /\ row'.lost = row.lost
    BY <1>1, <2>1, <2>2 DEF CredentialsTyped, S!Row
  <2>4. CredentialsTyped'
    <3>1. asked' \in BOOLEAN
      BY <1>1, <2>1, Zenon DEF CredentialsTyped
    <3>2. begun' \in Nat
      BY <1>1, <2>1
    <3> QED BY <1>1, <2>1, <2>3, <3>1, <3>2 DEF CredentialsTyped
  <2>5. \A q \in Req : Lost(q)' => Lost(q)
    BY <2>1 DEF Lost
  <2>6. \A c \in cookies' : c \in Held
    BY <2>1 DEF Held
  <2> QED BY <1>1, <2>1, <2>3, <2>4, <2>5, <2>6, PlainKeeps
<1> QED BY <1>2, <1>3

\* Whoever sets a new password, or ends all sessions.
LEMMA NewPasswordKeeps ==
    ASSUME CredentialsInv, S!NewPassword, CredentialsTyped',
           UNCHANGED <<cookies, sarg>>, begun <= begun',
           \A q \in Req : Lost(q)' => Lost(q)
    PROVE  CredentialsInv'
<1>1. CredentialsTyped /\ begun \in Nat /\ begun' \in Nat /\ salts \in Nat
  BY DEF CredentialsInv, CredentialsTyped
<1>2. /\ salts' = salts + 1 /\ dead' = dead \cup S!Issued /\ void' = void \cup {row.lost}
      /\ row' = [row EXCEPT !.passwd = [word |-> salts + 1, salt |-> salts + 1], !.lost = 0]
  BY DEF S!NewPassword
<1>3. /\ row'.passwd.salt = salts + 1 /\ row'.passwd.word = salts + 1
      /\ row'.gen = row.gen /\ row'.lost = 0
  BY <1>1, <1>2 DEF CredentialsTyped, S!Row
<1>4. \A c \in Held' : c \in Held
  BY <1>1, <1>2, CredentialData DEF Held
<1>5. Past' /\ Ended'
  BY <1>1, <1>2, <1>3, <1>4, LoudKeeps
<1>6. CodesNew' /\ S!CodesEnd'
  BY <1>1, <1>2, <1>3, NoCodeStored
<1> QED BY <1>5, <1>6 DEF CredentialsInv

LEMMA NewPasswordTyped ==
    ASSUME CredentialsTyped, S!NewPassword, UNCHANGED <<asked, cookies, codes, sarg>>,
           begun' \in {begun, begun + 1}, spc' \in [Req -> CredentialStep]
    PROVE  CredentialsTyped'
<1>1. /\ salts' = salts + 1 /\ dead' = dead \cup S!Issued /\ void' = void \cup {row.lost}
      /\ row' = [row EXCEPT !.passwd = [word |-> salts + 1, salt |-> salts + 1], !.lost = 0]
  BY DEF S!NewPassword
<1>2. [word |-> salts + 1, salt |-> salts + 1] \in S!Hash
  BY DEF CredentialsTyped, S!Hash
<1>3. row' \in S!Row /\ row.lost \in Nat
  BY <1>1, <1>2 DEF CredentialsTyped, S!Row
<1>4. dead' \subseteq S!Identity
  BY <1>1, CredentialData DEF Held
<1> QED BY <1>1, <1>3, <1>4 DEF CredentialsTyped

LEMMA PasswordSteps ==
    ASSUME CredentialsInv, (\E r \in Req : S!Change(r) \/ S!Reset(r)) \/ S!ModeratorReset
    PROVE  CredentialsInv'
<1>1. CredentialsTyped /\ begun \in Nat
  BY DEF CredentialsInv, CredentialsTyped
<1>2. /\ S!NewPassword /\ UNCHANGED <<asked, cookies, codes, sarg>>
      /\ begun' \in {begun, begun + 1}
      /\ \/ spc' = spc
         \/ \E r \in Req, step \in {"idle", "identity"} : spc' = [spc EXCEPT ![r] = step]
  BY DEF S!Change, S!Reset, S!ModeratorReset, S!Goto
<1>3. spc' \in [Req -> CredentialStep] /\ \A q \in Req : Lost(q)' => Lost(q)
  BY <1>1, <1>2 DEF CredentialsTyped, CredentialStep, Lost
<1>4. CredentialsTyped'
  BY <1>1, <1>2, <1>3, NewPasswordTyped
<1>5. begun <= begun'
  BY <1>1, <1>2
<1> QED BY <1>2, <1>3, <1>4, <1>5, NewPasswordKeeps

LEMMA LogoutAllKeeps ==
    ASSUME CredentialsInv, S!LogoutAll PROVE CredentialsInv'
<1>1. CredentialsTyped /\ begun \in Nat
  BY DEF CredentialsInv, CredentialsTyped
<1>2. /\ begun' = begun + 1 /\ row' = [row EXCEPT !.gen = row.gen + 1]
      /\ dead' = dead \cup S!Issued
      /\ UNCHANGED <<asked, cookies, codes, spc, sarg, salts, void>>
  BY DEF S!LogoutAll
<1>3. /\ row' \in S!Row /\ row'.passwd = row.passwd /\ row'.gen = row.gen + 1
      /\ row'.lost = row.lost
  BY <1>1, <1>2 DEF CredentialsTyped, S!Row
<1>4. dead' \subseteq S!Identity
  BY <1>1, <1>2, CredentialData DEF Held
<1>5. CredentialsTyped'
  BY <1>1, <1>2, <1>3, <1>4 DEF CredentialsTyped
<1>6. \A c \in Held' : c \in Held
  BY <1>1, <1>2, CredentialData DEF Held
<1>7. Past' /\ Ended'
  BY <1>2, <1>3, <1>5, <1>6, LoudKeeps
<1>8. CodesNew' /\ S!CodesEnd'
  <2>1. \A q \in Req : Lost(q)' => Lost(q) /\ sarg'[q].code = sarg[q].code
    BY <1>2 DEF Lost
  <2> QED BY <1>1, <1>2, <1>3, <2>1, NoCodeStored
<1> QED BY <1>5, <1>7, <1>8 DEF CredentialsInv

LEMMA StoreLostKeeps ==
    ASSUME CredentialsInv, NEW r \in Req, S!StoreLost(r) PROVE CredentialsInv'
<1>1. CredentialsTyped /\ CodesNew /\ begun \in Nat
  BY DEF CredentialsInv, CredentialsTyped
<1>2. /\ spc[r] = "lostpwd" /\ spc' = [spc EXCEPT ![r] = "idle"]
      /\ row' = [row EXCEPT !.lost = sarg[r].code, !.expired = FALSE]
      /\ asked' = (asked \/ sarg[r].own) /\ void' = void \cup {row.lost}
      /\ UNCHANGED <<cookies, codes, sarg, begun, salts, dead>>
  BY DEF S!StoreLost, S!Goto
<1>3. Lost(r) /\ sarg[r].code \in 1 .. begun /\ sarg[r].code \in Nat
  BY <1>1, <1>2 DEF Lost, CodesNew
<1>4. /\ row' \in S!Row /\ row'.passwd = row.passwd /\ row'.gen = row.gen
      /\ row'.lost = sarg[r].code
  BY <1>1, <1>2, <1>3 DEF CredentialsTyped, S!Row
<1>5. CredentialsTyped'
  <2>1. asked' \in BOOLEAN
    BY <1>2
  <2> QED BY <1>1, <1>2, <1>4, <2>1, CredentialData DEF CredentialsTyped, CredentialStep
<1>6. \A c \in Held' : c \in Held
  BY <1>2 DEF Held
<1>7. Past' /\ Ended'
  BY <1>2, <1>4, <1>5, <1>6, QuietKeeps
<1>8. /\ row.lost \in 0 .. begun /\ sarg[r].code # row.lost /\ sarg[r].code \notin void
      /\ \A q \in Req \ {r} : Lost(q)' => Lost(q) /\ sarg[q].code # sarg[r].code
  BY <1>1, <1>2, <1>3 DEF CodesNew, Lost, CredentialsTyped
<1>9. ~Lost(r)'
  BY <1>1, <1>2 DEF Lost, CredentialsTyped
<1>10. ASSUME NEW q \in Req, Lost(q)'
       PROVE  /\ sarg'[q].code \in 1 .. begun' /\ sarg'[q].code # row'.lost
              /\ sarg'[q].code \notin void'
              /\ \A p \in Req \ {q} : Lost(p)' => sarg'[p].code # sarg'[q].code
  <2>1. q # r /\ Lost(q) /\ sarg[q].code # sarg[r].code
    BY <1>8, <1>9, <1>10
  <2>2. /\ sarg[q].code \in 1 .. begun /\ sarg[q].code # row.lost /\ sarg[q].code \notin void
        /\ \A p \in Req \ {q} : Lost(p) => sarg[p].code # sarg[q].code
    BY <1>1, <2>1 DEF CodesNew
  <2> QED BY <1>2, <1>4, <1>8, <1>9, <2>1, <2>2
<1>11. row'.lost \in 0 .. begun' /\ void' \subseteq 0 .. begun'
  BY <1>1, <1>2, <1>3, <1>4, <1>8 DEF CodesNew
<1>12. S!CodesEnd'
  BY <1>2, <1>4, <1>8 DEF S!CodesEnd
<1> QED BY <1>5, <1>7, <1>10, <1>11, <1>12 DEF CredentialsInv, CodesNew

LEMMA StepCredentials ==
    ASSUME CredentialsInv, [S!Next]_(S!vars) PROVE CredentialsInv'
<1>1. CASE UNCHANGED S!vars
  <2>1. UNCHANGED <<row, asked, cookies, codes, spc, sarg, begun, salts, dead, void>>
    BY <1>1 DEF S!vars
  <2> QED BY <2>1 DEF CredentialsInv, CredentialsTyped, Past, Held, Ended, CodesNew, Lost, S!CodesEnd
<1>2. ASSUME NEW r \in Req, NEW w \in 0 .. MaxLogins, S!LoginRead(r, w) \/ S!ChangeCheck(r, w)
      PROVE  CredentialsInv'
  <2>1. \E step \in CredentialStep \ {"letter", "lostpwd"} : S!BeginFor(r, step, TRUE)
    BY <1>2 DEF S!LoginRead, S!ChangeCheck, S!Begin, CredentialStep
  <2> QED BY <1>2, <2>1, BeginKeeps DEF S!LoginRead, S!ChangeCheck
<1>3. ASSUME NEW r \in Req, NEW c \in codes, S!ResetCheck(r, c) PROVE CredentialsInv'
  <2>1. S!BeginFor(r, "reset", TRUE) /\ "reset" \in CredentialStep \ {"letter", "lostpwd"}
    BY <1>3 DEF S!ResetCheck, S!Begin, CredentialStep
  <2> QED BY <1>3, <2>1, BeginKeeps DEF S!ResetCheck
<1>4. ASSUME NEW r \in Req,
             \/ S!Upgrade(r) \/ S!Reread(r) \/ S!Cookie(r) \/ S!Change(r) \/ S!LoadIdentity(r)
             \/ S!LostLetter(r) \/ S!StoreLost(r) \/ S!Reset(r)
             \/ \E o \in BOOLEAN : S!LostCheck(r, o)
      PROVE  CredentialsInv'
  <2>1. CASE S!Upgrade(r) \/ S!Reread(r)
    BY <2>1, UpgradeKeeps, RereadKeeps
  <2>2. CASE S!Cookie(r) \/ S!LostLetter(r)
    BY <2>2, PlainSteps
  <2>3. CASE S!LoadIdentity(r)
    <3>1. CASE row.blocked
      BY <2>3, <3>1, PlainSteps DEF LoadsNothing
    <3>2. CASE ~row.blocked
      BY <2>3, <3>2, LoadIdentityKeeps
    <3> QED BY <3>1, <3>2
  <2>4. CASE S!Change(r) \/ S!Reset(r)
    BY <2>4, PasswordSteps
  <2>5. CASE S!StoreLost(r) \/ \E o \in BOOLEAN : S!LostCheck(r, o)
    BY <2>5, StoreLostKeeps, LostCheckKeeps
  <2> QED BY <1>4, <2>1, <2>2, <2>3, <2>4, <2>5
<1>5. CASE S!ModeratorReset \/ S!SetBlocked \/ S!DayPasses
  BY <1>5, PlainSteps, PasswordSteps
<1> QED BY <1>1, <1>2, <1>3, <1>4, <1>5, LogoutAllKeeps DEF S!Next

\* Sessions that were ended and codes that were used, replaced or overtaken
\* never work again, in whatever order logins, upgrades, changes, resets and
\* blocks come and overlap (optRememberMeUserId, login, edit_profile).
THEOREM CredentialsStayEnded == S!Spec => []CredentialsEnd
<1>1. S!Init => CredentialsInv
  BY InitCredentials
<1>2. CredentialsInv /\ [S!Next]_(S!vars) => CredentialsInv'
  BY StepCredentials
<1>3. CredentialsInv => CredentialsEnd
  BY DEF CredentialsInv, CredentialsTyped, CredentialStep, Ended, CredentialsEnd,
         S!CredentialsEnd, S!SessionsTypeOK, S!SessionsEnd, S!Valid
<1> QED BY <1>1, <1>2, <1>3, PTL DEF S!Spec

LEMMA PasswordIsKept ==
    ASSUME CredentialsInv, [S!Next]_(S!vars) PROVE S!KeepsPassword
<1>1. /\ row \in S!Row /\ salts \in Nat /\ row.passwd.word \in Nat
      /\ row.passwd.word <= salts
  BY CredentialData DEF CredentialsInv, CredentialsTyped, Past
<1>2. CASE S!NewPassword
  <2>1. row'.passwd = [word |-> salts + 1, salt |-> salts + 1]
    BY <1>1, <1>2 DEF S!NewPassword, S!Row
  <2> QED BY <1>1, <2>1 DEF S!KeepsPassword
<1>3. ASSUME NEW r \in Req, S!Upgrade(r) PROVE S!KeepsPassword
  <2>1. CASE row' = row
    BY <1>1, <2>1 DEF S!KeepsPassword
  <2>2. CASE /\ row.passwd = sarg[r].id.passwd
             /\ row' = [row EXCEPT !.passwd = [sarg[r].id.passwd EXCEPT !.salt = salts + 1]]
    <3>1. row.passwd \in S!Hash
      BY <1>1 DEF S!Row
    <3>2. row'.passwd = [row.passwd EXCEPT !.salt = salts + 1]
      BY <1>1, <2>2 DEF S!Row
    <3>3. row'.passwd.word = row.passwd.word
      BY <3>1, <3>2 DEF S!Hash
    <3> QED BY <1>1, <3>3 DEF S!KeepsPassword
  <2> QED BY <1>3, <2>1, <2>2 DEF S!Upgrade
<1>4. CASE row'.passwd = row.passwd
  BY <1>1, <1>4 DEF S!KeepsPassword
<1>5. \/ S!NewPassword \/ \E r \in Req : S!Upgrade(r)
      \/ row'.passwd = row.passwd
  <2>1. CASE UNCHANGED S!vars
    BY <2>1 DEF S!vars
  <2>2. CASE S!LogoutAll \/ S!SetBlocked \/ S!DayPasses
    BY <1>1, <2>2 DEF S!LogoutAll, S!SetBlocked, S!DayPasses, S!Row
  <2>3. CASE S!ModeratorReset
    BY <2>3 DEF S!ModeratorReset
  <2>4. ASSUME NEW r \in Req, S!StoreLost(r) PROVE row'.passwd = row.passwd
    BY <1>1, <2>4 DEF S!StoreLost, S!Row
  <2>5. ASSUME NEW r \in Req,
               \/ S!Reread(r) \/ S!Cookie(r) \/ S!LoadIdentity(r) \/ S!LostLetter(r)
               \/ \E o \in BOOLEAN : S!LostCheck(r, o)
               \/ \E w \in 0 .. MaxLogins : S!LoginRead(r, w) \/ S!ChangeCheck(r, w)
               \/ \E c \in codes : S!ResetCheck(r, c)
        PROVE  UNCHANGED row
    BY <2>5 DEF S!Reread, S!Cookie, S!LoadIdentity, S!LostLetter, S!LostCheck, S!LoginRead,
                S!ChangeCheck, S!ResetCheck
  <2>6. ASSUME NEW r \in Req, S!Change(r) \/ S!Reset(r) PROVE S!NewPassword
    BY <2>6 DEF S!Change, S!Reset
  <2> QED BY <2>1, <2>2, <2>3, <2>4, <2>5, <2>6 DEF S!Next
<1> QED BY <1>2, <1>3, <1>4, <1>5
-----------------------------------------------------------------------------
(* Pictures *)

PictureStep == {"idle", "stage", "save", "commit", "forget", "delete"}
PicturesTyped ==
    /\ posted \in BOOLEAN
    /\ images \in [I!Image -> {"none", "live", "deleted"}] /\ recorded \subseteq I!Image
    /\ dirs \subseteq I!Image /\ parts \in [I!Preview -> SUBSET I!Whole] /\ old \subseteq I!Preview
    /\ drawn \in 0 .. MaxImages /\ staged \in 0 .. MaxPreviews
    /\ ipc \in [Req -> PictureStep]
    /\ room \in [Req -> 0 .. Limit] /\ stale \in [Req -> BOOLEAN]
    /\ uses \in [Req -> SUBSET I!Preview] /\ new \in [Req -> SUBSET I!Image]
    /\ target \in [Req -> I!Image \cup {0}]
    /\ lost \subseteq I!Image /\ leaked \subseteq I!Image /\ over \in Nat /\ both \in BOOLEAN

\* Ids are drawn once, and are of one request until its transaction has ended.
Drawn ==
    /\ dirs \subseteq 1 .. drawn
    /\ \A i \in I!Image : images[i] # "none" => i <= drawn
    /\ \A r \in Req : new[r] \subseteq 1 .. drawn
    /\ \A r \in Req : \A q \in Req \ {r} : new[r] \cap new[q] = {}

\* What a request is about to commit has its files and no row yet; what it is
\* about to delete has a row.
Mine(r) ==
    /\ new[r] # {} => ipc[r] \in {"commit", "forget"}
    /\ ipc[r] = "commit" => new[r] \subseteq dirs /\ new[r] # {}
    /\ ipc[r] = "commit" => \A i \in new[r] : images[i] = "none"
    /\ ipc[r] = "forget" => \A i \in new[r] : images[i] # "none"
    /\ ipc[r] = "save" => uses[r] # {} /\ Cardinality(uses[r]) <= room[r]
    /\ ipc[r] = "commit" => Cardinality(new[r]) <= room[r]
    /\ ipc[r] = "delete" => target[r] \in I!Image /\ images[target[r]] # "none"

\* What a request has seen stands, unless another has committed since.
Seen(r) ==
    /\ ipc[r] = "delete" /\ ~stale[r] => Cardinality(I!Shown) > 1
    /\ ipc[r] \in I!Editing /\ ~stale[r] => room[r] = 0 \/ room[r] + Cardinality(I!Shown) <= Limit

PicturesInv ==
    /\ PicturesTyped /\ Drawn /\ \A r \in Req : Mine(r) /\ Seen(r)
    /\ I!RowsHaveFiles /\ I!NoOrphans /\ I!DeletedIsRecorded
    /\ I!GalleryKeepsOne /\ I!WithinLimit

LEMMA PictureCardinality == \A T : I!Cardinality(T) = Cardinality(T)
BY Zenon DEF Cardinality, I!Cardinality

\* Sets of pictures, and of previews, are finite.
LEMMA Numbers ==
    ASSUME NEW n \in Nat
    PROVE  /\ \A T \in SUBSET (1 .. n) : IsFiniteSet(T) /\ Cardinality(T) \in Nat
           /\ \A T \in SUBSET (1 .. n) : \A U \in SUBSET T : Cardinality(U) <= Cardinality(T)
           /\ \A T \in SUBSET (1 .. n) : \A x \in T : Cardinality(T \ {x}) = Cardinality(T) - 1
           /\ \A T \in SUBSET (1 .. n), U \in SUBSET (1 .. n) :
                Cardinality(T \cup U) <= Cardinality(T) + Cardinality(U)
           /\ \A T \in SUBSET (1 .. n) : Cardinality(T) = 0 <=> T = {}
           /\ Cardinality({}) = 0
<1>1. IsFiniteSet(1 .. n)
  BY FS_Interval
<1>2. \A T \in SUBSET (1 .. n) : IsFiniteSet(T)
  BY <1>1, FS_Subset
<1>3. \A T \in SUBSET (1 .. n) : Cardinality(T) \in Nat
  BY <1>2, FS_CardinalityType
<1>4. \A T \in SUBSET (1 .. n) : \A U \in SUBSET T : Cardinality(U) <= Cardinality(T)
  BY <1>2, FS_Subset
<1>5. \A T \in SUBSET (1 .. n) : \A x \in T : Cardinality(T \ {x}) = Cardinality(T) - 1
  BY <1>2, FS_RemoveElement
<1>6. \A T \in SUBSET (1 .. n) : Cardinality(T) = 0 <=> T = {}
  BY <1>2, FS_EmptySet
<1>7. ASSUME NEW T \in SUBSET (1 .. n), NEW U \in SUBSET (1 .. n)
      PROVE  Cardinality(T \cup U) <= Cardinality(T) + Cardinality(U)
  <2>1. Cardinality(T \cup U) = Cardinality(T) + Cardinality(U) - Cardinality(T \cap U)
    BY <1>2, FS_Union
  <2>2. T \cap U \in SUBSET (1 .. n)
    OBVIOUS
  <2>3. Cardinality(T \cap U) \in Nat /\ Cardinality(T) \in Nat /\ Cardinality(U) \in Nat
    BY <1>3, <2>2
  <2> QED BY <2>1, <2>3
<1>8. Cardinality({}) = 0
  BY FS_EmptySet
<1> QED BY <1>2, <1>3, <1>4, <1>5, <1>6, <1>7, <1>8

LEMMA Drawing ==
    ASSUME NEW n \in Nat, NEW k \in Nat
    PROVE  IsFiniteSet(n + 1 .. n + k) /\ Cardinality(n + 1 .. n + k) = k
<1>1. n + 1 \in Int /\ n + k \in Int
  OBVIOUS
<1>2. /\ IsFiniteSet(n + 1 .. n + k)
      /\ Cardinality(n + 1 .. n + k) = IF n + 1 > n + k THEN 0 ELSE (n + k) - (n + 1) + 1
  BY <1>1, FS_Interval
<1> QED BY <1>2

LEMMA ShownSets ==
    ASSUME I!ImageConstants, PicturesTyped
    PROVE  /\ I!Shown \in SUBSET I!Image /\ Cardinality(I!Shown) \in Nat
           /\ I!Image = 1 .. MaxImages /\ MaxImages \in Nat
           /\ I!Preview = 1 .. MaxPreviews /\ MaxPreviews \in Nat /\ Limit \in Nat
<1>1. MaxImages \in Nat /\ MaxPreviews \in Nat /\ Limit \in Nat
  BY DEF I!ImageConstants
<1>2. I!Image = 1 .. MaxImages /\ I!Preview = 1 .. MaxPreviews
  BY DEF I!Image, I!Preview
<1>3. I!Shown \in SUBSET I!Image
  BY DEF I!Shown, PicturesTyped
<1> QED BY <1>1, <1>2, <1>3, Numbers

LEMMA InitPictures == ASSUME I!ImageConstants, I!Init PROVE PicturesInv
<1>1. MaxImages \in Nat /\ MaxPreviews \in Nat /\ Limit \in Nat
  BY DEF I!ImageConstants
<1>2. PicturesTyped
  <2>1. /\ 0 \in 0 .. MaxImages /\ 0 \in 0 .. MaxPreviews /\ 0 \in 0 .. Limit
    BY <1>1
  <2>2. /\ images = [i \in I!Image |-> "none"] /\ parts = [p \in I!Preview |-> {}]
        /\ ipc = [r \in Req |-> "idle"] /\ room = [r \in Req |-> 0]
        /\ uses = [r \in Req |-> {}] /\ new = [r \in Req |-> {}]
        /\ target = [r \in Req |-> 0] /\ stale = [r \in Req |-> FALSE]
        /\ posted = FALSE /\ recorded = {} /\ dirs = {} /\ old = {} /\ drawn = 0 /\ staged = 0
        /\ lost = {} /\ leaked = {} /\ over = 0 /\ both = FALSE
    BY DEF I!Init
  <2> QED BY <2>1, <2>2 DEF PicturesTyped, PictureStep
<1>3. I!Shown = {} /\ Cardinality(I!Shown) = 0
  BY FS_EmptySet DEF I!Init, I!Shown
<1>4. Drawn /\ \A r \in Req : Mine(r) /\ Seen(r)
  BY DEF I!Init, Drawn, Mine, Seen, I!Editing
<1>5. I!RowsHaveFiles /\ I!NoOrphans /\ I!DeletedIsRecorded /\ I!GalleryKeepsOne
  BY DEF I!Init, I!RowsHaveFiles, I!NoOrphans, I!DeletedIsRecorded, I!GalleryKeepsOne
<1>6. I!WithinLimit
  BY <1>1, <1>3, PictureCardinality DEF I!Init, I!WithinLimit
<1> QED BY <1>2, <1>4, <1>5, <1>6 DEF PicturesInv

\* A step that leaves the topic, its pictures and their directories alone, and
\* the requests but r, which may forget the pictures it has committed.
Alone(r) ==
    /\ UNCHANGED <<posted, images, recorded, dirs, drawn, lost, leaked, over, both>>
    /\ \A q \in Req \ {r} :
         /\ ipc'[q] = ipc[q] /\ room'[q] = room[q] /\ uses'[q] = uses[q]
         /\ target'[q] = target[q] /\ stale'[q] = stale[q] /\ new'[q] = new[q]
    /\ new'[r] # new[r] => new'[r] = {} /\ ipc[r] = "forget"
LEMMA RestKeeps ==
    ASSUME PicturesInv, PicturesTyped', NEW r \in Req, Alone(r), Mine(r)', Seen(r)'
    PROVE  PicturesInv'
<1> USE DEF Alone
<1>1. I!Shown' = I!Shown
  BY DEF I!Shown
<1>2. \A q \in Req : Mine(q)' /\ Seen(q)'
  <2> SUFFICES ASSUME NEW q \in Req, q # r PROVE Mine(q)' /\ Seen(q)'
    OBVIOUS
  <2>1. Mine(q) /\ Seen(q)
    BY DEF PicturesInv
  <2>2. /\ ipc'[q] = ipc[q] /\ room'[q] = room[q] /\ uses'[q] = uses[q]
        /\ target'[q] = target[q] /\ stale'[q] = stale[q] /\ new'[q] = new[q]
    OBVIOUS
  <2>3. Mine(q)'
    BY <2>1, <2>2 DEF Mine
  <2>4. Seen(q)'
    BY <1>1, <2>1, <2>2 DEF Seen
  <2> QED BY <2>3, <2>4
<1>3. \A q \in Req : new'[q] \subseteq new[q]
  OBVIOUS
<1>4. Drawn' /\ I!RowsHaveFiles' /\ I!DeletedIsRecorded'
  BY <1>3 DEF PicturesInv, Drawn, I!RowsHaveFiles, I!DeletedIsRecorded
<1>5. I!NoOrphans'
  <2>1. ipc[r] = "forget" => \A i \in new[r] : images[i] # "none"
    BY DEF PicturesInv, Mine
  <2>2. ASSUME NEW i \in dirs, NEW q \in Req, i \in new[q]
        PROVE  images[i] # "none" \/ i \in new'[q]
    BY <2>1, <2>2
  <2> QED BY <2>2 DEF PicturesInv, I!NoOrphans
<1>6. I!GalleryKeepsOne' /\ I!WithinLimit'
  BY <1>1 DEF PicturesInv, I!GalleryKeepsOne, I!WithinLimit
<1> QED BY <1>2, <1>4, <1>5, <1>6 DEF PicturesInv

\* What an idle request, and one that shows its form, have of pictures: none.
LEMMA NothingNew ==
    ASSUME PicturesInv, NEW r \in Req, ipc[r] \notin {"commit", "forget"}
    PROVE  new[r] = {}
BY DEF PicturesInv, Mine

LEMMA LookKeeps ==
    ASSUME I!ImageConstants, PicturesInv, NEW r \in Req, I!Look(r) PROVE PicturesInv'
<1>1. PicturesTyped /\ Cardinality(I!Shown) \in Nat /\ Limit \in Nat /\ new[r] = {}
  BY ShownSets, NothingNew DEF PicturesInv, I!Look
<1> DEFINE n == IF Cardinality(I!Shown) < Limit THEN Limit - Cardinality(I!Shown) ELSE 0
<1>2. n \in 0 .. Limit /\ (n = 0 \/ n + Cardinality(I!Shown) <= Limit)
  BY <1>1
<1>3. /\ ipc' = [ipc EXCEPT ![r] = "stage"] /\ room' = [room EXCEPT ![r] = n]
      /\ UNCHANGED <<posted, images, recorded, dirs, parts, old, drawn, staged, uses, new, target,
                     stale, lost, leaked, over, both, faults>>
  BY PictureCardinality DEF I!Look, I!Goto, I!rows, I!files, I!ghosts
<1> HIDE DEF n
<1>4. PicturesTyped'
  BY <1>1, <1>2, <1>3 DEF PicturesTyped, PictureStep
<1>5. ipc'[r] = "stage" /\ room'[r] = n /\ I!Shown' = I!Shown
  BY <1>1, <1>3 DEF PicturesTyped, I!Shown
<1>6. Mine(r)' /\ Seen(r)'
  BY <1>1, <1>2, <1>3, <1>5 DEF Mine, Seen
<1> QED
  <2>1. Alone(r)
    BY <1>1, <1>3, <1>4, <1>6 DEF PicturesTyped, Alone
  <2> QED BY <2>1, <1>1, <1>3, <1>4, <1>6, RestKeeps

LEMMA StageKeeps ==
    ASSUME I!ImageConstants, PicturesInv, NEW r \in Req, I!Stage(r) PROVE PicturesInv'
<1>1. PicturesTyped /\ new[r] = {} /\ ipc[r] = "stage" /\ Seen(r)
  BY NothingNew DEF PicturesInv, I!Stage
<1>2. PICK reused \in SUBSET I!Reusable, uploads \in 0 .. 1 :
        /\ Cardinality(reused) + uploads <= room[r] /\ staged + uploads <= MaxPreviews
        /\ staged' = staged + uploads
        /\ parts' = [p \in I!Preview |-> IF p \in staged + 1 .. staged + uploads
                                         THEN I!Whole ELSE parts[p]]
        /\ \/ /\ reused \cup (staged + 1 .. staged + uploads) # {}
              /\ uses' = [uses EXCEPT ![r] = reused \cup (staged + 1 .. staged + uploads)]
              /\ ipc' = [ipc EXCEPT ![r] = "save"]
              /\ UNCHANGED <<room, stale>>
           \/ /\ ipc' = [ipc EXCEPT ![r] = "idle"]
              /\ room' = [room EXCEPT ![r] = 0] /\ stale' = [stale EXCEPT ![r] = FALSE]
              /\ uses' = uses
  BY PictureCardinality DEF I!Stage, I!Goto
<1>3. UNCHANGED <<posted, images, recorded, dirs, old, drawn, new, target, lost, leaked, over,
                  both, faults>>
  BY DEF I!Stage, I!rows, I!ghosts
<1> DEFINE fresh == staged + 1 .. staged + uploads
           all == reused \cup fresh
<1>4. staged \in 0 .. MaxPreviews /\ MaxPreviews \in Nat /\ I!Preview = 1 .. MaxPreviews
      /\ staged \in Nat /\ uploads \in Nat /\ room[r] \in 0 .. Limit /\ Limit \in Nat
  BY <1>1, ShownSets DEF PicturesTyped
<1>5. reused \in SUBSET I!Preview /\ fresh \in SUBSET I!Preview
  BY <1>2, <1>4 DEF I!Reusable
<1>6. Cardinality(fresh) = uploads
  BY <1>4, Drawing
<1>7. all \in SUBSET I!Preview /\ Cardinality(all) <= room[r]
  <2>1. Cardinality(all) <= Cardinality(reused) + Cardinality(fresh)
    BY <1>4, <1>5, Numbers
  <2>2. all \in SUBSET I!Preview
    BY <1>5
  <2>3. Cardinality(all) \in Nat /\ Cardinality(reused) \in Nat
    BY <1>4, <1>5, <2>2, Numbers
  <2> QED BY <1>2, <1>4, <1>6, <2>1, <2>2, <2>3
<1>8. /\ staged' \in 0 .. MaxPreviews
      /\ parts' \in [I!Preview -> SUBSET I!Whole]
  BY <1>1, <1>2, <1>4 DEF PicturesTyped
<1>9. I!Shown' = I!Shown
  BY <1>3 DEF I!Shown
<1>10. CASE /\ all # {} /\ uses' = [uses EXCEPT ![r] = all] /\ ipc' = [ipc EXCEPT ![r] = "save"]
            /\ UNCHANGED <<room, stale>>
  <2> HIDE DEF all, fresh
  <2>1. PicturesTyped'
    BY <1>1, <1>3, <1>7, <1>8, <1>10 DEF PicturesTyped, PictureStep
  <2>2. ipc'[r] = "save" /\ uses'[r] = all /\ new'[r] = {}
    BY <1>1, <1>3, <1>10 DEF PicturesTyped
  <2>3. Mine(r)'
    BY <1>7, <1>10, <2>2 DEF Mine
  <2>4. Seen(r)'
    BY <1>1, <1>9, <1>10, <2>2 DEF Seen, I!Editing
  <2> QED
    <3>1. Alone(r)
      BY <1>1, <1>3, <1>10, <2>1, <2>3, <2>4 DEF PicturesTyped, Alone
    <3> QED BY <3>1, <1>1, <1>3, <1>10, <2>1, <2>3, <2>4, RestKeeps
<1>11. CASE /\ ipc' = [ipc EXCEPT ![r] = "idle"]
            /\ room' = [room EXCEPT ![r] = 0] /\ stale' = [stale EXCEPT ![r] = FALSE]
            /\ uses' = uses
  <2>1. PicturesTyped'
    BY <1>1, <1>3, <1>4, <1>8, <1>11 DEF PicturesTyped, PictureStep
  <2>2. ipc'[r] = "idle" /\ new'[r] = {}
    BY <1>1, <1>3, <1>11 DEF PicturesTyped
  <2>3. Mine(r)' /\ Seen(r)'
    BY <2>2 DEF Mine, Seen, I!Editing
  <2> QED
    <3>1. Alone(r)
      BY <1>1, <1>3, <1>11, <2>1, <2>3 DEF PicturesTyped, Alone
    <3> QED BY <3>1, <1>1, <1>3, <1>11, <2>1, <2>3, RestKeeps
<1> QED BY <1>2, <1>10, <1>11

LEMMA DeleteCheckKeeps ==
    ASSUME I!ImageConstants, PicturesInv, NEW r \in Req, NEW i \in I!Image, I!DeleteCheck(r, i)
    PROVE  PicturesInv'
<1>1. PicturesTyped /\ new[r] = {}
  BY NothingNew DEF PicturesInv, I!DeleteCheck
<1>2. /\ images[i] # "none" /\ Cardinality(I!Shown) > 1
      /\ ipc' = [ipc EXCEPT ![r] = "delete"] /\ target' = [target EXCEPT ![r] = i]
      /\ UNCHANGED <<posted, images, recorded, dirs, parts, old, drawn, staged, room, uses, new,
                     stale, lost, leaked, over, both, faults>>
  BY PictureCardinality DEF I!DeleteCheck, I!Goto, I!rows, I!files, I!ghosts
<1>3. PicturesTyped'
  BY <1>1, <1>2 DEF PicturesTyped, PictureStep
<1>4. ipc'[r] = "delete" /\ target'[r] = i /\ I!Shown' = I!Shown
  BY <1>1, <1>2 DEF PicturesTyped, I!Shown
<1>5. Mine(r)' /\ Seen(r)'
  BY <1>1, <1>2, <1>4 DEF Mine, Seen, I!Editing
<1> QED
  <2>1. Alone(r)
    BY <1>1, <1>2, <1>3, <1>5 DEF PicturesTyped, Alone
  <2> QED BY <2>1, <1>1, <1>2, <1>3, <1>5, RestKeeps

LEMMA DropPreviewKeeps ==
    ASSUME I!ImageConstants, PicturesInv, NEW r \in Req, I!DropPreview(r) PROVE PicturesInv'
<1>1. PicturesTyped /\ Mine(r) /\ Seen(r) /\ ipc[r] = "forget" /\ Limit \in Nat
  BY ShownSets DEF PicturesInv, I!DropPreview
<1>2. UNCHANGED <<posted, images, recorded, dirs, old, drawn, staged, lost, leaked, over, both,
                  faults>>
  BY DEF I!DropPreview, I!rows, I!ghosts
<1>3. CASE /\ I!Forgets(r) /\ stale' = [stale EXCEPT ![r] = FALSE] /\ parts' = parts
  <2>1. /\ ipc' = [ipc EXCEPT ![r] = "idle"] /\ room' = [room EXCEPT ![r] = 0]
        /\ uses' = [uses EXCEPT ![r] = {}] /\ new' = [new EXCEPT ![r] = {}]
        /\ target' = [target EXCEPT ![r] = 0]
    BY <1>3 DEF I!Forgets, I!Goto
  <2>2. PicturesTyped'
    BY <1>1, <1>2, <1>3, <2>1 DEF PicturesTyped, PictureStep
  <2>3. ipc'[r] = "idle" /\ new'[r] = {}
    BY <1>1, <2>1 DEF PicturesTyped
  <2>4. Mine(r)' /\ Seen(r)'
    BY <2>3 DEF Mine, Seen, I!Editing
  <2> QED
    <3>1. Alone(r)
      BY <1>1, <1>2, <1>3, <2>1, <2>2, <2>3, <2>4 DEF PicturesTyped, Alone
    <3> QED BY <3>1, <1>1, <1>2, <1>3, <2>1, <2>2, <2>3, <2>4, RestKeeps
<1>4. CASE /\ \E p \in uses[r] : parts' = [parts EXCEPT ![p] = IF parts[p] = I!Whole THEN {"small"} ELSE {}]
           /\ UNCHANGED <<ipc, room, uses, new, target, stale>>
  <2>1. PicturesTyped'
    BY <1>1, <1>2, <1>4 DEF PicturesTyped, I!Whole
  <2>2. Mine(r)' /\ Seen(r)'
    BY <1>1, <1>2, <1>4 DEF Mine, Seen, I!Shown
  <2> QED
    <3>1. Alone(r)
      BY <1>2, <1>4, <2>1, <2>2 DEF PicturesTyped, Alone
    <3> QED BY <3>1, <1>2, <1>4, <2>1, <2>2, RestKeeps
<1> QED BY <1>3, <1>4 DEF I!DropPreview, I!own

LEMMA SaveKeeps ==
    ASSUME I!ImageConstants, PicturesInv, NEW r \in Req, I!Save(r) PROVE PicturesInv'
<1>1. PicturesTyped /\ Drawn /\ Mine(r) /\ Seen(r) /\ ipc[r] = "save" /\ new[r] = {}
  BY NothingNew DEF PicturesInv, I!Save
<1>2. /\ I!Image = 1 .. MaxImages /\ I!Preview = 1 .. MaxPreviews
      /\ MaxImages \in Nat /\ MaxPreviews \in Nat /\ Limit \in Nat
  BY <1>1, ShownSets
<1>3. /\ uses[r] \in SUBSET I!Preview /\ Cardinality(uses[r]) \in Nat /\ Cardinality(uses[r]) # 0
      /\ Cardinality(uses[r]) <= room[r]
  <2>1. uses[r] \in SUBSET (1 .. MaxPreviews) /\ uses[r] # {} /\ Cardinality(uses[r]) <= room[r]
    BY <1>1, <1>2 DEF PicturesTyped, Mine
  <2> QED BY <1>2, <2>1, Numbers
<1> DEFINE k == Cardinality(uses[r])
           made == drawn + 1 .. drawn + k
<1>4. /\ made \subseteq I!Image /\ drawn' = drawn + k /\ dirs' = dirs \cup made
      /\ new' = [new EXCEPT ![r] = made] /\ ipc' = [ipc EXCEPT ![r] = "commit"]
      /\ UNCHANGED <<posted, images, recorded, parts, old, staged, room, uses, target, stale, lost,
                     leaked, over, both, faults>>
  BY PictureCardinality DEF I!Save, I!Goto, I!rows, I!ghosts
<1>5. drawn \in Nat /\ drawn <= MaxImages
  BY <1>1, <1>2 DEF PicturesTyped
<1>6. Cardinality(made) = k /\ k \in Nat /\ k # 0
  BY <1>3, <1>5, Drawing
<1>7. drawn + k \in made /\ drawn' \in 0 .. MaxImages
  BY <1>2, <1>4, <1>5, <1>6
<1>8. /\ made \subseteq 1 .. drawn' /\ 1 .. drawn \subseteq 1 .. drawn'
      /\ made \cap (1 .. drawn) = {}
  BY <1>4, <1>5, <1>6
<1> HIDE DEF made, k
<1>9. PicturesTyped'
  BY <1>1, <1>4, <1>7 DEF PicturesTyped, PictureStep
<1>10. \A i \in made : images[i] = "none"
  BY <1>1, <1>4, <1>8, <1>2 DEF Drawn
<1>11. I!Shown' = I!Shown
  BY <1>4, <1>10 DEF I!Shown
<1>12. /\ ipc'[r] = "commit" /\ new'[r] = made
       /\ \A q \in Req \ {r} : ipc'[q] = ipc[q] /\ new'[q] = new[q]
  BY <1>1, <1>4 DEF PicturesTyped
<1>13. Drawn'
  <2>1. dirs' \subseteq 1 .. drawn' /\ \A q \in Req : new'[q] \subseteq 1 .. drawn'
    BY <1>1, <1>4, <1>8, <1>12 DEF Drawn
  <2>2. \A i \in I!Image : images'[i] # "none" => i <= drawn'
    BY <1>1, <1>2, <1>4, <1>5, <1>6 DEF Drawn
  <2>3. \A p \in Req : \A q \in Req \ {p} : new'[p] \cap new'[q] = {}
    BY <1>1, <1>8, <1>12 DEF Drawn
  <2> QED BY <2>1, <2>2, <2>3 DEF Drawn
<1>14. Mine(r)' /\ Seen(r)'
  <2>1. Mine(r)'
    BY <1>3, <1>4, <1>6, <1>7, <1>10, <1>12 DEF Mine, k
  <2>2. Seen(r)'
    BY <1>1, <1>4, <1>11, <1>12 DEF Seen, I!Editing
  <2> QED BY <2>1, <2>2
<1>15. ASSUME NEW q \in Req, q # r PROVE Mine(q)' /\ Seen(q)'
  <2>1. Mine(q) /\ Seen(q)
    BY DEF PicturesInv
  <2>2. Mine(q)'
    BY <1>4, <1>12, <1>15, <2>1 DEF Mine
  <2>3. Seen(q)'
    BY <1>4, <1>11, <1>12, <1>15, <2>1 DEF Seen
  <2> QED BY <2>2, <2>3
<1>16. I!RowsHaveFiles' /\ I!DeletedIsRecorded' /\ I!GalleryKeepsOne' /\ I!WithinLimit'
  BY <1>4, <1>11
     DEF PicturesInv, I!RowsHaveFiles, I!DeletedIsRecorded, I!GalleryKeepsOne, I!WithinLimit
<1>17. I!NoOrphans'
  BY <1>1, <1>4, <1>12 DEF PicturesInv, I!NoOrphans
<1> QED BY <1>9, <1>13, <1>14, <1>15, <1>16, <1>17 DEF PicturesInv

\* What a commit makes of the rows and of the other requests, answered or not.
Commits(r) ==
    /\ ipc[r] = "commit" /\ posted' = TRUE
    /\ images' = [i \in I!Image |-> IF i \in new[r] THEN "live" ELSE images[i]]
    /\ recorded' = recorded \cup {i \in I!Image : images[i] = "live"}
    /\ over' = IF stale[r] THEN over + Cardinality(new[r]) ELSE over
    /\ UNCHANGED <<parts, old, drawn, staged, leaked, both>>
    /\ \A q \in Req \ {r} :
         /\ ipc'[q] = ipc[q] /\ new'[q] = new[q] /\ room'[q] = room[q] /\ uses'[q] = uses[q]
         /\ target'[q] = target[q] /\ (ipc[q] \in I!Editing => stale'[q]) /\ (stale[q] => stale'[q])
    /\ new'[r] \subseteq new[r]

\* A commit as it was meant, and one whose directories are removed again.
LEMMA CommitsKeeps ==
    ASSUME I!ImageConstants, PicturesInv, PicturesTyped', NEW r \in Req, Commits(r), Mine(r)', Seen(r)',
           \/ dirs' = dirs /\ lost' = lost
           \/ dirs' = dirs \ new[r] /\ lost' = lost \cup new[r]
    PROVE  PicturesInv'
<1>1. /\ PicturesTyped /\ Drawn /\ Mine(r) /\ Seen(r) /\ ipc[r] = "commit"
      /\ new[r] \in SUBSET I!Image
  BY DEF PicturesInv, PicturesTyped, Commits
<1>2. /\ I!Image = 1 .. MaxImages /\ MaxImages \in Nat /\ Limit \in Nat
      /\ I!Shown \in SUBSET I!Image /\ I!Shown' \in SUBSET I!Image
      /\ Cardinality(I!Shown) \in Nat
  BY <1>1, ShownSets DEF PicturesTyped, I!Shown
<1>3. /\ new[r] \subseteq dirs /\ new[r] # {} /\ \A i \in new[r] : images[i] = "none"
      /\ Cardinality(new[r]) <= room[r] /\ room[r] \in Nat
  BY <1>1, <1>2 DEF Mine, PicturesTyped
<1>4. Cardinality(new[r]) \in Nat /\ Cardinality(new[r]) # 0
  BY <1>1, <1>2, <1>3, Numbers
<1>5. \A i \in I!Image : /\ i \in new[r] => images'[i] = "live"
                         /\ i \notin new[r] => images'[i] = images[i]
  BY DEF Commits
<1>6. /\ I!Shown \subseteq I!Shown' /\ I!Shown' \subseteq I!Shown \cup new[r]
      /\ dirs' = dirs => I!Shown' = I!Shown \cup new[r]
  BY <1>1, <1>3, <1>5 DEF I!Shown, PicturesTyped
<1>7. Drawn'
  <2>1. drawn' = drawn /\ dirs' \subseteq dirs /\ new[r] \subseteq 1 .. drawn
    BY <1>1 DEF Drawn, Commits
  <2>2. \A i \in I!Image : images'[i] # "none" => i <= drawn'
    BY <1>1, <1>5, <2>1 DEF Drawn
  <2>3. \A q \in Req : new'[q] \subseteq new[q]
    BY DEF Commits
  <2>4. \A q \in Req : new'[q] \subseteq 1 .. drawn'
    BY <1>1, <2>1, <2>3 DEF Drawn
  <2>5. \A p \in Req : \A q \in Req \ {p} : new'[p] \cap new'[q] = {}
    BY <1>1, <2>3 DEF Drawn
  <2> QED BY <1>1, <2>1, <2>2, <2>4, <2>5 DEF Drawn
<1>8. ASSUME NEW q \in Req, q # r PROVE Mine(q)' /\ Seen(q)'
  <2>1. Mine(q) /\ Seen(q) /\ new[q] \cap new[r] = {} /\ new[q] \subseteq I!Image
    BY <1>1, <1>8 DEF PicturesInv, PicturesTyped, Drawn
  <2>2. /\ ipc'[q] = ipc[q] /\ new'[q] = new[q] /\ room'[q] = room[q] /\ uses'[q] = uses[q]
        /\ target'[q] = target[q] /\ (ipc[q] \in I!Editing => stale'[q]) /\ (stale[q] => stale'[q])
    BY <1>8 DEF Commits
  <2>3. /\ \A i \in new[q] : images'[i] = images[i]
        /\ \A i \in I!Image : images[i] # "none" => images'[i] # "none"
    BY <1>5, <2>1
  <2>4. Mine(q)'
    BY <1>1, <2>1, <2>2, <2>3 DEF Mine
  <2>5. Seen(q)'
    <3>1. Cardinality(I!Shown) <= Cardinality(I!Shown') /\ Cardinality(I!Shown') \in Nat
      BY <1>2, <1>6, Numbers
    <3>2. ipc[q] = "delete" /\ ~stale[q] => Cardinality(I!Shown) > 1
      BY <2>1 DEF Seen
    <3>3. ipc'[q] = "delete" /\ ~stale'[q] => Cardinality(I!Shown') > 1
      BY <1>2, <2>2, <3>1, <3>2
    <3> QED BY <2>2, <3>3 DEF Seen
  <2> QED BY <2>4, <2>5
<1>9. I!RowsHaveFiles' /\ I!DeletedIsRecorded'
  BY <1>1, <1>3, <1>5 DEF PicturesInv, PicturesTyped, I!RowsHaveFiles, I!DeletedIsRecorded, Commits
<1>10. I!NoOrphans'
  <2> SUFFICES ASSUME NEW i \in dirs', images'[i] = "none", i \notin leaked'
               PROVE  \E q \in Req : i \in new'[q]
    BY DEF I!NoOrphans
  <2>1. i \in I!Image /\ i \in dirs /\ i \notin new[r] /\ images[i] = "none" /\ i \notin leaked
    BY <1>1, <1>5 DEF PicturesTyped, Commits
  <2>2. PICK q \in Req : i \in new[q]
    BY <2>1 DEF PicturesInv, I!NoOrphans
  <2> QED BY <2>1, <2>2 DEF Commits
<1>11. I!GalleryKeepsOne'
  BY <1>3, <1>6 DEF I!GalleryKeepsOne
<1>12. I!WithinLimit'
  <2>1. Cardinality(I!Shown) <= Limit + over /\ over \in Nat
    BY <1>1, PictureCardinality DEF PicturesInv, PicturesTyped, I!WithinLimit
  <2>2. Cardinality(I!Shown \cup new[r]) <= Cardinality(I!Shown) + Cardinality(new[r])
    BY <1>1, <1>2, Numbers
  <2>3. I!Shown \cup new[r] \in SUBSET I!Image
    BY <1>1, <1>2
  <2>4. /\ Cardinality(I!Shown') <= Cardinality(I!Shown \cup new[r])
        /\ Cardinality(I!Shown') \in Nat /\ Cardinality(I!Shown \cup new[r]) \in Nat
    BY <1>2, <1>6, <2>3, Numbers
  <2>5. ~stale[r] => room[r] = 0 \/ room[r] + Cardinality(I!Shown) <= Limit
    BY <1>1 DEF Seen, I!Editing
  <2>6. over' = IF stale[r] THEN over + Cardinality(new[r]) ELSE over
    BY DEF Commits
  <2>7. Cardinality(I!Shown') <= Limit + over'
    BY <1>2, <1>3, <1>4, <2>1, <2>2, <2>4, <2>5, <2>6
  <2> QED BY <2>7, PictureCardinality DEF I!WithinLimit
<1> QED BY <1>7, <1>8, <1>9, <1>10, <1>11, <1>12 DEF PicturesInv

LEMMA CommitKeeps ==
    ASSUME I!ImageConstants, PicturesInv, NEW r \in Req, I!Commit(r) PROVE PicturesInv'
<1>1. PicturesTyped /\ Mine(r) /\ ipc[r] = "commit" /\ new[r] \in SUBSET I!Image
  BY DEF PicturesInv, I!Commit, PicturesTyped
<1>2. /\ posted' = TRUE
      /\ images' = [i \in I!Image |-> IF i \in new[r] THEN "live" ELSE images[i]]
      /\ recorded' = recorded \cup {i \in I!Image : images[i] = "live"}
      /\ over' = IF stale[r] THEN over + Cardinality(new[r]) ELSE over
      /\ stale' = [q \in Req |-> q # r /\ (stale[q] \/ ipc[q] \in I!Editing)]
      /\ ipc' = [ipc EXCEPT ![r] = "forget"]
      /\ UNCHANGED <<dirs, parts, old, drawn, staged, room, uses, new, target, lost, leaked, both,
                     faults>>
  BY PictureCardinality DEF I!Commit, I!Committed, I!Noticed, I!Goto, I!files
<1>3. Cardinality(new[r]) \in Nat
  BY <1>1, ShownSets, Numbers
<1>4. PicturesTyped'
  <2>1. /\ images' \in [I!Image -> {"none", "live", "deleted"}]
        /\ recorded' \subseteq I!Image /\ over' \in Nat
    BY <1>1, <1>2, <1>3 DEF PicturesTyped
  <2>2. stale' \in [Req -> BOOLEAN]
    BY <1>2
  <2> QED BY <1>1, <1>2, <2>1, <2>2 DEF PicturesTyped, PictureStep
<1>5. ipc'[r] = "forget" /\ new'[r] = new[r] /\ \A i \in new[r] : images'[i] = "live"
  BY <1>1, <1>2 DEF PicturesTyped
<1>6. Mine(r)' /\ Seen(r)'
  BY <1>5 DEF Mine, Seen, I!Editing
<1>7. Commits(r)
  <2>1. \A q \in Req \ {r} :
          /\ ipc'[q] = ipc[q] /\ new'[q] = new[q] /\ room'[q] = room[q] /\ uses'[q] = uses[q]
          /\ target'[q] = target[q]
    BY <1>1, <1>2 DEF PicturesTyped
  <2>2. \A q \in Req \ {r} : (ipc[q] \in I!Editing => stale'[q]) /\ (stale[q] => stale'[q])
    BY <1>2
  <2> QED BY <1>1, <1>2, <2>1, <2>2 DEF Commits
<1> QED BY <1>2, <1>4, <1>6, <1>7, CommitsKeeps

LEMMA CommitUnansweredKeeps ==
    ASSUME I!ImageConstants, PicturesInv, NEW r \in Req, I!CommitUnanswered(r) PROVE PicturesInv'
<1>1. /\ PicturesTyped /\ Mine(r) /\ ipc[r] = "commit" /\ new[r] \in SUBSET I!Image
      /\ Limit \in Nat
  BY ShownSets DEF PicturesInv, I!CommitUnanswered, PicturesTyped
<1>2. /\ posted' = TRUE
      /\ images' = [i \in I!Image |-> IF i \in new[r] THEN "live" ELSE images[i]]
      /\ recorded' = recorded \cup {i \in I!Image : images[i] = "live"}
      /\ over' = IF stale[r] THEN over + Cardinality(new[r]) ELSE over
      /\ stale' = [q \in Req |-> q # r /\ (stale[q] \/ ipc[q] \in I!Editing)]
      /\ dirs' = dirs \ new[r] /\ lost' = lost \cup new[r]
      /\ ipc' = [ipc EXCEPT ![r] = "idle"] /\ room' = [room EXCEPT ![r] = 0]
      /\ uses' = [uses EXCEPT ![r] = {}] /\ new' = [new EXCEPT ![r] = {}]
      /\ target' = [target EXCEPT ![r] = 0]
      /\ UNCHANGED <<parts, old, drawn, staged, leaked, both>>
  BY PictureCardinality
     DEF I!CommitUnanswered, I!Committed, I!Noticed, I!Forgets, I!Goto
<1>3. Cardinality(new[r]) \in Nat
  BY <1>1, ShownSets, Numbers
<1>4. PicturesTyped'
  <2>1. /\ images' \in [I!Image -> {"none", "live", "deleted"}]
        /\ recorded' \subseteq I!Image /\ over' \in Nat
    BY <1>1, <1>2, <1>3 DEF PicturesTyped
  <2>2. stale' \in [Req -> BOOLEAN]
    BY <1>2
  <2> QED BY <1>1, <1>2, <2>1, <2>2 DEF PicturesTyped, PictureStep
<1>5. ipc'[r] = "idle" /\ new'[r] = {}
  BY <1>1, <1>2 DEF PicturesTyped
<1>6. Mine(r)' /\ Seen(r)'
  BY <1>5 DEF Mine, Seen, I!Editing
<1>7. Commits(r)
  <2>1. \A q \in Req \ {r} :
          /\ ipc'[q] = ipc[q] /\ new'[q] = new[q] /\ room'[q] = room[q] /\ uses'[q] = uses[q]
          /\ target'[q] = target[q]
    BY <1>1, <1>2 DEF PicturesTyped
  <2>2. \A q \in Req \ {r} : (ipc[q] \in I!Editing => stale'[q]) /\ (stale[q] => stale'[q])
    BY <1>2
  <2> QED BY <1>1, <1>2, <1>5, <2>1, <2>2 DEF Commits
<1> QED BY <1>2, <1>4, <1>6, <1>7, CommitsKeeps

\* A request that ends without a commit takes its directories with it, or
\* leaves them behind when its process stops.
LEMMA EndsKeeps ==
    ASSUME I!ImageConstants, PicturesInv, NEW r \in Req, I!Fails(r) \/ I!Crash(r)
    PROVE  PicturesInv'
<1>1. PicturesTyped /\ Drawn /\ Mine(r) /\ new[r] \in SUBSET I!Image /\ Limit \in Nat
  BY ShownSets DEF PicturesInv, PicturesTyped
<1>2. /\ \/ /\ dirs' = dirs \ new[r] /\ leaked' = leaked /\ ipc[r] \in {"save", "commit"}
         \/ /\ dirs' = dirs
            /\ leaked' = leaked \cup (IF ipc[r] \in {"save", "commit"} THEN new[r] ELSE {})
      /\ ipc' = [ipc EXCEPT ![r] = "idle"] /\ room' = [room EXCEPT ![r] = 0]
      /\ uses' = [uses EXCEPT ![r] = {}] /\ new' = [new EXCEPT ![r] = {}]
      /\ target' = [target EXCEPT ![r] = 0] /\ stale' = [stale EXCEPT ![r] = FALSE]
      /\ UNCHANGED <<posted, images, recorded, parts, old, drawn, staged, lost, over, both>>
  BY DEF I!Fails, I!Crash, I!Rollback, I!Forgets, I!Goto, I!rows, I!files, I!ghosts
<1>3. PicturesTyped'
  BY <1>1, <1>2 DEF PicturesTyped, PictureStep
<1>4. /\ ipc'[r] = "idle" /\ new'[r] = {}
      /\ \A q \in Req \ {r} :
           /\ ipc'[q] = ipc[q] /\ new'[q] = new[q] /\ room'[q] = room[q] /\ uses'[q] = uses[q]
           /\ target'[q] = target[q] /\ stale'[q] = stale[q]
  BY <1>1, <1>2 DEF PicturesTyped
<1>5. ipc[r] \in {"save", "commit"} => \A i \in new[r] : images[i] = "none"
  BY <1>1 DEF Mine
<1>6. I!Shown' = I!Shown
  BY <1>2, <1>5 DEF I!Shown
<1>7. Drawn'
  BY <1>1, <1>2, <1>4 DEF Drawn
<1>8. Mine(r)' /\ Seen(r)'
  BY <1>4 DEF Mine, Seen, I!Editing
<1>9. ASSUME NEW q \in Req, q # r PROVE Mine(q)' /\ Seen(q)'
  <2>1. Mine(q) /\ Seen(q) /\ new[q] \cap new[r] = {}
    BY <1>1, <1>9 DEF PicturesInv, Drawn
  <2>2. Mine(q)'
    BY <1>2, <1>4, <1>9, <2>1 DEF Mine
  <2>3. Seen(q)'
    BY <1>4, <1>6, <1>9, <2>1 DEF Seen
  <2> QED BY <2>2, <2>3
<1>10. I!RowsHaveFiles' /\ I!DeletedIsRecorded'
  BY <1>1, <1>2, <1>5 DEF PicturesInv, I!RowsHaveFiles, I!DeletedIsRecorded
<1>11. I!GalleryKeepsOne' /\ I!WithinLimit'
  BY <1>2, <1>6 DEF PicturesInv, I!GalleryKeepsOne, I!WithinLimit
<1>12. I!NoOrphans'
  <2> SUFFICES ASSUME NEW i \in dirs', images'[i] = "none", i \notin leaked'
               PROVE  \E q \in Req : i \in new'[q]
    BY DEF I!NoOrphans
  <2>1. i \in dirs /\ images[i] = "none" /\ i \notin leaked
    BY <1>2
  <2>2. PICK q \in Req : i \in new[q]
    BY <2>1 DEF PicturesInv, I!NoOrphans
  <2>3. i \notin new[r]
    <3>1. ipc[r] = "forget" => \A j \in new[r] : images[j] # "none"
      BY <1>1 DEF Mine
    <3>2. new[r] # {} => ipc[r] \in {"commit", "forget"}
      BY <1>1 DEF Mine
    <3> QED BY <1>2, <2>1, <3>1, <3>2
  <2> QED BY <1>4, <2>2, <2>3
<1> QED BY <1>3, <1>7, <1>8, <1>9, <1>10, <1>11, <1>12 DEF PicturesInv

LEMMA DeleteKeeps ==
    ASSUME I!ImageConstants, PicturesInv, NEW r \in Req, I!Delete(r) PROVE PicturesInv'
<1>1. /\ PicturesTyped /\ Drawn /\ Mine(r) /\ Seen(r) /\ ipc[r] = "delete" /\ new[r] = {}
      /\ Limit \in Nat
  BY NothingNew, ShownSets DEF PicturesInv, I!Delete
<1> DEFINE i == target[r]
<1>2. i \in I!Image /\ images[i] # "none"
  BY <1>1 DEF Mine
<1>3. /\ recorded' = recorded \cup {j \in I!Image : images[j] = "live"}
      /\ images' = [images EXCEPT ![i] = "deleted"] /\ both' = (both \/ stale[r])
      /\ stale' = [q \in Req |-> q # r /\ (stale[q] \/ ipc[q] \in {"delete"})]
      /\ ipc' = [ipc EXCEPT ![r] = "idle"] /\ room' = [room EXCEPT ![r] = 0]
      /\ uses' = [uses EXCEPT ![r] = {}] /\ new' = [new EXCEPT ![r] = {}]
      /\ target' = [target EXCEPT ![r] = 0]
      /\ UNCHANGED <<posted, dirs, parts, old, drawn, staged, lost, leaked, over>>
  BY DEF I!Delete, I!Noticed, I!Forgets, I!Goto, I!files
<1> HIDE DEF i
<1>4. \A j \in I!Image : images'[j] = IF j = i THEN "deleted" ELSE images[j]
  BY <1>1, <1>3 DEF PicturesTyped
<1>5. PicturesTyped'
  <2>1. /\ images' \in [I!Image -> {"none", "live", "deleted"}] /\ recorded' \subseteq I!Image
    BY <1>1, <1>3 DEF PicturesTyped
  <2>2. stale' \in [Req -> BOOLEAN]
    BY <1>3
  <2>3. both' \in BOOLEAN
    BY <1>3
  <2> QED BY <1>1, <1>3, <2>1, <2>2, <2>3 DEF PicturesTyped, PictureStep
<1>6. /\ ipc'[r] = "idle" /\ new'[r] = {}
      /\ \A q \in Req \ {r} :
           /\ ipc'[q] = ipc[q] /\ new'[q] = new[q] /\ room'[q] = room[q] /\ uses'[q] = uses[q]
           /\ target'[q] = target[q]
  BY <1>1, <1>3 DEF PicturesTyped
<1>7. \A q \in Req \ {r} : (ipc[q] = "delete" => stale'[q]) /\ (stale[q] => stale'[q])
  BY <1>3
<1>8. I!Shown' = I!Shown \ {i}
  BY <1>1, <1>3, <1>4 DEF I!Shown, PicturesTyped
<1>9. /\ I!Shown \in SUBSET I!Image /\ Cardinality(I!Shown) \in Nat
      /\ Cardinality(I!Shown') \in Nat /\ Cardinality(I!Shown') <= Cardinality(I!Shown)
      /\ Cardinality(I!Shown) > 1 => I!Shown' # {}
  <2>1. /\ I!Shown \in SUBSET I!Image /\ Cardinality(I!Shown) \in Nat
        /\ I!Image = 1 .. MaxImages /\ MaxImages \in Nat
    BY <1>1, ShownSets
  <2>2. I!Shown \ {i} \in SUBSET I!Shown /\ I!Shown \ {i} \in SUBSET I!Image
    BY <2>1
  <2>3. /\ Cardinality(I!Shown \ {i}) \in Nat
        /\ Cardinality(I!Shown \ {i}) <= Cardinality(I!Shown)
    BY <2>1, <2>2, Numbers
  <2>4. i \in I!Shown => Cardinality(I!Shown \ {i}) = Cardinality(I!Shown) - 1
    BY <2>1, Numbers
  <2>5. i \notin I!Shown => I!Shown \ {i} = I!Shown
    OBVIOUS
  <2>6. Cardinality({}) = 0
    BY <2>1, Numbers
  <2>7. Cardinality(I!Shown) > 1 => I!Shown \ {i} # {}
    <3>1. CASE i \in I!Shown
      <4>1. Cardinality(I!Shown) > 1 => Cardinality(I!Shown \ {i}) # 0
        BY <2>1, <2>4, <3>1
      <4> QED BY <4>1, <2>6
    <3>2. CASE i \notin I!Shown
      <4>1. Cardinality(I!Shown) > 1 => Cardinality(I!Shown) # 0
        BY <2>1
      <4> QED BY <4>1, <2>5, <2>6, <3>2
    <3> QED BY <3>1, <3>2
  <2>8. Cardinality(I!Shown') = Cardinality(I!Shown \ {i})
    BY <1>8
  <2> QED BY <1>8, <2>1, <2>3, <2>7, <2>8
<1>10. Drawn'
  BY <1>1, <1>2, <1>3, <1>4, <1>6 DEF Drawn
<1>11. Mine(r)' /\ Seen(r)'
  BY <1>6 DEF Mine, Seen, I!Editing
<1>12. ASSUME NEW q \in Req, q # r PROVE Mine(q)' /\ Seen(q)'
  <2>1. Mine(q) /\ Seen(q) /\ new[q] \subseteq I!Image /\ room[q] \in Nat
    BY <1>1 DEF PicturesInv, PicturesTyped
  <2>2. Mine(q)'
    BY <1>2, <1>3, <1>4, <1>6, <1>12, <2>1 DEF Mine
  <2>3. ipc[q] # "delete" \/ stale'[q]
    BY <1>7, <1>12
  <2>4. ipc'[q] \in I!Editing /\ ~stale'[q] => room'[q] = 0 \/ room'[q] + Cardinality(I!Shown') <= Limit
    BY <1>1, <1>6, <1>7, <1>9, <1>12, <2>1 DEF Seen
  <2> QED BY <1>6, <1>12, <2>2, <2>3, <2>4 DEF Seen
<1>13. I!RowsHaveFiles' /\ I!NoOrphans'
  BY <1>1, <1>2, <1>3, <1>4, <1>6 DEF PicturesInv, PicturesTyped, I!RowsHaveFiles, I!NoOrphans
<1>14. I!DeletedIsRecorded'
  BY <1>1, <1>2, <1>3, <1>4 DEF PicturesInv, PicturesTyped, I!DeletedIsRecorded
<1>15. I!GalleryKeepsOne'
  BY <1>1, <1>3, <1>9 DEF Seen, I!GalleryKeepsOne
<1>16. I!WithinLimit'
  <2>1. Cardinality(I!Shown) <= Limit + over /\ over \in Nat /\ over' = over
    BY <1>1, <1>3, PictureCardinality DEF PicturesInv, PicturesTyped, I!WithinLimit
  <2>2. Cardinality(I!Shown') <= Limit + over'
    BY <1>1, <1>9, <2>1
  <2> QED BY <2>2, PictureCardinality DEF I!WithinLimit
<1> QED BY <1>5, <1>10, <1>11, <1>12, <1>13, <1>14, <1>15, <1>16 DEF PicturesInv

LEMMA StepPictures ==
    ASSUME I!ImageConstants, PicturesInv, [I!Next]_(I!vars) PROVE PicturesInv'
<1>1. CASE UNCHANGED I!vars \/ I!TimeAndJob
  <2>1. UNCHANGED <<posted, images, recorded, dirs, drawn, staged, ipc, room, uses, new, target,
                    stale, lost, leaked, over, both, faults>>
    BY <1>1 DEF I!vars, I!TimeAndJob, I!Ages, I!Clean, I!rows, I!files, I!own, I!ghosts
  <2>2. PicturesTyped
    BY DEF PicturesInv
  <2>3. parts' \in [I!Preview -> SUBSET I!Whole] /\ old' \subseteq I!Preview
    <3>1. CASE UNCHANGED I!vars
      BY <2>2, <3>1 DEF PicturesTyped, I!vars, I!files
    <3>2. ASSUME NEW p \in I!Preview, I!Ages(p)
          PROVE  parts' \in [I!Preview -> SUBSET I!Whole] /\ old' \subseteq I!Preview
      BY <2>2, <3>2 DEF PicturesTyped, I!Ages
    <3>3. CASE I!Clean
      BY <2>2, <3>3 DEF PicturesTyped, I!Clean
    <3> QED BY <1>1, <3>1, <3>2, <3>3 DEF I!TimeAndJob
  <2>4. PicturesTyped'
    BY <2>1, <2>2, <2>3 DEF PicturesTyped
  <2>5. I!Shown' = I!Shown
    BY <2>1 DEF I!Shown
  <2>6. \A q \in Req : Mine(q)' /\ Seen(q)'
    BY <2>1, <2>5 DEF PicturesInv, Mine, Seen
  <2> QED BY <2>1, <2>4, <2>5, <2>6
          DEF PicturesInv, Drawn, I!RowsHaveFiles, I!NoOrphans, I!DeletedIsRecorded,
              I!GalleryKeepsOne, I!WithinLimit
<1>2. ASSUME NEW r \in Req,
             \/ I!Look(r) \/ I!Stage(r) \/ I!Save(r) \/ I!Commit(r) \/ I!Fails(r)
             \/ I!CommitUnanswered(r) \/ I!DropPreview(r) \/ I!Crash(r) \/ I!Delete(r)
             \/ \E i \in I!Image : I!DeleteCheck(r, i)
      PROVE  PicturesInv'
  BY <1>2, LookKeeps, StageKeeps, SaveKeeps, CommitKeeps, EndsKeeps, CommitUnansweredKeeps,
     DropPreviewKeeps, DeleteKeeps, DeleteCheckKeeps
<1> QED BY <1>1, <1>2 DEF I!Next

\* Whatever overlaps, fails or stops between files and rows: every picture has
\* its files and every directory its picture but for a lost answer or a process
\* that stopped, deletions are recorded, and the gallery's two rules hold but
\* for overlapping requests (create_topic, edit_topic, vDelete).
THEOREM PicturesStayConsistent ==
    ASSUME I!ImageConstants PROVE I!Spec => []PicturesConsistent
<1>1. I!Init => PicturesInv
  BY InitPictures
<1>2. PicturesInv /\ [I!Next]_(I!vars) => PicturesInv'
  BY StepPictures
<1>3. PicturesInv => PicturesConsistent
  BY DEF PicturesInv, PicturesTyped, PictureStep, PicturesConsistent, I!PicturesConsistent,
         I!ImagesTypeOK
<1> QED BY <1>1, <1>2, <1>3, PTL DEF I!Spec
-----------------------------------------------------------------------------
(* Both *)

\* No step of a request or of the job undoes what another has settled: an
\* activated account is not deleted, an address that waits for its code is not
\* dropped by the acceptance of another, and a replaced password does not come
\* back (vDeleteInactiveAccounts, acceptNewEmail, the upgrade of an old hash).
THEOREM SettledStays == Spec /\ S!Spec => SettledStands
<1>1. /\ Init => AccountsInv
      /\ AccountsInv /\ [Next]_vars => AccountsInv' /\ KeepsConfirmed
  BY InitAccounts, StepAccounts, ConfirmedIsKept DEF Keeps
<1>2. /\ S!Init => CredentialsInv
      /\ CredentialsInv /\ [S!Next]_(S!vars) => CredentialsInv' /\ S!KeepsPassword
  BY InitCredentials, StepCredentials, PasswordIsKept
<1>3. KeepsConfirmed /\ S!KeepsPassword => [KeepsConfirmed /\ S!KeepsPassword]_<<vars, svars>>
  OBVIOUS
<1> QED BY <1>1, <1>2, <1>3, PTL DEF Spec, S!Spec, SettledStands
=============================================================================
