----------------------------- MODULE Topic_proofs -----------------------------
(***************************************************************************)
(* What holds of a topic for any requests, users, groups, penalties and    *)
(* awards: it is deleted exactly when its del_info is there, its author    *)
(* never gets back more than was taken, it is published once, a            *)
(* confirmation leaves it in its section, and a text that an edit replaces *)
(* is on record.  And of the pages of comments below it, for any comments, *)
(* answers, authors, readers and length of a page: a jump lands, a walk    *)
(* misses nothing, a browser's copy is what the page shows, and what the   *)
(* reader ignores stays hidden.                                            *)
(***************************************************************************)
EXTENDS TopicAndPage, FiniteSetTheorems, WellFoundedInduction, TLAPS

-----------------------------------------------------------------------------
(* The inductive invariant *)

Place == {"idle", "open", "form", "done"} \cup Statement

Fields == {"deleted", "draft", "published", "moderate", "group", "title", "message",
           "info", "score", "awarded"}
TopicRec ==
    [deleted : BOOLEAN, draft : BOOLEAN, published : Nat, moderate : BOOLEAN, group : Group,
     title : SUBSET Req, message : SUBSET Req, info : Int \cup {NoInfo}, score : Int,
     awarded : Int]
Command == [message : SUBSET Req, title : SUBSET Req, commit : BOOLEAN, publish : BOOLEAN,
            group : Group, seen : SUBSET Req, shown : SUBSET Req]
Current == [message : SUBSET Req, title : SUBSET Req, group : Group, draft : BOOLEAN]
OldRow  == [id : Nat, old : SUBSET Req]

Form    == [by : User \cup {Nobody}, token : Nat, message : SUBSET Req, title : SUBSET Req,
            shown : SUBSET Req, told : BOOLEAN]

LocalsTyped ==
    /\ pc \in [Req -> Place]
    /\ form \in [Req -> Form]
    /\ cmd \in [Req -> Command] /\ cur \in [Req -> Current] /\ row \in [Req -> OldRow]
    /\ bonus \in [Req -> Int] /\ target \in [Req -> Group]

HistoryTyped ==
    /\ nextId \in Nat \ {0} /\ edits \subseteq OldRow
    /\ \A e \in edits : e.id \in 1 .. (nextId - 1)
    /\ \A r \in Req : row[r].id < nextId /\ (row[r].id = 0 => row[r] = NoRow)

RowsTyped ==
    /\ db \in TopicRec /\ new \in TopicRec
    /\ lock \in [Row -> Req \cup {Nobody}]
    /\ \A f \in Fields : lock[RowOf(f)] = Nobody => new[f] = db[f]

Typed == LocalsTyped /\ HistoryTyped /\ RowsTyped

\* Who holds which row at which statement.
Holds(r) ==
    /\ lock["topics"] = r => pc[r] \in {"penalize", "insert", "remove", "reward", "append", "commit"}
    /\ lock["msgbase"] = r => pc[r] \in {"topic", "reward", "commit"}
    /\ lock["del_info"] = r => pc[r] \in {"refund", "restore", "remove", "commit"}
    /\ lock["author"] = r => pc[r] \in {"insert", "restore", "remove", "commit"}
    /\ pc[r] \in {"penalize", "insert", "remove", "reward", "append"} => lock["topics"] = r
    /\ pc[r] = "commit" /\ (lock["del_info"] = r \/ lock["author"] = r) => lock["topics"] = r

\* What a row of the topic, its del_info and its author must be together.
Owed(d)  == d.score - d.awarded
Sound(d) ==
    /\ d.deleted <=> d.info # NoInfo
    /\ d.info # NoInfo => d.info <= 0
    /\ Owed(d) <= IF d.deleted THEN d.info ELSE 0
Fresh(d) == d.published <= 1 /\ (d.draft => d.published = 0)

\* The rows as r would commit them now.
Result(r) == [f \in DOMAIN db |-> IF Mine(r, f) THEN new[f] ELSE db[f]]

\* A deletion and a restoration on their way.
Removes(r) ==
    /\ bonus[r] <= 0
    /\ pc[r] \in {"penalize", "insert"} => ~db.deleted /\ new.deleted
    /\ pc[r] = "penalize" => bonus[r] # 0
    /\ pc[r] = "insert" => (lock["author"] = r <=> bonus[r] # 0)
    /\ pc[r] = "insert" /\ lock["author"] = r => Owed(new) = Owed(db) + bonus[r]
Restores(r) ==
    /\ pc[r] \in {"refund", "restore", "remove"} =>
         /\ bonus[r] # 0 => lock["del_info"] = r
         /\ lock["del_info"] = r => new.info = db.info /\ db.info = bonus[r]
    /\ pc[r] = "refund" => bonus[r] # 0
    /\ pc[r] \in {"restore", "remove"} =>
         /\ lock["author"] = r <=> bonus[r] # 0
         /\ lock["author"] = r => Owed(new) = Owed(db) - bonus[r]
    /\ pc[r] = "remove" => ~new.deleted
Others(r) ==
    /\ pc[r] \in {"reward", "append"} => new.deleted = db.deleted
    /\ pc[r] = "commit" /\ lock["topics"] = r => Sound(Result(r))

\* A confirmation keeps the section, and a replaced text is on record.
Confirms(r) ==
    /\ cmd[r].commit => pc[r] \in {"read", "message", "topic", "reward", "commit"}
    /\ cmd[r].commit /\ pc[r] \in {"reward", "commit"} =>
         lock["topics"] = r /\ SectionOf[new.group] = SectionOf[db.group]
OnRecord(r) == row[r].id # 0 /\ row[r].old = cur[r].message
Records(r) ==
    /\ cur[r] # NoCur => pc[r] \in {"message", "topic", "reward", "commit"}
    /\ lock["msgbase"] = r /\ pc[r] = "topic" => NewMessage(r) /\ (NewTitle(r) \/ OnRecord(r))
    /\ lock["msgbase"] = r /\ pc[r] \in {"reward", "commit"} =>
         cur[r].message = {} \/ OnRecord(r)
    /\ pc[r] = "message" => NewMessage(r)

ReqInv(r) == Holds(r) /\ Removes(r) /\ Restores(r) /\ Others(r) /\ Confirms(r) /\ Records(r)

TopicInv ==
    /\ Typed
    /\ Sound(db) /\ Fresh(db) /\ Fresh(new)
    /\ \A r \in Req : ReqInv(r)

-----------------------------------------------------------------------------
(* Rows and fields *)

LEMMA RowsOfFields ==
    /\ \A f \in Fields : RowOf(f) \in Row
    /\ \A f \in {"deleted", "draft", "published", "moderate", "group", "title"} :
         RowOf(f) = "topics"
    /\ RowOf("message") = "msgbase" /\ RowOf("info") = "del_info"
    /\ RowOf("score") = "author" /\ RowOf("awarded") = "author"
  BY DEF RowOf, Row, Fields

LEMMA RecHasFields ==
    ASSUME NEW d \in TopicRec PROVE DOMAIN d = Fields
  BY DEF TopicRec, Fields

LEMMA NobodyIsNoRequest == Nobody \notin Req /\ NoInfo \notin Int
  BY ConstantAssumption

LEMMA InitInv == Init => TopicInv
<1> SUFFICES ASSUME Init PROVE TopicInv
  OBVIOUS
<1> PICK d \in BOOLEAN : 
         db = [deleted |-> FALSE, draft |-> d, published |-> IF d THEN 0 ELSE 1,
               moderate |-> FALSE, group |-> FirstGroup, title |-> {},
               message |-> {}, info |-> NoInfo, score |-> 0, awarded |-> 0]
  BY DEF Init
<1>1. db \in TopicRec
  BY ConstantAssumption DEF TopicRec
<1>2. RowsTyped
  BY <1>1 DEF RowsTyped, Init
<1>3. HistoryTyped
  BY DEF HistoryTyped, Init, NoRow, OldRow
<1>4. form \in [Req -> Form]
  BY DEF Form, Init, NoForm
<1>5. LocalsTyped
  BY <1>4, ConstantAssumption
     DEF LocalsTyped, Init, Place, Command, Current, OldRow, NoCmd, NoCur, NoRow
<1>6. Sound(db) /\ Fresh(db) /\ Fresh(new)
  BY DEF Sound, Fresh, Owed, Init
<1>7. ASSUME NEW r \in Req PROVE ReqInv(r)
  <2>1. /\ \A x \in Row : lock[x] # r
        /\ pc[r] = "idle" /\ ~cmd[r].commit /\ cur[r] = NoCur /\ bonus[r] = 0
    BY NobodyIsNoRequest DEF Init, NoCmd
  <2> QED
    BY <2>1 DEF ReqInv, Holds, Removes, Restores, Others, Confirms, Records, Row
<1> QED BY <1>2, <1>3, <1>5, <1>6, <1>7 DEF TopicInv, Typed

-----------------------------------------------------------------------------
(* What a step of one request leaves to the others *)

Frame(r) ==
    /\ db' = db
    /\ \A q \in Req \ {r} : /\ pc'[q] = pc[q] /\ cmd'[q] = cmd[q] /\ cur'[q] = cur[q]
                            /\ row'[q] = row[q] /\ bonus'[q] = bonus[q]
    /\ \A x \in Row : lock'[x] # lock[x] => lock[x] \in {Nobody, r} /\ lock'[x] \in {Nobody, r}
    /\ \A f \in Fields : new'[f] # new[f] => lock[RowOf(f)] \in {Nobody, r}

LEMMA FrameKeeps ==
    ASSUME Typed, Typed', NEW r \in Req, NEW q \in Req \ {r}, Frame(r), ReqInv(q)
    PROVE  ReqInv(q)'
<1>1. /\ pc'[q] = pc[q] /\ cmd'[q] = cmd[q] /\ cur'[q] = cur[q]
      /\ row'[q] = row[q] /\ bonus'[q] = bonus[q] /\ db' = db
  BY DEF Frame
<1>2. \A x \in Row : lock'[x] = q <=> lock[x] = q
  BY NobodyIsNoRequest DEF Frame
<1>3. /\ lock'["topics"] = q <=> lock["topics"] = q
      /\ lock'["msgbase"] = q <=> lock["msgbase"] = q
      /\ lock'["del_info"] = q <=> lock["del_info"] = q
      /\ lock'["author"] = q <=> lock["author"] = q
  BY <1>2 DEF Row
<1>4. \A f \in Fields : lock[RowOf(f)] = q => new'[f] = new[f]
  BY NobodyIsNoRequest DEF Frame
<1>5. /\ lock["topics"] = q => new'.deleted = new.deleted /\ new'.group = new.group
      /\ lock["del_info"] = q => new'.info = new.info
      /\ lock["author"] = q => new'.score = new.score /\ new'.awarded = new.awarded
  BY <1>4, RowsOfFields DEF Fields
<1>6. Result(q)' = Result(q)
  <2>1. DOMAIN db = Fields
    BY RecHasFields DEF Typed, RowsTyped
  <2> QED BY <2>1, <1>1, <1>2, <1>4, RowsOfFields DEF Result, Mine
<1>7. Holds(q)'
  BY <1>1, <1>3 DEF ReqInv, Holds
<1>8. Removes(q)'
  BY <1>1, <1>3, <1>5 DEF ReqInv, Holds, Removes, Owed
<1>9. Restores(q)'
  BY <1>1, <1>3, <1>5 DEF ReqInv, Holds, Restores, Owed
<1>10. Others(q)'
  BY <1>1, <1>3, <1>5, <1>6 DEF ReqInv, Holds, Others, Sound, Owed
<1>11. Confirms(q)'
  BY <1>1, <1>3, <1>5 DEF ReqInv, Holds, Confirms
<1>12. Records(q)'
  BY <1>1, <1>3 DEF ReqInv, Records, OnRecord, NewMessage, NewTitle
<1> QED BY <1>7, <1>8, <1>9, <1>10, <1>11, <1>12 DEF ReqInv

LEMMA StepKeeps ==
    ASSUME TopicInv, NEW r \in Req, Typed', Fresh(new)', Frame(r), ReqInv(r)'
    PROVE  TopicInv'
<1>1. Sound(db)' /\ Fresh(db)'
  BY DEF TopicInv, Frame, Sound, Fresh, Owed
<1>2. ASSUME NEW q \in Req PROVE ReqInv(q)'
  BY FrameKeeps DEF TopicInv
<1> QED BY <1>1, <1>2 DEF TopicInv

-----------------------------------------------------------------------------
(* Steps that only read: they hold no row and change none *)

Reading == {"idle", "open", "form", "read"}
Before  == {"open", "form", "read", "message", "topic", "delete", "undelete", "move", "uncommit"}

Reads(r, s) ==
    /\ pc[r] \in Reading /\ s \in Before /\ pc' = [pc EXCEPT ![r] = s]
    /\ db' = db /\ new' = new /\ lock' = lock /\ edits' = edits /\ nextId' = nextId /\ row' = row
    /\ form' \in [Req -> Form] /\ target' \in [Req -> Group]
    /\ cmd' \in [Req -> Command] /\ cur' \in [Req -> Current] /\ bonus' \in [Req -> Int]
    /\ \A q \in Req \ {r} : cmd'[q] = cmd[q] /\ cur'[q] = cur[q] /\ bonus'[q] = bonus[q]
    /\ bonus'[r] <= 0
    /\ cmd'[r].commit => s \in {"read", "message", "topic"}
    /\ cur'[r] # NoCur => s \in {"message", "topic"}
    /\ s = "message" => NewMessage(r)'

LEMMA ReadsInv ==
    ASSUME TopicInv, NEW r \in Req, NEW s, Reads(r, s)
    PROVE  TopicInv'
<1>1. pc \in [Req -> Place] /\ pc'[r] = s /\ \A q \in Req \ {r} : pc'[q] = pc[q]
  BY DEF TopicInv, Typed, LocalsTyped, Reads
<1>2. pc' \in [Req -> Place]
  BY <1>1 DEF Place, Statement, Before, Reads
<1>3. Typed'
  <2>1. LocalsTyped'
    BY <1>2 DEF LocalsTyped, TopicInv, Typed, Reads
  <2>2. HistoryTyped'
    BY DEF HistoryTyped, TopicInv, Typed, Reads
  <2>3. RowsTyped'
    BY DEF RowsTyped, TopicInv, Typed, Reads
  <2> QED BY <2>1, <2>2, <2>3 DEF Typed
<1>4. Fresh(new)'
  BY DEF TopicInv, Fresh, Reads
<1>5. Frame(r)
  BY <1>1 DEF Frame, Reads
<1>6. \A x \in Row : lock[x] # r
  BY DEF TopicInv, ReqInv, Holds, Reading, Row, Reads
<1>7. ReqInv(r)'
  BY <1>1, <1>6
     DEF ReqInv, Holds, Removes, Restores, Others, Confirms, Records, Row, Before, Reads
<1> QED BY <1>3, <1>4, <1>5, <1>7, StepKeeps

LEMMA LeastNat ==
    ASSUME NEW T, T \subseteq Nat, T # {} PROVE \E x \in T : \A y \in T : x <= y
<1>1. PICK x \in T : \A y \in T : ~(<<y, x>> \in OpToRel(<, Nat))
  BY WFMin, NatLessThanWellFounded
<1>2. \A y \in T : ~(y < x)
  BY <1>1 DEF OpToRel
<1> QED BY <1>2

LEMMA MaxOfBounded ==
    ASSUME NEW n \in Nat, NEW S, S \subseteq 1 .. n, S # {}
    PROVE  Max(S) \in S /\ Max(S) \in Nat /\ \A y \in S : y <= Max(S)
<1> DEFINE T == {n - x : x \in S}
<1>1. T \subseteq Nat /\ T # {}
  <2>1. \A x \in S : x \in Int /\ n - x \in Nat
    OBVIOUS
  <2>2. PICK x \in S : TRUE
    OBVIOUS
  <2>3. n - x \in T
    OBVIOUS
  <2> QED BY <2>1, <2>3
<1>2. PICK m \in T : \A y \in T : m <= y
  BY <1>1, LeastNat
<1>3. PICK x \in S : m = n - x
  BY <1>2
<1>4. \A y \in S : x >= y
  <2> TAKE y \in S
  <2>1. m <= n - y
    BY <1>2
  <2> QED BY <2>1, <1>3
<1> HIDE DEF T
<1>5. Max(S) \in S /\ \A y \in S : Max(S) >= y
  BY <1>4 DEF Max
<1>6. \A y \in S : y \in Nat
  OBVIOUS
<1> QED BY <1>5, <1>6

LEMMA LastEditIsNat == HistoryTyped => LastEdit \in Nat
<1> SUFFICES ASSUME HistoryTyped, edits # {} PROVE Max({e.id : e \in edits}) \in Nat
  BY DEF LastEdit
<1> DEFINE S == {e.id : e \in edits}
<1>1. nextId \in Nat /\ nextId - 1 \in Nat /\ S \subseteq 1 .. (nextId - 1) /\ S # {}
  BY DEF HistoryTyped
<1> HIDE DEF S
<1>2. Max(S) \in Nat
  BY <1>1, MaxOfBounded
<1> QED BY <1>2 DEF S

\* What each step takes from the invariant.
LEMMA ReaderHas ==
    ASSUME TopicInv, NEW r \in Req
    PROVE  /\ bonus[r] \in Int /\ bonus[r] <= 0 /\ LastEdit \in Nat
           /\ form \in [Req -> Form] /\ target \in [Req -> Group]
           /\ cmd \in [Req -> Command] /\ cur \in [Req -> Current] /\ bonus \in [Req -> Int]
           /\ pc[r] \in {"idle", "open", "form"} => ~cmd[r].commit
           /\ pc[r] \in Reading => cur[r] = NoCur
           /\ db.message \subseteq Req /\ db.title \subseteq Req /\ db.group \in Group
           /\ db.draft \in BOOLEAN
  BY LastEditIsNat
     DEF TopicInv, Typed, LocalsTyped, RowsTyped, TopicRec, Command, ReqInv, Removes, Confirms,
         Records, Reading

LEMMA OpenFormInv ==
    ASSUME TopicInv, NEW r \in Req, NEW u \in User, OpenForm(r, u)
    PROVE  TopicInv'
<1>1. form' \in [Req -> Form]
  BY ReaderHas DEF OpenForm, Form
<1>2. Reads(r, "open")
  BY <1>1, ReaderHas DEF OpenForm, Go, Reading, Before, Reads
<1> QED BY <1>2, ReadsInv

LEMMA ReadTokenInv ==
    ASSUME TopicInv, NEW r \in Req, ReadToken(r)
    PROVE  TopicInv'
<1>1. form' \in [Req -> Form]
  <2>1. [form[r] EXCEPT !.token = LastEdit] \in Form
    BY ReaderHas DEF Form
  <2> QED
    BY <2>1, ReaderHas DEF ReadToken
<1>2. Reads(r, "form")
  BY <1>1, ReaderHas DEF ReadToken, Go, Reading, Before, Reads
<1> QED BY <1>2, ReadsInv

LEMMA WarnInv ==
    ASSUME TopicInv, NEW r \in Req, Warn(r)
    PROVE  TopicInv'
<1>1. form' \in [Req -> Form]
  <2>1. [form[r] EXCEPT !.token = LastEdit, !.told = TRUE, !.shown = @ \cup db.message] \in Form
    <3>1. PICK f \in Form, t \in Nat : f = form[r] /\ t = LastEdit
      BY ReaderHas
    <3>2. f.shown \cup db.message \in SUBSET Req
      BY ReaderHas DEF Form
    <3>3. [f EXCEPT !.token = t, !.told = TRUE, !.shown = @ \cup db.message]
          = [f EXCEPT !.token = t, !.told = TRUE, !.shown = f.shown \cup db.message]
      BY DEF Form
    <3> QED
      BY <3>1, <3>2, <3>3 DEF Form
  <2> QED
    BY <2>1, ReaderHas DEF Warn
<1>2. pc' = [pc EXCEPT ![r] = "form"]
  BY DEF Warn, TopicInv, Typed, LocalsTyped
<1>3. Reads(r, "form")
  BY <1>1, <1>2, ReaderHas DEF Warn, Reading, Before, Reads
<1> QED BY <1>3, ReadsInv

LEMMA SubmitInv ==
    ASSUME TopicInv, NEW r \in Req, NEW added \in SUBSET {"message", "title"},
           NEW commit \in BOOLEAN, NEW publish \in BOOLEAN, NEW g \in Group,
           Submit(r, added, commit, publish, g)
    PROVE  TopicInv'
<1>1. form' \in [Req -> Form]
  BY ReaderHas DEF Submit, Form, NoForm
<1>2. cmd' \in [Req -> Command]
  BY ReaderHas DEF Submit, Form, Command
<1>3. \A q \in Req \ {r} : cmd'[q] = cmd[q]
  BY ReaderHas DEF Submit
<1>4. Reads(r, "read")
  BY <1>1, <1>2, <1>3, ReaderHas DEF Submit, Go, Reading, Before, Reads
<1> QED BY <1>4, ReadsInv

LEMMA ReadCurrentInv ==
    ASSUME TopicInv, NEW r \in Req, ReadCurrent(r)
    PROVE  TopicInv'
<1> DEFINE s == IF cmd[r].message # db.message THEN "message" ELSE "topic"
<1>1. cur' \in [Req -> Current] /\ \A q \in Req \ {r} : cur'[q] = cur[q]
  BY ReaderHas DEF ReadCurrent, Current
<1>2. s = "message" => NewMessage(r)'
  BY ReaderHas DEF ReadCurrent, NewMessage
<1>3. s \in {"message", "topic"}
  OBVIOUS
<1>4. pc' = [pc EXCEPT ![r] = s]
  BY DEF ReadCurrent, Go
<1> HIDE DEF s
<1>5. Reads(r, s)
  BY <1>1, <1>2, <1>3, <1>4, ReaderHas DEF ReadCurrent, Reading, Before, Reads
<1> QED BY <1>5, ReadsInv

LEMMA StartDeleteInv ==
    ASSUME TopicInv, NEW r \in Req, NEW u \in User, NEW p \in Penalty \cup {0},
           StartDelete(r, u, p)
    PROVE  TopicInv'
<1>1. /\ bonus' \in [Req -> Int] /\ bonus'[r] <= 0
      /\ \A q \in Req \ {r} : bonus'[q] = bonus[q]
  <2>1. PICK n : n = -p
    OBVIOUS
  <2>2. n \in Int /\ n <= 0
    BY <2>1, ConstantAssumption
  <2>3. bonus \in [Req -> Int] /\ bonus' = [bonus EXCEPT ![r] = n]
    BY <2>1, ReaderHas DEF StartDelete
  <2> QED
    BY <2>2, <2>3
<1>2. Reads(r, "delete")
  BY <1>1, ReaderHas DEF StartDelete, Go, Reading, Before, Reads
<1> QED BY <1>2, ReadsInv

LEMMA StartUndeleteInv ==
    ASSUME TopicInv, NEW r \in Req, NEW u \in User, StartUndelete(r, u)
    PROVE  TopicInv'
<1>1. Reads(r, "undelete")
  BY ReaderHas DEF StartUndelete, Go, Reading, Before, Reads, local
<1> QED BY <1>1, ReadsInv

LEMMA StartMoveInv ==
    ASSUME TopicInv, NEW r \in Req, NEW g \in Group, StartMove(r, g)
    PROVE  TopicInv'
<1>1. target' \in [Req -> Group]
  BY ReaderHas DEF StartMove
<1>2. Reads(r, "move")
  BY <1>1, ReaderHas DEF StartMove, Go, Reading, Before, Reads
<1> QED BY <1>2, ReadsInv

LEMMA StartUncommitInv ==
    ASSUME TopicInv, NEW r \in Req, StartUncommit(r)
    PROVE  TopicInv'
<1>1. Reads(r, "uncommit")
  BY ReaderHas DEF StartUncommit, Go, Reading, Before, Reads, local
<1> QED BY <1>1, ReadsInv

-----------------------------------------------------------------------------
(* Steps that write one row *)

Writes(r, x, s) ==
    /\ Take(r, x) \/ (lock' = lock /\ new' = new)
    /\ db' = db /\ edits' = edits
    /\ new' \in TopicRec /\ \A f \in Fields : RowOf(f) # x => new'[f] = new[f]
    /\ s \in Statement /\ pc' = [pc EXCEPT ![r] = s]
    /\ form' = form /\ cmd' = cmd /\ cur' = cur /\ target' = target
    /\ bonus' \in [Req -> Int] /\ \A q \in Req \ {r} : bonus'[q] = bonus[q]

LEMMA WritesTyped ==
    ASSUME TopicInv, NEW r \in Req, NEW x \in Row, NEW s, Writes(r, x, s),
           row' \in [Req -> OldRow], HistoryTyped', \A q \in Req \ {r} : row'[q] = row[q]
    PROVE  /\ Typed' /\ Frame(r) /\ pc'[r] = s
           /\ Take(r, x) => lock'[x] = r /\ \A y \in Row \ {x} : lock'[y] = lock[y]
<1>1. pc \in [Req -> Place] /\ lock \in [Row -> Req \cup {Nobody}]
  BY DEF TopicInv, Typed, LocalsTyped, RowsTyped
<1>2. /\ pc'[r] = s /\ \A q \in Req \ {r} : pc'[q] = pc[q]
      /\ pc' \in [Req -> Place]
  BY <1>1 DEF Writes, Place
<1>3. LocalsTyped'
  BY <1>2 DEF LocalsTyped, TopicInv, Typed, Writes
<1>4. Take(r, x) => /\ lock'[x] = r /\ \A y \in Row \ {x} : lock'[y] = lock[y]
                    /\ lock' \in [Row -> Req \cup {Nobody}] /\ lock[x] \in {Nobody, r}
  BY <1>1 DEF Take, Free
<1>5. RowsTyped' /\ Frame(r)
  <2>1. CASE Take(r, x)
    <3>1. RowsTyped'
      BY <1>4, <2>1, RowsOfFields, NobodyIsNoRequest DEF RowsTyped, TopicInv, Typed, Writes
    <3>2. Frame(r)
      BY <1>2, <1>4, <2>1, RowsOfFields DEF Frame, Writes
    <3> QED BY <3>1, <3>2
  <2>2. CASE lock' = lock /\ new' = new
    <3>1. RowsTyped'
      BY <2>2 DEF RowsTyped, TopicInv, Typed, Writes
    <3>2. Frame(r)
      BY <1>2, <2>2 DEF Frame, Writes
    <3> QED BY <3>1, <3>2
  <2> QED BY <2>1, <2>2 DEF Writes
<1> QED BY <1>2, <1>3, <1>4, <1>5 DEF Typed, Writes

LEMMA RecordTyped ==
    ASSUME TopicInv, NEW r \in Req, Record(r), cur' = cur, cmd' = cmd, edits' = edits
    PROVE  /\ row' \in [Req -> OldRow] /\ HistoryTyped' /\ \A q \in Req \ {r} : row'[q] = row[q]
           /\ row'[r].id # 0 /\ row'[r].old = OldText(r)
<1>1. OldText(r) \subseteq Req
  BY DEF OldText, TopicInv, Typed, LocalsTyped, Current
<1> HIDE DEF OldText
<1>2. /\ row' \in [Req -> OldRow] /\ \A q \in Req \ {r} : row'[q] = row[q]
      /\ row'[r] = [id |-> nextId, old |-> OldText(r)] /\ nextId' = nextId + 1 /\ nextId \in Nat \ {0}
  BY <1>1 DEF Record, OldRow, TopicInv, Typed, LocalsTyped, HistoryTyped
<1>3. HistoryTyped'
  <2>1. \A q \in Req : row[q].id \in Nat /\ row[q].id < nextId
    BY DEF TopicInv, Typed, LocalsTyped, HistoryTyped, OldRow
  <2>2. \A q \in Req : row'[q].id < nextId' /\ (row'[q].id = 0 => row'[q] = NoRow)
    BY <1>2, <2>1 DEF TopicInv, Typed, HistoryTyped
  <2>3. \A e \in edits : e.id \in 1 .. (nextId' - 1)
    BY <1>2 DEF TopicInv, Typed, HistoryTyped
  <2> QED BY <1>2, <2>2, <2>3 DEF HistoryTyped, TopicInv, Typed
<1> QED BY <1>2, <1>3

LEMMA NoRecordTyped ==
    ASSUME TopicInv, NEW r \in Req, row' = row, nextId' = nextId, edits' = edits
    PROVE  row' \in [Req -> OldRow] /\ HistoryTyped' /\ \A q \in Req \ {r} : row'[q] = row[q]
  BY DEF TopicInv, Typed, LocalsTyped, HistoryTyped

LEMMA ResultIs ==
    ASSUME NEW r \in Req
    PROVE  /\ db \in TopicRec =>
                /\ Result(r).deleted = IF lock["topics"] = r THEN new.deleted ELSE db.deleted
                /\ Result(r).info = IF lock["del_info"] = r THEN new.info ELSE db.info
                /\ Result(r).score = IF lock["author"] = r THEN new.score ELSE db.score
                /\ Result(r).awarded = IF lock["author"] = r THEN new.awarded ELSE db.awarded
           /\ db' \in TopicRec =>
                /\ Result(r)'.deleted = IF lock'["topics"] = r THEN new'.deleted ELSE db'.deleted
                /\ Result(r)'.info = IF lock'["del_info"] = r THEN new'.info ELSE db'.info
                /\ Result(r)'.score = IF lock'["author"] = r THEN new'.score ELSE db'.score
                /\ Result(r)'.awarded = IF lock'["author"] = r THEN new'.awarded ELSE db'.awarded
<1>1. CASE db \in TopicRec
  BY <1>1, RecHasFields, RowsOfFields DEF Result, Mine, Fields
<1>2. CASE db' \in TopicRec
  BY <1>2, RecHasFields, RowsOfFields DEF Result, Mine, Fields
<1> QED BY <1>1, <1>2

\* A row that nobody else holds is as committed, or as the holder left it.
LEMMA FreeRows ==
    ASSUME TopicInv, NEW r \in Req
    PROVE  /\ lock["topics"] = Nobody => /\ new.deleted = db.deleted /\ new.group = db.group
                                         /\ new.draft = db.draft
           /\ lock["del_info"] = Nobody => new.info = db.info
           /\ lock["author"] = Nobody => new.score = db.score /\ new.awarded = db.awarded
           /\ lock["msgbase"] = Nobody => new.message = db.message
  BY RowsOfFields DEF TopicInv, Typed, RowsTyped, Fields

LEMMA RecordsHave ==
    ASSUME TopicInv
    PROVE  /\ db \in TopicRec /\ new \in TopicRec
           /\ db.deleted \in BOOLEAN /\ new.deleted \in BOOLEAN
           /\ db.info \in Int \cup {NoInfo} /\ new.info \in Int \cup {NoInfo}
           /\ db.score \in Int /\ new.score \in Int /\ db.awarded \in Int /\ new.awarded \in Int
           /\ new.published \in Nat /\ new.message \subseteq Req
           /\ new.group \in Group /\ db.group \in Group
           /\ Sound(db) /\ Fresh(db) /\ Fresh(new)
  BY DEF TopicInv, Typed, RowsTyped, TopicRec

\* The fields of a row that is written, one by one.
Only(F) == \A f \in Fields \ F : new'[f] = new[f]

LEMMA UnchangedFields ==
    ASSUME NEW F, Only(F)
    PROVE  /\ "deleted" \notin F => new'.deleted = new.deleted
           /\ "draft" \notin F => new'.draft = new.draft
           /\ "published" \notin F => new'.published = new.published
           /\ "group" \notin F => new'.group = new.group
           /\ "message" \notin F => new'.message = new.message
           /\ "info" \notin F => new'.info = new.info
           /\ "score" \notin F => new'.score = new.score
           /\ "awarded" \notin F => new'.awarded = new.awarded
  BY DEF Only, Fields

LEMMA DeleteTopicInv ==
    ASSUME TopicInv, NEW r \in Req, DeleteTopic(r), ~new.deleted
    PROVE  TopicInv'
<1> DEFINE s == IF bonus[r] = 0 THEN "insert" ELSE "penalize"
<1>1. /\ pc[r] = "delete" /\ new' = [new EXCEPT !.deleted = TRUE] /\ pc' = [pc EXCEPT ![r] = s]
      /\ Take(r, "topics")
      /\ db' = db /\ edits' = edits /\ nextId' = nextId /\ row' = row
      /\ form' = form /\ cmd' = cmd /\ cur' = cur /\ bonus' = bonus /\ target' = target
  BY DEF DeleteTopic, Go, local
<1>2. new' \in TopicRec /\ new'.deleted = TRUE /\ Only({"deleted"})
  BY <1>1, RecordsHave DEF TopicRec, Only, Fields
<1>3. s \in {"insert", "penalize"} /\ (s = "penalize" <=> bonus[r] # 0)
  OBVIOUS
<1> HIDE DEF s
<1>4. Writes(r, "topics", s)
  BY <1>1, <1>2, <1>3, RowsOfFields, ReaderHas DEF Writes, Statement, Only
<1>5. /\ Typed' /\ Frame(r)
      /\ pc'[r] = s /\ lock'["topics"] = r /\ \A y \in Row \ {"topics"} : lock'[y] = lock[y]
  BY <1>1, <1>4, NoRecordTyped, WritesTyped DEF Row
<1>6. Fresh(new)'
  BY <1>2, UnchangedFields, RecordsHave DEF Fresh
<1>7. ReqInv(r)
  BY DEF TopicInv
<1>8. \A y \in Row : lock[y] # r /\ (lock["topics"] = Nobody)
  BY <1>1, <1>7 DEF ReqInv, Holds, Row, Take, Free
<1>9. ~db.deleted
  BY <1>8, FreeRows DEF Row
<1>10. ReqInv(r)'
  <2>1. Holds(r)'
    BY <1>3, <1>5, <1>8 DEF Holds, Row
  <2>2. Removes(r)'
    BY <1>1, <1>2, <1>3, <1>5, <1>7, <1>8, <1>9 DEF ReqInv, Removes, Row
  <2>3. Restores(r)'
    BY <1>3, <1>5 DEF Restores
  <2>4. Others(r)'
    BY <1>3, <1>5 DEF Others
  <2>5. Confirms(r)'
    BY <1>1, <1>3, <1>5, <1>7 DEF ReqInv, Confirms
  <2>6. Records(r)'
    BY <1>1, <1>3, <1>5, <1>7, <1>8 DEF ReqInv, Records, Row
  <2> QED BY <2>1, <2>2, <2>3, <2>4, <2>5, <2>6 DEF ReqInv
<1> QED BY <1>5, <1>6, <1>10, StepKeeps

LEMMA PenalizeInv ==
    ASSUME TopicInv, NEW r \in Req, Penalize(r)
    PROVE  TopicInv'
<1>1. /\ pc[r] = "penalize" /\ new' = [new EXCEPT !.score = @ + bonus[r]]
      /\ pc' = [pc EXCEPT ![r] = "insert"] /\ Take(r, "author")
      /\ db' = db /\ edits' = edits /\ nextId' = nextId /\ row' = row
      /\ form' = form /\ cmd' = cmd /\ cur' = cur /\ bonus' = bonus /\ target' = target
  BY DEF Penalize, Go, local
<1>2. new' \in TopicRec /\ new'.score = new.score + bonus[r] /\ Only({"score"})
  BY <1>1, RecordsHave, ReaderHas DEF TopicRec, Only, Fields
<1>3. Writes(r, "author", "insert")
  BY <1>1, <1>2, RowsOfFields, ReaderHas DEF Writes, Statement, Only
<1>4. /\ Typed' /\ Frame(r) /\ pc'[r] = "insert"
      /\ lock'["author"] = r /\ \A y \in Row \ {"author"} : lock'[y] = lock[y]
  BY <1>1, <1>3, NoRecordTyped, WritesTyped DEF Row
<1>5. /\ new'.deleted = new.deleted /\ new'.awarded = new.awarded
      /\ Fresh(new)'
  BY <1>2, UnchangedFields, RecordsHave DEF Fresh
<1>6. ReqInv(r)
  BY DEF TopicInv
<1>7. Owed(new)' = Owed(db)' + bonus'[r]
  <2>1. lock["author"] = Nobody
    BY <1>1, <1>6 DEF ReqInv, Holds, Take, Free
  <2>2. new.score = db.score /\ new.awarded = db.awarded
    BY <2>1, FreeRows
  <2> QED BY <1>1, <1>2, <1>5, <2>2, RecordsHave, ReaderHas DEF Owed
<1>8. ReqInv(r)'
  <2>1. Holds(r)'
    BY <1>1, <1>4, <1>6 DEF ReqInv, Holds, Row
  <2>2. Removes(r)'
    BY <1>1, <1>4, <1>5, <1>6, <1>7 DEF ReqInv, Removes
  <2>3. Restores(r)' /\ Others(r)'
    BY <1>4 DEF Restores, Others
  <2>4. Confirms(r)'
    BY <1>1, <1>4, <1>6 DEF ReqInv, Confirms
  <2>5. Records(r)'
    BY <1>1, <1>4, <1>6 DEF ReqInv, Records
  <2> QED BY <2>1, <2>2, <2>3, <2>4, <2>5 DEF ReqInv
<1> QED BY <1>4, <1>5, <1>8, StepKeeps

LEMMA InsertInfoInv ==
    ASSUME TopicInv, NEW r \in Req, InsertInfo(r), new.info = NoInfo
    PROVE  TopicInv'
<1>1. /\ pc[r] = "insert" /\ new' = [new EXCEPT !.info = bonus[r]]
      /\ pc' = [pc EXCEPT ![r] = "commit"] /\ Take(r, "del_info")
      /\ db' = db /\ edits' = edits /\ nextId' = nextId /\ row' = row
      /\ form' = form /\ cmd' = cmd /\ cur' = cur /\ bonus' = bonus /\ target' = target
  BY DEF InsertInfo, Go, local
<1>2. new' \in TopicRec /\ new'.info = bonus[r] /\ Only({"info"})
  BY <1>1, RecordsHave, ReaderHas DEF TopicRec, Only, Fields
<1>3. Writes(r, "del_info", "commit")
  BY <1>1, <1>2, RowsOfFields, ReaderHas DEF Writes, Statement, Only
<1>4. /\ Typed' /\ Frame(r) /\ pc'[r] = "commit"
      /\ lock'["del_info"] = r /\ \A y \in Row \ {"del_info"} : lock'[y] = lock[y]
  BY <1>1, <1>3, NoRecordTyped, WritesTyped DEF Row
<1>5. /\ new'.deleted = new.deleted /\ new'.awarded = new.awarded /\ new'.score = new.score
      /\ new'.group = new.group
      /\ Fresh(new)'
  BY <1>2, UnchangedFields, RecordsHave DEF Fresh
<1>6. ReqInv(r)
  BY DEF TopicInv
<1>7. Sound(Result(r))'
  <2>1. /\ lock'["topics"] = r /\ lock'["author"] = lock["author"]
        /\ ~db.deleted /\ new.deleted /\ bonus[r] <= 0
        /\ lock["author"] = r <=> bonus[r] # 0
        /\ lock["author"] = r => Owed(new) = Owed(db) + bonus[r]
    BY <1>1, <1>4, <1>6 DEF ReqInv, Holds, Removes, Row
  <2>2. Owed(db) <= 0
    BY <2>1, RecordsHave DEF Sound
  <2>3. /\ Result(r)'.deleted = new'.deleted /\ Result(r)'.info = new'.info
        /\ Result(r)'.score = IF lock["author"] = r THEN new'.score ELSE db.score
        /\ Result(r)'.awarded = IF lock["author"] = r THEN new'.awarded ELSE db.awarded
    <3>1. db' \in TopicRec /\ lock'["author"] = lock["author"] /\ db' = db
      BY <1>1, <2>1, RecordsHave
    <3>2. /\ Result(r)'.deleted = IF lock'["topics"] = r THEN new'.deleted ELSE db'.deleted
          /\ Result(r)'.info = IF lock'["del_info"] = r THEN new'.info ELSE db'.info
          /\ Result(r)'.score = IF lock'["author"] = r THEN new'.score ELSE db'.score
          /\ Result(r)'.awarded = IF lock'["author"] = r THEN new'.awarded ELSE db'.awarded
      BY <3>1, ResultIs
    <3>3. lock'["topics"] = r /\ lock'["del_info"] = r
      BY <1>4, <2>1
    <3> QED BY <3>1, <3>2, <3>3
  <2> QED BY <1>2, <1>5, <2>1, <2>2, <2>3, RecordsHave, ReaderHas, NobodyIsNoRequest DEF Sound, Owed
<1>8. ReqInv(r)'
  <2>1. Holds(r)'
    BY <1>1, <1>4, <1>6 DEF ReqInv, Holds, Row
  <2>2. Removes(r)' /\ Restores(r)'
    BY <1>1, <1>4, <1>6 DEF ReqInv, Removes, Restores
  <2>3. Others(r)'
    BY <1>4, <1>7 DEF Others
  <2>4. Confirms(r)'
    BY <1>1, <1>4, <1>6 DEF ReqInv, Confirms
  <2>5. Records(r)'
    BY <1>1, <1>4, <1>6 DEF ReqInv, Records, Holds, Row
  <2> QED BY <2>1, <2>2, <2>3, <2>4, <2>5 DEF ReqInv
<1> QED BY <1>4, <1>5, <1>8, StepKeeps

LEMMA ReadBonusInv ==
    ASSUME TopicInv, NEW r \in Req, ReadBonus(r)
    PROVE  TopicInv'
<1> DEFINE b == IF db.info = NoInfo THEN 0 ELSE db.info
           s == IF b = 0 THEN "restore" ELSE "refund"
<1>1. b \in Int /\ b <= 0
  BY RecordsHave DEF Sound
<1> HIDE DEF b
<1>2. /\ pc[r] = "undelete" /\ LockInfo(r) /\ bonus' = [bonus EXCEPT ![r] = b]
      /\ bonus'[r] = b /\ bonus' \in [Req -> Int] /\ \A q \in Req \ {r} : bonus'[q] = bonus[q]
      /\ pc' = [pc EXCEPT ![r] = s]
      /\ new' = new /\ db' = db /\ edits' = edits /\ nextId' = nextId /\ row' = row
      /\ form' = form /\ cmd' = cmd /\ cur' = cur /\ target' = target
  BY <1>1, ReaderHas DEF ReadBonus, Go, b
<1>3. s \in {"restore", "refund"} /\ (s = "restore" <=> b = 0)
  OBVIOUS
<1> HIDE DEF s
<1>4. Writes(r, "del_info", s)
  BY <1>2, <1>3, RecordsHave DEF Writes, Statement, LockInfo
<1>5. /\ Typed' /\ Frame(r) /\ pc'[r] = s
      /\ db.info # NoInfo =>
            lock'["del_info"] = r /\ \A y \in Row \ {"del_info"} : lock'[y] = lock[y]
      /\ db.info = NoInfo => lock' = lock
  BY <1>2, <1>4, NoRecordTyped, WritesTyped DEF Row, LockInfo
<1>6. ReqInv(r)
  BY DEF TopicInv
<1>7. \A y \in Row : lock[y] # r
  BY <1>2, <1>6 DEF ReqInv, Holds, Row
<1>8. Restores(r)'
  <2>1. b # 0 => lock'["del_info"] = r
    BY <1>5 DEF b
  <2>2. lock'["author"] # r
    BY <1>5, <1>7 DEF Row
  <2>3. lock'["del_info"] = r => new.info = db.info /\ db.info = b
    <3> SUFFICES ASSUME lock'["del_info"] = r PROVE new.info = db.info /\ db.info = b
      OBVIOUS
    <3>1. db.info # NoInfo
      BY <1>5, <1>7 DEF Row
    <3>2. lock["del_info"] = Nobody
      BY <1>2, <1>7, <3>1 DEF LockInfo, Take, Free, Row
    <3> QED BY <3>1, <3>2, FreeRows DEF b
  <2> QED BY <1>2, <1>3, <1>5, <2>1, <2>2, <2>3 DEF Restores
<1>9. ReqInv(r)'
  <2>1. Holds(r)'
    BY <1>3, <1>5, <1>7 DEF Holds, Row
  <2>2. Removes(r)' /\ Others(r)'
    BY <1>1, <1>2, <1>3, <1>5 DEF Removes, Others
  <2>3. Confirms(r)'
    BY <1>2, <1>3, <1>5, <1>6 DEF ReqInv, Confirms
  <2>4. Records(r)'
    BY <1>2, <1>3, <1>5, <1>6 DEF ReqInv, Records
  <2> QED BY <1>8, <2>1, <2>2, <2>3, <2>4 DEF ReqInv
<1>10. Fresh(new)'
  BY <1>2, RecordsHave DEF Fresh
<1> QED BY <1>5, <1>9, <1>10, StepKeeps

\* The result of a request that has the topic's row and neither del_info's nor
\* the author's.
LEMMA PlainResult ==
    ASSUME TopicInv, NEW r \in Req, db' = db, new'.deleted = db.deleted,
           lock'["topics"] = r, lock'["del_info"] # r, lock'["author"] # r
    PROVE  Sound(Result(r))'
<1>1. /\ Result(r)'.deleted = db.deleted /\ Result(r)'.info = db.info
      /\ Result(r)'.score = db.score /\ Result(r)'.awarded = db.awarded
  BY ResultIs, RecordsHave
<1> QED BY <1>1, RecordsHave DEF Sound, Owed

LEMMA RefundInv ==
    ASSUME TopicInv, NEW r \in Req, Refund(r)
    PROVE  TopicInv'
<1>1. /\ pc[r] = "refund" /\ new' = [new EXCEPT !.score = @ - bonus[r]]
      /\ pc' = [pc EXCEPT ![r] = "restore"] /\ Take(r, "author")
      /\ db' = db /\ edits' = edits /\ nextId' = nextId /\ row' = row
      /\ form' = form /\ cmd' = cmd /\ cur' = cur /\ bonus' = bonus /\ target' = target
  BY DEF Refund, Go, local
<1>2. new' \in TopicRec /\ new'.score = new.score - bonus[r] /\ Only({"score"})
  BY <1>1, RecordsHave, ReaderHas DEF TopicRec, Only, Fields
<1>3. Writes(r, "author", "restore")
  BY <1>1, <1>2, RowsOfFields, ReaderHas DEF Writes, Statement, Only
<1>4. /\ Typed' /\ Frame(r) /\ pc'[r] = "restore"
      /\ lock'["author"] = r /\ \A y \in Row \ {"author"} : lock'[y] = lock[y]
  BY <1>1, <1>3, NoRecordTyped, WritesTyped DEF Row
<1>5. /\ new'.deleted = new.deleted /\ new'.awarded = new.awarded /\ new'.info = new.info
      /\ Fresh(new)'
  BY <1>2, UnchangedFields, RecordsHave DEF Fresh
<1>6. ReqInv(r)
  BY DEF TopicInv
<1>7. Owed(new)' = Owed(db)' - bonus'[r]
  <2>1. lock["author"] = Nobody
    BY <1>1, <1>6 DEF ReqInv, Holds, Take, Free
  <2>2. new.score = db.score /\ new.awarded = db.awarded
    BY <2>1, FreeRows
  <2> QED BY <1>1, <1>2, <1>5, <2>2, RecordsHave, ReaderHas DEF Owed
<1>8. ReqInv(r)'
  <2>1. Holds(r)'
    BY <1>1, <1>4, <1>6 DEF ReqInv, Holds, Row
  <2>2. Removes(r)' /\ Others(r)'
    BY <1>1, <1>4, <1>6 DEF ReqInv, Removes, Others
  <2>3. Restores(r)'
    BY <1>1, <1>4, <1>5, <1>6, <1>7 DEF ReqInv, Restores, Row
  <2>4. Confirms(r)'
    BY <1>1, <1>4, <1>6 DEF ReqInv, Confirms
  <2>5. Records(r)'
    BY <1>1, <1>4, <1>6 DEF ReqInv, Records
  <2> QED BY <2>1, <2>2, <2>3, <2>4, <2>5 DEF ReqInv
<1> QED BY <1>4, <1>5, <1>8, StepKeeps

LEMMA RestoreInv ==
    ASSUME TopicInv, NEW r \in Req, Restore(r)
    PROVE  TopicInv'
<1>1. /\ pc[r] = "restore" /\ new' = [new EXCEPT !.deleted = FALSE]
      /\ pc' = [pc EXCEPT ![r] = "remove"] /\ Take(r, "topics")
      /\ db' = db /\ edits' = edits /\ nextId' = nextId /\ row' = row
      /\ form' = form /\ cmd' = cmd /\ cur' = cur /\ bonus' = bonus /\ target' = target
  BY DEF Restore, Go, local
<1>2. new' \in TopicRec /\ new'.deleted = FALSE /\ Only({"deleted"})
  BY <1>1, RecordsHave, ReaderHas DEF TopicRec, Only, Fields
<1>3. Writes(r, "topics", "remove")
  BY <1>1, <1>2, RowsOfFields, ReaderHas DEF Writes, Statement, Only
<1>4. /\ Typed' /\ Frame(r) /\ pc'[r] = "remove"
      /\ lock'["topics"] = r /\ \A y \in Row \ {"topics"} : lock'[y] = lock[y]
  BY <1>1, <1>3, NoRecordTyped, WritesTyped DEF Row
<1>5. /\ new'.score = new.score /\ new'.awarded = new.awarded /\ new'.info = new.info
      /\ Fresh(new)'
  BY <1>2, UnchangedFields, RecordsHave DEF Fresh
<1>6. ReqInv(r)
  BY DEF TopicInv
<1>7. ReqInv(r)'
  <2>1. Holds(r)'
    BY <1>1, <1>4, <1>6 DEF ReqInv, Holds, Row
  <2>2. Removes(r)' /\ Others(r)'
    BY <1>1, <1>4, <1>6 DEF ReqInv, Removes, Others
  <2>3. Restores(r)'
    BY <1>1, <1>2, <1>4, <1>5, <1>6 DEF ReqInv, Restores, Row, Owed
  <2>4. Confirms(r)'
    BY <1>1, <1>4, <1>6 DEF ReqInv, Confirms
  <2>5. Records(r)'
    BY <1>1, <1>4, <1>6 DEF ReqInv, Records
  <2> QED BY <2>1, <2>2, <2>3, <2>4, <2>5 DEF ReqInv
<1> QED BY <1>4, <1>5, <1>7, StepKeeps

\* A restoration that finds no row has nothing to delete; the one that has
\* committed meanwhile left the topic as this one does.
LEMMA RemoveInfoInv ==
    ASSUME TopicInv, NEW r \in Req, RemoveInfo(r)
    PROVE  TopicInv'
<1>1. /\ pc[r] = "remove" /\ pc' = [pc EXCEPT ![r] = "commit"]
      /\ IF db.info = NoInfo THEN lock' = lock /\ new' = new
         ELSE Take(r, "del_info") /\ new' = [new EXCEPT !.info = NoInfo]
      /\ db' = db /\ edits' = edits /\ nextId' = nextId /\ row' = row
      /\ form' = form /\ cmd' = cmd /\ cur' = cur /\ bonus' = bonus /\ target' = target
  BY DEF RemoveInfo, NoRowLeft, Go, local
<1>2. new' \in TopicRec /\ Only({"info"}) /\ (db.info # NoInfo => new'.info = NoInfo)
  BY <1>1, RecordsHave DEF TopicRec, Only, Fields
<1>3. Writes(r, "del_info", "commit")
  BY <1>1, <1>2, RowsOfFields, ReaderHas DEF Writes, Statement, Only
<1>4. /\ Typed' /\ Frame(r) /\ pc'[r] = "commit"
      /\ \A y \in Row \ {"del_info"} : lock'[y] = lock[y]
      /\ IF db.info = NoInfo THEN lock' = lock ELSE lock'["del_info"] = r
  BY <1>1, <1>3, NoRecordTyped, WritesTyped DEF Row
<1>5. /\ new'.deleted = new.deleted /\ new'.awarded = new.awarded /\ new'.score = new.score
      /\ new'.group = new.group
      /\ Fresh(new)'
  BY <1>2, UnchangedFields, RecordsHave DEF Fresh
<1>6. ReqInv(r)
  BY DEF TopicInv
<1>7. Sound(Result(r))'
  <2>1. /\ lock'["topics"] = r /\ lock'["author"] = lock["author"] /\ ~new.deleted
        /\ bonus[r] # 0 => lock["del_info"] = r
        /\ lock["del_info"] = r => db.info = bonus[r] /\ db.info # NoInfo
        /\ lock["author"] = r <=> bonus[r] # 0
        /\ lock["author"] = r => Owed(new) = Owed(db) - bonus[r]
    BY <1>1, <1>4, <1>6, ReaderHas, NobodyIsNoRequest DEF ReqInv, Holds, Restores, Row
  <2>2. /\ Result(r)'.deleted = new'.deleted
        /\ Result(r)'.info = IF lock'["del_info"] = r THEN new'.info ELSE db.info
        /\ Result(r)'.score = IF lock["author"] = r THEN new'.score ELSE db.score
        /\ Result(r)'.awarded = IF lock["author"] = r THEN new'.awarded ELSE db.awarded
    <3>1. db' \in TopicRec /\ lock'["author"] = lock["author"] /\ db' = db
      BY <1>1, <2>1, RecordsHave
    <3>2. /\ Result(r)'.deleted = IF lock'["topics"] = r THEN new'.deleted ELSE db'.deleted
          /\ Result(r)'.info = IF lock'["del_info"] = r THEN new'.info ELSE db'.info
          /\ Result(r)'.score = IF lock'["author"] = r THEN new'.score ELSE db'.score
          /\ Result(r)'.awarded = IF lock'["author"] = r THEN new'.awarded ELSE db'.awarded
      BY <3>1, ResultIs
    <3>3. lock'["topics"] = r
      BY <2>1
    <3> QED BY <3>1, <3>2, <3>3
  <2>3. Result(r)'.info = NoInfo
    BY <1>2, <1>4, <2>1, <2>2
  <2>4. Owed(db) <= IF lock["author"] = r THEN bonus[r] ELSE 0
    <3>1. Owed(db) \in Int /\ (db.info # NoInfo => db.info \in Int /\ db.info <= 0)
      BY RecordsHave DEF Sound, Owed
    <3>2. CASE lock["author"] = r
      BY <2>1, <3>2, RecordsHave DEF Sound
    <3>3. CASE lock["author"] # r
      BY <3>1, <3>3, RecordsHave DEF Sound
    <3> QED BY <3>2, <3>3
  <2> QED BY <1>5, <2>1, <2>2, <2>3, <2>4, RecordsHave, ReaderHas DEF Sound, Owed
<1>8. ReqInv(r)'
  <2>1. Holds(r)'
    BY <1>1, <1>4, <1>6 DEF ReqInv, Holds, Row
  <2>2. Removes(r)' /\ Restores(r)'
    BY <1>1, <1>4, <1>6 DEF ReqInv, Removes, Restores
  <2>3. Others(r)'
    BY <1>4, <1>7 DEF Others
  <2>4. Confirms(r)'
    BY <1>1, <1>4, <1>6 DEF ReqInv, Confirms
  <2>5. Records(r)'
    BY <1>1, <1>4, <1>6 DEF ReqInv, Records, Holds, Row
  <2> QED BY <2>1, <2>2, <2>3, <2>4, <2>5 DEF ReqInv
<1> QED BY <1>4, <1>5, <1>8, StepKeeps

LEMMA UncommitInv ==
    ASSUME TopicInv, NEW r \in Req, Uncommit(r)
    PROVE  TopicInv'
<1>1. /\ pc[r] = "uncommit" /\ new' = [new EXCEPT !.moderate = FALSE]
      /\ pc' = [pc EXCEPT ![r] = "commit"] /\ Take(r, "topics")
      /\ db' = db /\ edits' = edits /\ nextId' = nextId /\ row' = row
      /\ form' = form /\ cmd' = cmd /\ cur' = cur /\ bonus' = bonus /\ target' = target
  BY DEF Uncommit, Go, local
<1>2. new' \in TopicRec /\ new'.moderate = FALSE /\ Only({"moderate"})
  BY <1>1, RecordsHave, ReaderHas DEF TopicRec, Only, Fields
<1>3. Writes(r, "topics", "commit")
  BY <1>1, <1>2, RowsOfFields, ReaderHas DEF Writes, Statement, Only
<1>4. /\ Typed' /\ Frame(r) /\ pc'[r] = "commit"
      /\ lock'["topics"] = r /\ \A y \in Row \ {"topics"} : lock'[y] = lock[y]
  BY <1>1, <1>3, NoRecordTyped, WritesTyped DEF Row
<1>5. new'.deleted = new.deleted /\ Fresh(new)'
  BY <1>2, UnchangedFields, RecordsHave DEF Fresh
<1>6. ReqInv(r)
  BY DEF TopicInv
<1>7. \A y \in Row : lock[y] # r
  BY <1>1, <1>6 DEF ReqInv, Holds, Row
<1>8. Sound(Result(r))'
  <2>1. lock["topics"] = Nobody
    BY <1>1, <1>7 DEF Take, Free, Row
  <2>2. new'.deleted = db.deleted
    BY <1>5, <2>1, FreeRows
  <2> QED BY <1>1, <1>4, <1>7, <2>2, PlainResult DEF Row
<1>9. ReqInv(r)'
  <2>1. Holds(r)'
    BY <1>4, <1>7 DEF Holds, Row
  <2>2. Removes(r)' /\ Restores(r)'
    BY <1>1, <1>4, <1>6 DEF ReqInv, Removes, Restores
  <2>3. Others(r)'
    BY <1>4, <1>8 DEF Others
  <2>4. Confirms(r)'
    BY <1>1, <1>4, <1>6 DEF ReqInv, Confirms
  <2>5. Records(r)'
    BY <1>1, <1>4, <1>6, <1>7 DEF ReqInv, Records, Row
  <2> QED BY <2>1, <2>2, <2>3, <2>4, <2>5 DEF ReqInv
<1> QED BY <1>4, <1>5, <1>9, StepKeeps

LEMMA MoveTopicInv ==
    ASSUME TopicInv, NEW r \in Req, MoveTopic(r)
    PROVE  TopicInv'
<1> DEFINE s == IF target[r] \in LinksAllowed THEN "commit" ELSE "append"
<1>1. /\ pc[r] = "move" /\ new' = [new EXCEPT !.group = target[r]]
      /\ pc' = [pc EXCEPT ![r] = s] /\ Take(r, "topics")
      /\ db' = db /\ edits' = edits /\ nextId' = nextId /\ row' = row
      /\ form' = form /\ cmd' = cmd /\ cur' = cur /\ bonus' = bonus /\ target' = target
  BY DEF MoveTopic, Go, local
<1>0. s \in {"commit", "append"}
  OBVIOUS
<1> HIDE DEF s
<1>2. new' \in TopicRec /\ new'.group = target[r] /\ Only({"group"})
  BY <1>1, RecordsHave, ReaderHas DEF TopicRec, Only, Fields
<1>3. Writes(r, "topics", s)
  BY <1>0, <1>1, <1>2, RowsOfFields, ReaderHas DEF Writes, Statement, Only
<1>4. /\ Typed' /\ Frame(r) /\ pc'[r] = s
      /\ lock'["topics"] = r /\ \A y \in Row \ {"topics"} : lock'[y] = lock[y]
  BY <1>1, <1>3, NoRecordTyped, WritesTyped DEF Row
<1>5. new'.deleted = new.deleted /\ Fresh(new)'
  BY <1>2, UnchangedFields, RecordsHave DEF Fresh
<1>6. ReqInv(r)
  BY DEF TopicInv
<1>7. \A y \in Row : lock[y] # r
  BY <1>1, <1>6 DEF ReqInv, Holds, Row
<1>8. new'.deleted = db.deleted
  <2>1. lock["topics"] = Nobody
    BY <1>1, <1>7 DEF Take, Free, Row
  <2> QED BY <1>5, <2>1, FreeRows
<1>9. Sound(Result(r))'
  BY <1>1, <1>4, <1>7, <1>8, PlainResult DEF Row
<1>10. ReqInv(r)'
  <2>1. Holds(r)'
    BY <1>0, <1>4, <1>7 DEF Holds, Row
  <2>2. Removes(r)' /\ Restores(r)'
    BY <1>0, <1>1, <1>4, <1>6 DEF ReqInv, Removes, Restores
  <2>3. Others(r)'
    BY <1>0, <1>1, <1>4, <1>8, <1>9 DEF Others
  <2>4. Confirms(r)'
    BY <1>0, <1>1, <1>4, <1>6 DEF ReqInv, Confirms
  <2>5. Records(r)'
    BY <1>0, <1>1, <1>4, <1>6, <1>7 DEF ReqInv, Records, Row
  <2> QED BY <2>1, <2>2, <2>3, <2>4, <2>5 DEF ReqInv
<1> QED BY <1>4, <1>5, <1>10, StepKeeps

LEMMA AppendInfoInv ==
    ASSUME TopicInv, NEW r \in Req, AppendInfo(r)
    PROVE  TopicInv'
<1>1. /\ pc[r] = "append" /\ new' = [new EXCEPT !.message = @ \cup {r}]
      /\ pc' = [pc EXCEPT ![r] = "commit"] /\ Take(r, "msgbase")
      /\ db' = db /\ edits' = edits /\ nextId' = nextId /\ row' = row
      /\ form' = form /\ cmd' = cmd /\ cur' = cur /\ bonus' = bonus /\ target' = target
  BY DEF AppendInfo, Go, local
<1>2. new' \in TopicRec /\ new'.message = new.message \cup {r} /\ Only({"message"})
  BY <1>1, RecordsHave, ReaderHas DEF TopicRec, Only, Fields
<1>3. Writes(r, "msgbase", "commit")
  BY <1>1, <1>2, RowsOfFields, ReaderHas DEF Writes, Statement, Only
<1>4. /\ Typed' /\ Frame(r) /\ pc'[r] = "commit"
      /\ lock'["msgbase"] = r /\ \A y \in Row \ {"msgbase"} : lock'[y] = lock[y]
  BY <1>1, <1>3, NoRecordTyped, WritesTyped DEF Row
<1>5. new'.deleted = new.deleted /\ new'.group = new.group /\ Fresh(new)'
  BY <1>2, UnchangedFields, RecordsHave DEF Fresh
<1>6. ReqInv(r)
  BY DEF TopicInv
<1>7. Sound(Result(r))'
  BY <1>1, <1>4, <1>5, <1>6, PlainResult DEF ReqInv, Holds, Others, Row
<1>8. ReqInv(r)'
  <2>1. Holds(r)'
    BY <1>1, <1>4, <1>6 DEF ReqInv, Holds, Row
  <2>2. Removes(r)' /\ Restores(r)'
    BY <1>1, <1>4, <1>6 DEF ReqInv, Removes, Restores
  <2>3. Others(r)'
    BY <1>4, <1>7 DEF Others
  <2>4. Confirms(r)'
    BY <1>1, <1>4, <1>6 DEF ReqInv, Confirms
  <2>5. Records(r)'
    BY <1>1, <1>4, <1>6 DEF ReqInv, Records, NoCur
  <2> QED BY <2>1, <2>2, <2>3, <2>4, <2>5 DEF ReqInv
<1> QED BY <1>4, <1>5, <1>8, StepKeeps

LEMMA RewardInv ==
    ASSUME TopicInv, NEW r \in Req, Reward(r)
    PROVE  TopicInv'
<1>1. /\ pc[r] = "reward" /\ new' = [new EXCEPT !.score = @ + Award, !.awarded = @ + Award]
      /\ pc' = [pc EXCEPT ![r] = "commit"] /\ Take(r, "author")
      /\ db' = db /\ edits' = edits /\ nextId' = nextId /\ row' = row
      /\ form' = form /\ cmd' = cmd /\ cur' = cur /\ bonus' = bonus /\ target' = target
  BY DEF Reward, Go, local
<1>2. new' \in TopicRec /\ new'.score = new.score + Award
      /\ new'.awarded = new.awarded + Award /\ Only({"score", "awarded"})
  <2>1. DOMAIN new = Fields
    BY RecordsHave, RecHasFields
  <2>2. /\ new'.score = new.score + Award /\ new'.awarded = new.awarded + Award
        /\ Only({"score", "awarded"})
    BY <1>1, <2>1 DEF Only, Fields
  <2>3. new.score + Award \in Int /\ new.awarded + Award \in Int
    BY RecordsHave, ConstantAssumption
  <2>4. new' \in TopicRec
    BY <1>1, <2>3, RecordsHave DEF TopicRec
  <2> QED BY <2>2, <2>4
<1>3. Writes(r, "author", "commit")
  BY <1>1, <1>2, RowsOfFields, ReaderHas DEF Writes, Statement, Only
<1>4. /\ Typed' /\ Frame(r) /\ pc'[r] = "commit"
      /\ lock'["author"] = r /\ \A y \in Row \ {"author"} : lock'[y] = lock[y]
  BY <1>1, <1>3, NoRecordTyped, WritesTyped DEF Row
<1>5. /\ new'.deleted = new.deleted /\ new'.group = new.group
      /\ Fresh(new)'
  BY <1>2, UnchangedFields, RecordsHave DEF Fresh
<1>6. ReqInv(r)
  BY DEF TopicInv
<1>7. Sound(Result(r))'
  <2>1. lock'["topics"] = r /\ lock'["del_info"] # r /\ new.deleted = db.deleted
    BY <1>1, <1>4, <1>6 DEF ReqInv, Holds, Others, Row
  <2>2. lock["author"] = Nobody
    BY <1>1, <1>6 DEF ReqInv, Holds, Take, Free
  <2>3. new.score = db.score /\ new.awarded = db.awarded
    BY <2>2, FreeRows
  <2>4. /\ Result(r)'.deleted = db.deleted /\ Result(r)'.info = db.info
        /\ Result(r)'.score = db.score + Award /\ Result(r)'.awarded = db.awarded + Award
    BY <1>1, <1>2, <1>4, <1>5, <2>1, <2>3, ResultIs, RecordsHave
  <2> QED BY <2>4, RecordsHave, ConstantAssumption DEF Sound, Owed
<1>8. ReqInv(r)'
  <2>1. Holds(r)'
    BY <1>1, <1>4, <1>6 DEF ReqInv, Holds, Row
  <2>2. Removes(r)' /\ Restores(r)'
    BY <1>1, <1>4, <1>6 DEF ReqInv, Removes, Restores
  <2>3. Others(r)'
    BY <1>4, <1>7 DEF Others
  <2>4. Confirms(r)'
    BY <1>1, <1>4, <1>5, <1>6 DEF ReqInv, Confirms, Row
  <2>5. Records(r)'
    BY <1>1, <1>4, <1>6 DEF ReqInv, Records, OnRecord, Row
  <2> QED BY <2>1, <2>2, <2>3, <2>4, <2>5 DEF ReqInv
<1> QED BY <1>4, <1>5, <1>8, StepKeeps

\* The steps of an edit keep what its request has of the rest.
LEMMA WriteMessageInv ==
    ASSUME TopicInv, NEW r \in Req, WriteMessage(r)
    PROVE  TopicInv'
<1>1. /\ pc[r] = "message" /\ new' = [new EXCEPT !.message = cmd[r].message]
      /\ pc' = [pc EXCEPT ![r] = "topic"] /\ Take(r, "msgbase")
      /\ db' = db /\ edits' = edits
      /\ form' = form /\ cmd' = cmd /\ cur' = cur /\ bonus' = bonus /\ target' = target
      /\ IF NewTitle(r) THEN row' = row /\ nextId' = nextId ELSE Record(r)
  BY DEF WriteMessage, Go
<1>2. new' \in TopicRec /\ Only({"message"})
  BY <1>1, RecordsHave, ReaderHas DEF TopicRec, Only, Fields, Command
<1>3. Writes(r, "msgbase", "topic")
  BY <1>1, <1>2, RowsOfFields, ReaderHas DEF Writes, Statement, Only
<1>4. /\ row' \in [Req -> OldRow] /\ HistoryTyped' /\ \A q \in Req \ {r} : row'[q] = row[q]
      /\ ~NewTitle(r) => row'[r].id # 0 /\ row'[r].old = OldText(r)
  BY <1>1, RecordTyped, NoRecordTyped
<1>5. /\ Typed' /\ Frame(r) /\ pc'[r] = "topic"
      /\ lock'["msgbase"] = r /\ \A y \in Row \ {"msgbase"} : lock'[y] = lock[y]
  BY <1>1, <1>3, <1>4, WritesTyped DEF Row
<1>6. Fresh(new)'
  BY <1>2, UnchangedFields, RecordsHave DEF Fresh
<1>7. ReqInv(r)
  BY DEF TopicInv
<1>8. Records(r)'
  <2>1. NewMessage(r) /\ NewMessage(r)' /\ (NewTitle(r)' <=> NewTitle(r))
    BY <1>1, <1>7 DEF ReqInv, Records, NewMessage, NewTitle
  <2>2. NewTitle(r) \/ OnRecord(r)'
    BY <1>1, <1>4, <2>1 DEF OnRecord, OldText
  <2> QED BY <1>5, <2>1, <2>2 DEF Records
<1>9. ReqInv(r)'
  <2>1. Holds(r)'
    BY <1>1, <1>5, <1>7 DEF ReqInv, Holds, Row
  <2>2. Removes(r)' /\ Restores(r)' /\ Others(r)'
    BY <1>1, <1>5, <1>7 DEF ReqInv, Removes, Restores, Others
  <2>3. Confirms(r)'
    BY <1>1, <1>5, <1>7 DEF ReqInv, Confirms
  <2> QED BY <1>8, <2>1, <2>2, <2>3 DEF ReqInv
<1> QED BY <1>5, <1>6, <1>9, StepKeeps

\* What WriteTopic leaves in the topic's row.
LEMMA PublishedIs ==
    ASSUME NEW t \in TopicRec, Fresh(t)
    PROVE  /\ Published(t) \in TopicRec /\ Fresh(Published(t))
           /\ \A f \in Fields \ {"draft", "published"} : Published(t)[f] = t[f]
<1>1. CASE ~t.draft
  BY <1>1 DEF Published
<1>2. CASE t.draft
  <2> DEFINE u == [t EXCEPT !.draft = FALSE]
             v == [u EXCEPT !.published = @ + 1]
  <2>1. Published(t) = v
    BY <1>2 DEF Published
  <2>2. t.published = 0
    BY <1>2 DEF Fresh
  <2>3. u \in TopicRec /\ u.draft = FALSE /\ \A f \in Fields \ {"draft"} : u[f] = t[f]
    BY DEF TopicRec, Fields
  <2>4. u.published = 0
    BY <2>2, <2>3 DEF Fields
  <2> HIDE DEF u
  <2>5. v \in TopicRec /\ v.published = 1 /\ \A f \in Fields \ {"published"} : v[f] = u[f]
    BY <2>3, <2>4 DEF TopicRec, Fields
  <2> HIDE DEF v
  <2> QED BY <2>1, <2>3, <2>5 DEF Fresh, Fields
<1> QED BY <1>1, <1>2

LEMMA ConfirmedIs ==
    ASSUME NEW r \in Req, NEW t \in TopicRec, Fresh(t), cmd[r].group \in Group
    PROVE  /\ Confirmed(r, t) \in TopicRec /\ Fresh(Confirmed(r, t))
           /\ \A f \in Fields \ {"draft", "published", "group", "moderate"} :
                Confirmed(r, t)[f] = t[f]
           /\ Confirmed(r, t).group = IF cmd[r].group # cur[r].group THEN cmd[r].group ELSE t.group
<1> DEFINE m == IF cmd[r].group # cur[r].group THEN [t EXCEPT !.group = cmd[r].group] ELSE t
           o == IF cur[r].draft THEN Published(m) ELSE m
<1>1. /\ m \in TopicRec
      /\ \A f \in Fields \ {"group"} : m[f] = t[f]
      /\ m.group = IF cmd[r].group # cur[r].group THEN cmd[r].group ELSE t.group
  BY DEF TopicRec, Fields
<1>2. Fresh(m)
  BY <1>1 DEF Fresh, Fields
<1> HIDE DEF m
<1>3. /\ o \in TopicRec /\ Fresh(o)
      /\ \A f \in Fields \ {"draft", "published"} : o[f] = m[f]
  BY <1>1, <1>2, PublishedIs
<1>4. Confirmed(r, t) = [o EXCEPT !.moderate = TRUE]
  BY DEF Confirmed, m
<1> HIDE DEF o
<1>5. /\ Confirmed(r, t) \in TopicRec
      /\ \A f \in Fields \ {"moderate"} : Confirmed(r, t)[f] = o[f]
  BY <1>3, <1>4 DEF TopicRec, Fields
<1>6. Fresh(Confirmed(r, t))
  BY <1>3, <1>5 DEF Fresh, Fields
<1> QED BY <1>1, <1>3, <1>5, <1>6 DEF Fields

Fits(r) == cmd[r].commit /\ cmd[r].group # cur[r].group => SameSection(r)

LEMMA WriteTopicInv ==
    ASSUME TopicInv, NEW r \in Req, WriteTopic(r), Fits(r)
    PROVE  TopicInv'
<1> DEFINE titled == IF NewTitle(r) THEN [new EXCEPT !.title = cmd[r].title] ELSE new
           public == IF cmd[r].publish THEN Published(titled) ELSE titled
           s == IF cmd[r].commit THEN "reward" ELSE "commit"
<1>1. /\ pc[r] = "topic"
      /\ new' = IF cmd[r].commit THEN Confirmed(r, public) ELSE public
      /\ pc' = [pc EXCEPT ![r] = s] /\ Take(r, "topics")
      /\ db' = db /\ edits' = edits
      /\ form' = form /\ cmd' = cmd /\ cur' = cur /\ bonus' = bonus /\ target' = target
      /\ IF NewTitle(r) THEN Record(r) ELSE row' = row /\ nextId' = nextId
  BY DEF WriteTopic, Go, Fits
<1>2. s \in {"reward", "commit"} /\ (s = "reward" <=> cmd[r].commit)
  BY ReaderHas DEF Command
<1>3. cmd[r].group \in Group /\ cmd[r].title \subseteq Req
  BY ReaderHas DEF Command
<1>4. titled \in TopicRec /\ Fresh(titled) /\ \A f \in Fields \ {"title"} : titled[f] = new[f]
  <2>1. titled \in TopicRec /\ \A f \in Fields \ {"title"} : titled[f] = new[f]
    BY <1>3, RecordsHave DEF TopicRec, Fields
  <2> QED BY <2>1, RecordsHave DEF Fresh, Fields
<1> HIDE DEF titled, s
<1>5. /\ public \in TopicRec /\ Fresh(public)
      /\ \A f \in Fields \ {"title", "draft", "published"} : public[f] = new[f]
  BY <1>4, PublishedIs
<1> HIDE DEF public
<1>6. /\ new' \in TopicRec /\ Fresh(new)'
      /\ Only({"title", "draft", "published", "group", "moderate"})
      /\ new'.group = IF cmd[r].commit /\ cmd[r].group # cur[r].group
                      THEN cmd[r].group ELSE new.group
  <2>1. CASE cmd[r].commit
    <3>1. new' = Confirmed(r, public)
      BY <1>1, <2>1
    <3>2. /\ new' \in TopicRec /\ Fresh(new')
          /\ \A f \in Fields \ {"draft", "published", "group", "moderate"} : new'[f] = public[f]
          /\ new'.group = IF cmd[r].group # cur[r].group THEN cmd[r].group ELSE public.group
      BY <1>3, <1>5, <3>1, ConfirmedIs
    <3> QED BY <1>5, <2>1, <3>2 DEF Only, Fields, Fresh
  <2>2. CASE ~cmd[r].commit
    BY <1>1, <1>5, <2>2 DEF Only, Fields, Fresh
  <2> QED BY <2>1, <2>2
<1>7. SectionOf[new'.group] = SectionOf[new.group] \/ ~cmd[r].commit
  BY <1>6 DEF Fits, SameSection
<1>8. Writes(r, "topics", s)
  BY <1>1, <1>2, <1>6, RowsOfFields, ReaderHas DEF Writes, Statement, Only
<1>9. /\ row' \in [Req -> OldRow] /\ HistoryTyped' /\ \A q \in Req \ {r} : row'[q] = row[q]
      /\ IF NewTitle(r) THEN row'[r].id # 0 /\ row'[r].old = OldText(r) ELSE row' = row
  BY <1>1, RecordTyped, NoRecordTyped
<1>10. /\ Typed' /\ Frame(r) /\ pc'[r] = s
       /\ lock'["topics"] = r /\ \A y \in Row \ {"topics"} : lock'[y] = lock[y]
  BY <1>1, <1>8, <1>9, WritesTyped DEF Row
<1>11. ReqInv(r)
  BY DEF TopicInv
<1>12. lock["topics"] = Nobody /\ lock["del_info"] # r /\ lock["author"] # r
  BY <1>1, <1>11 DEF ReqInv, Holds, Take, Free
<1>13. new'.deleted = db.deleted
  BY <1>6, <1>12, FreeRows, UnchangedFields
<1>14. Sound(Result(r))'
  BY <1>1, <1>10, <1>12, <1>13, PlainResult DEF Row
<1>15. Records(r)'
  <2>1. lock'["msgbase"] = r => OnRecord(r)'
    BY <1>1, <1>9, <1>10, <1>11 DEF ReqInv, Records, OnRecord, OldText, Row
  <2> QED BY <1>1, <1>2, <1>10, <2>1 DEF Records
<1>16. ReqInv(r)'
  <2>1. Holds(r)'
    BY <1>1, <1>2, <1>10, <1>11, <1>12 DEF ReqInv, Holds, Row
  <2>2. Removes(r)' /\ Restores(r)'
    BY <1>1, <1>2, <1>10, <1>11 DEF ReqInv, Removes, Restores
  <2>3. Others(r)'
    BY <1>1, <1>2, <1>10, <1>13, <1>14 DEF Others
  <2>4. Confirms(r)'
    BY <1>1, <1>2, <1>7, <1>10, <1>12, FreeRows DEF Confirms
  <2> QED BY <1>15, <2>1, <2>2, <2>3, <2>4 DEF ReqInv
<1> QED BY <1>6, <1>10, <1>16, StepKeeps

-----------------------------------------------------------------------------
(* The end of a transaction *)

LEMMA EndHas ==
    ASSUME TopicInv, NEW r \in Req, End(r)
    PROVE  /\ LocalsTyped'
           /\ pc'[r] = "done" /\ cmd'[r] = NoCmd /\ cur'[r] = NoCur /\ bonus'[r] = 0
           /\ \A q \in Req \ {r} : /\ pc'[q] = pc[q] /\ cmd'[q] = cmd[q] /\ cur'[q] = cur[q]
                                   /\ row'[q] = row[q] /\ bonus'[q] = bonus[q]
           /\ lock' \in [Row -> Req \cup {Nobody}]
           /\ \A x \in Row : lock'[x] = IF lock[x] = r THEN Nobody ELSE lock[x]
<1>1. /\ pc \in [Req -> Place] /\ form \in [Req -> Form] /\ cmd \in [Req -> Command]
      /\ cur \in [Req -> Current] /\ row \in [Req -> OldRow] /\ bonus \in [Req -> Int]
      /\ target \in [Req -> Group] /\ lock \in [Row -> Req \cup {Nobody}]
  BY DEF TopicInv, Typed, LocalsTyped, RowsTyped
<1>2. /\ NoForm \in Form /\ NoCmd \in Command /\ NoCur \in Current /\ NoRow \in OldRow
      /\ FirstGroup \in Group /\ "done" \in Place
  BY ConstantAssumption
     DEF NoForm, NoCmd, NoCur, NoRow, Form, Command, Current, OldRow, Place
<1>3. LocalsTyped'
  BY <1>1, <1>2 DEF End, Go, LocalsTyped
<1>4. /\ pc'[r] = "done" /\ cmd'[r] = NoCmd /\ cur'[r] = NoCur /\ bonus'[r] = 0
      /\ \A q \in Req \ {r} : /\ pc'[q] = pc[q] /\ cmd'[q] = cmd[q] /\ cur'[q] = cur[q]
                              /\ row'[q] = row[q] /\ bonus'[q] = bonus[q]
  BY <1>1 DEF End, Go
<1>5. /\ lock' \in [Row -> Req \cup {Nobody}]
      /\ \A x \in Row : lock'[x] = IF lock[x] = r THEN Nobody ELSE lock[x]
  BY <1>1 DEF End, Unlocked
<1> QED BY <1>3, <1>4, <1>5 DEF LocalsTyped

\* A request that is over has nothing.
LEMMA DoneHas ==
    ASSUME NEW r \in Req, pc'[r] = "done", cmd'[r] = NoCmd, cur'[r] = NoCur, bonus'[r] = 0,
           \A x \in Row : lock'[x] # r
    PROVE  ReqInv(r)'
  BY DEF ReqInv, Holds, Removes, Restores, Others, Confirms, Records, NoCmd, Row

LEMMA AbortInv ==
    ASSUME TopicInv, NEW r \in Req, Abort(r)
    PROVE  TopicInv'
<1>1. End(r) /\ db' = db /\ edits' = edits
  BY DEF Abort
<1>2. HistoryTyped'
  <2>1. row' = [row EXCEPT ![r] = NoRow] /\ nextId' = nextId /\ row \in [Req -> OldRow]
    BY <1>1 DEF End, TopicInv, Typed, LocalsTyped
  <2>2. \A q \in Req : row'[q] = row[q] \/ row'[q] = NoRow
    BY <2>1
  <2> QED BY <1>1, <2>1, <2>2 DEF HistoryTyped, TopicInv, Typed, NoRow
<1>3. \A f \in Fields : new'[f] = IF lock[RowOf(f)] = r THEN db[f] ELSE new[f]
  BY RecordsHave, RecHasFields DEF Abort, Mine
<1>4. new' \in TopicRec
  <2>1. new' = [f \in Fields |-> new'[f]]
    BY RecordsHave, RecHasFields DEF Abort
  <2> QED BY <1>3, <2>1, RecordsHave DEF TopicRec, Fields
<1>5. RowsTyped'
  BY <1>1, <1>2, <1>3, <1>4, EndHas, RowsOfFields, NobodyIsNoRequest
     DEF RowsTyped, TopicInv, Typed
<1>6. Fresh(new)'
  BY <1>3, RecordsHave, RowsOfFields DEF Fresh, Fields
<1>7. Frame(r)
  BY <1>1, <1>2, <1>3, EndHas DEF Frame
<1>8. ReqInv(r)'
  BY <1>1, <1>2, EndHas, DoneHas, NobodyIsNoRequest
<1> QED BY <1>1, <1>2, <1>5, <1>6, <1>7, <1>8, EndHas, StepKeeps DEF Typed

\* What a commit writes.
LEMMA CommitHas ==
    ASSUME TopicInv, NEW r \in Req, Commit(r)
    PROVE  /\ pc[r] = "commit" /\ End(r) /\ new' = new /\ db' = Result(r)
           /\ edits' = edits \cup ({row[r]} \ {NoRow})
           /\ \A f \in Fields : db'[f] = IF lock[RowOf(f)] = r THEN new[f] ELSE db[f]
           /\ db' \in TopicRec
<1>1. /\ pc[r] = "commit" /\ End(r) /\ new' = new /\ db' = Result(r)
      /\ edits' = edits \cup ({row[r]} \ {NoRow})
  BY DEF Commit, Result
<1>2. /\ \A f \in Fields : db'[f] = IF lock[RowOf(f)] = r THEN new[f] ELSE db[f]
      /\ db' = [f \in Fields |-> db'[f]]
  BY <1>1, RecordsHave, RecHasFields DEF Result, Mine
<1>3. db' \in TopicRec
  BY <1>2, RecordsHave DEF TopicRec, Fields
<1> QED BY <1>1, <1>2, <1>3

\* The rows that concern the author are written by who has the topic's row.
LEMMA CommitWrites ==
    ASSUME TopicInv, NEW r \in Req, Commit(r)
    PROVE  /\ lock["topics"] = r => db'.group = new.group
           /\ lock["topics"] # r =>
                /\ db'.deleted = db.deleted /\ db'.group = db.group
                /\ lock["del_info"] # r /\ lock["author"] # r
           /\ lock["del_info"] # r => db'.info = db.info
           /\ lock["author"] # r => db'.score = db.score /\ db'.awarded = db.awarded
           /\ lock["msgbase"] # r => db'.message = db.message
<1>1. lock["topics"] # r => lock["del_info"] # r /\ lock["author"] # r
  BY CommitHas DEF TopicInv, ReqInv, Holds
<1> QED BY <1>1, CommitHas, RowsOfFields DEF Fields

LEMMA CommitKeeps ==
    ASSUME TopicInv, NEW r \in Req, Commit(r), HistoryTyped', NEW q \in Req \ {r}
    PROVE  ReqInv(q)'
<1>1. /\ pc'[q] = pc[q] /\ cmd'[q] = cmd[q] /\ cur'[q] = cur[q]
      /\ row'[q] = row[q] /\ bonus'[q] = bonus[q] /\ new' = new
      /\ \A x \in Row : lock'[x] = q <=> lock[x] = q
  BY CommitHas, EndHas, NobodyIsNoRequest
<1>2. /\ lock'["topics"] = q <=> lock["topics"] = q
      /\ lock'["msgbase"] = q <=> lock["msgbase"] = q
      /\ lock'["del_info"] = q <=> lock["del_info"] = q
      /\ lock'["author"] = q <=> lock["author"] = q
  BY <1>1 DEF Row
<1>3. ReqInv(q)
  BY DEF TopicInv
<1>4. /\ lock["topics"] = q => /\ db'.deleted = db.deleted /\ db'.group = db.group
                               /\ db'.info = db.info
                               /\ db'.score = db.score /\ db'.awarded = db.awarded
      /\ lock["del_info"] = q => db'.info = db.info
      /\ lock["author"] = q => db'.score = db.score /\ db'.awarded = db.awarded
  BY CommitWrites
<1>5. Holds(q)'
  BY <1>1, <1>2, <1>3 DEF ReqInv, Holds
<1>6. Removes(q)'
  BY <1>1, <1>2, <1>3, <1>4 DEF ReqInv, Holds, Removes, Owed
<1>7. Restores(q)'
  BY <1>1, <1>2, <1>3, <1>4 DEF ReqInv, Holds, Restores, Owed
<1>8. Others(q)'
  <2>1. pc[q] = "commit" /\ lock["topics"] = q => Sound(Result(q))'
    <3> SUFFICES ASSUME pc[q] = "commit", lock["topics"] = q PROVE Sound(Result(q))'
      OBVIOUS
    <3>1. Sound(Result(q))
      BY <1>3 DEF ReqInv, Others
    <3>2. /\ Result(q)'.deleted = Result(q).deleted /\ Result(q)'.info = Result(q).info
          /\ Result(q)'.score = Result(q).score /\ Result(q)'.awarded = Result(q).awarded
      BY <1>1, <1>2, <1>4, ResultIs, RecordsHave, CommitHas
    <3> QED BY <3>1, <3>2 DEF Sound, Owed
  <2> QED BY <1>1, <1>2, <1>3, <1>4, <2>1 DEF ReqInv, Holds, Others
<1>9. Confirms(q)'
  BY <1>1, <1>2, <1>3, <1>4 DEF ReqInv, Confirms
<1>10. Records(q)'
  BY <1>1, <1>2, <1>3 DEF ReqInv, Records, OnRecord, NewMessage, NewTitle
<1> QED BY <1>5, <1>6, <1>7, <1>8, <1>9, <1>10 DEF ReqInv

LEMMA CommitInv ==
    ASSUME TopicInv, NEW r \in Req, Commit(r)
    PROVE  TopicInv'
<1>1. HistoryTyped'
  <2>1. row' = [row EXCEPT ![r] = NoRow] /\ nextId' = nextId /\ row \in [Req -> OldRow]
    BY CommitHas DEF End, TopicInv, Typed, LocalsTyped
  <2>2. \A q \in Req : row'[q] = row[q] \/ row'[q] = NoRow
    BY <2>1
  <2>3. row[r] \in OldRow /\ row[r].id < nextId /\ (row[r] # NoRow => row[r].id # 0)
    BY <2>1 DEF TopicInv, Typed, HistoryTyped
  <2>4. edits' \subseteq OldRow /\ \A e \in edits' : e.id \in 1 .. (nextId - 1)
    BY <2>3, CommitHas DEF TopicInv, Typed, HistoryTyped, OldRow
  <2> QED BY <2>1, <2>2, <2>4 DEF HistoryTyped, TopicInv, Typed, NoRow
<1>2. RowsTyped'
  BY <1>1, CommitHas, EndHas, RecordsHave, RowsOfFields, NobodyIsNoRequest
     DEF RowsTyped, TopicInv, Typed
<1>3. Typed'
  BY <1>1, <1>2, CommitHas, EndHas DEF Typed
<1>4. Sound(db)'
  <2>1. CASE lock["topics"] = r
    BY <2>1, CommitHas DEF TopicInv, ReqInv, Others
  <2>2. CASE lock["topics"] # r
    BY <2>2, CommitWrites, RecordsHave DEF Sound, Owed
  <2> QED BY <2>1, <2>2
<1>5. Fresh(db)' /\ Fresh(new)'
  BY CommitHas, RecordsHave, RowsOfFields DEF Fresh, Fields
<1>6. ReqInv(r)'
  BY <1>1, CommitHas, EndHas, DoneHas, NobodyIsNoRequest
<1>7. \A q \in Req : ReqInv(q)'
  BY <1>1, <1>6, CommitKeeps
<1> QED BY <1>3, <1>4, <1>5, <1>7 DEF TopicInv

-----------------------------------------------------------------------------
(* The theorems *)

LEMMA NextInv == TopicInv /\ [Next]_vars => TopicInv'
<1> SUFFICES ASSUME TopicInv, [Next]_vars PROVE TopicInv'
  OBVIOUS
<1>1. CASE UNCHANGED vars
  BY <1>1
     DEF vars, TopicInv, Typed, LocalsTyped, HistoryTyped, RowsTyped, Sound, Fresh, Owed, ReqInv,
         Holds, Removes, Restores, Others, Confirms, Records, OnRecord, Result, Mine, NewMessage,
         NewTitle
<1>2. ASSUME NEW r \in Req, Edit(r) PROVE TopicInv'
  <2>1. ASSUME NEW u \in User, OpenForm(r, u) PROVE TopicInv'
    BY <2>1, OpenFormInv
  <2>2. ASSUME NEW added \in SUBSET {"message", "title"}, NEW commit \in BOOLEAN,
               NEW publish \in BOOLEAN, NEW g \in Group, Submit(r, added, commit, publish, g)
        PROVE  TopicInv'
    BY <2>2, SubmitInv
  <2>3. CASE Refuse(r)
    BY <2>3, AbortInv DEF Refuse
  <2>4. CASE WriteTopic(r)
    <3>1. CASE Fits(r)
      BY <2>4, <3>1, WriteTopicInv
    <3>2. CASE ~Fits(r)
      BY <2>4, <3>2, AbortInv DEF WriteTopic, Fits
    <3> QED BY <3>1, <3>2
  <2>5. CASE NoChange(r)
    BY <2>5, AbortInv DEF NoChange
  <2> QED
    BY <1>2, <2>1, <2>2, <2>3, <2>4, <2>5, ReadTokenInv, WarnInv, ReadCurrentInv,
       WriteMessageInv, RewardInv DEF Edit
<1>3. ASSUME NEW r \in Req, Deletion(r) PROVE TopicInv'
  <2>1. CASE DeleteTopic(r)
    <3>1. CASE new.deleted
      BY <2>1, <3>1, AbortInv DEF DeleteTopic
    <3> QED BY <2>1, <3>1, DeleteTopicInv
  <2>2. CASE InsertInfo(r)
    <3>1. CASE new.info # NoInfo
      BY <2>2, <3>1, AbortInv DEF InsertInfo
    <3> QED BY <2>2, <3>1, InsertInfoInv
  <2> QED
    BY <1>3, <2>1, <2>2, StartDeleteInv, PenalizeInv, StartUndeleteInv, ReadBonusInv, RefundInv,
       RestoreInv, RemoveInfoInv DEF Deletion
<1>4. ASSUME NEW r \in Req, Moderation(r) PROVE TopicInv'
  BY <1>4, StartMoveInv, MoveTopicInv, AppendInfoInv, StartUncommitInv, UncommitInv DEF Moderation
<1>5. ASSUME NEW r \in Req, Fail(r) PROVE TopicInv'
  BY <1>5, AbortInv DEF Fail
<1> QED BY <1>1, <1>2, <1>3, <1>4, <1>5, CommitInv DEF Next

LEMMA SpecInv == Spec => []TopicInv
  BY InitInv, NextInv, PTL DEF Spec

LEMMA InvConsistent == TopicInv => TopicConsistent
<1> SUFFICES ASSUME TopicInv PROVE TopicConsistent
  OBVIOUS
<1>1. TypeOK
  <2>1. DOMAIN db = Fields /\ DOMAIN new = Fields
    BY RecordsHave, RecHasFields
  <2>2. db.message \subseteq Req
    BY RecordsHave DEF TopicRec
  <2>3. /\ lock \in [Row -> Req \cup {Nobody}]
        /\ \A f \in Fields : lock[RowOf(f)] = Nobody => new[f] = db[f]
    BY DEF TopicInv, Typed, RowsTyped
  <2>4. ASSUME NEW x \in Row, lock[x] # Nobody PROVE pc[lock[x]] \in Statement
    <3>1. lock[x] \in Req
      BY <2>3, <2>4
    <3> QED BY <3>1 DEF TopicInv, ReqInv, Holds, Row, Statement
  <2>5. \A e \in edits : e.id \in 1 .. (nextId - 1) /\ e.old \subseteq Req
    BY DEF TopicInv, Typed, HistoryTyped, OldRow
  <2> QED BY <2>1, <2>2, <2>3, <2>4, <2>5, RecordsHave DEF TypeOK
<1>2. DeletedIffInfo /\ NeverOverpaid /\ PublishedOnce
  BY RecordsHave DEF DeletedIffInfo, NeverOverpaid, PublishedOnce, Sound, Fresh, Owed
<1> QED BY <1>1, <1>2 DEF TopicConsistent

\* The topic is deleted exactly when del_info says by whom, its author is not
\* overpaid and it is published once, for any requests, their interleavings and
\* failures (stDelete, bUndelete, vEdit, vMove, vUncommit).
THEOREM TopicStaysConsistent == Spec => []TopicConsistent
  BY SpecInv, InvConsistent, PTL

\* Only a commit changes the committed rows, and it ends its own request.
LEMMA OnlyCommitsWrite ==
    ASSUME TopicInv, [Next]_vars, NEW r \in Req, pc[r] = "commit", pc'[r] = "done"
    PROVE  db' = db \/ Commit(r)
<1>1. ASSUME NEW q \in Req, Edit(q) \/ Deletion(q) \/ Moderation(q) \/ Fail(q) PROVE db' = db
  BY <1>1
     DEF Edit, Deletion, Moderation, Fail, OpenForm, ReadToken, Warn, Refuse, Submit, ReadCurrent,
         WriteMessage, WriteTopic, NoChange, Reward, StartDelete, DeleteTopic, Penalize,
         InsertInfo, StartUndelete, ReadBonus, Refund, Restore, RemoveInfo, StartMove, MoveTopic,
         AppendInfo, StartUncommit, Uncommit, Abort
<1>2. ASSUME NEW q \in Req, Commit(q), q # r PROVE FALSE
  BY <1>2, CommitInv, CommitHas, EndHas DEF TopicInv, Typed
<1>3. CASE UNCHANGED vars
  BY <1>3 DEF vars
<1> QED BY <1>1, <1>2, <1>3 DEF Next

\* A confirmation leaves the topic in the section where it finds it, whatever
\* moves it has waited for (the EXISTS of the confirmation's UPDATE).
THEOREM ConfirmationStays == Spec => ConfirmStaysInSection
<1>1. ASSUME TopicInv, [Next]_vars, NEW r \in Req, pc[r] = "commit", pc'[r] = "done", cmd[r].commit
      PROVE  SectionOf[db'.group] = SectionOf[db.group]
  <2>1. CASE Commit(r)
    BY <1>1, <2>1, CommitWrites DEF TopicInv, ReqInv, Confirms
  <2> QED BY <1>1, <2>1, OnlyCommitsWrite
<1>2. TopicInv /\ [Next]_vars =>
        [\A r \in Req : pc[r] = "commit" /\ pc'[r] = "done" /\ cmd[r].commit
           => SectionOf[db'.group] = SectionOf[db.group]]_vars
  BY <1>1
<1> QED BY <1>2, SpecInv, PTL DEF Spec, ConfirmStaysInSection

\* What an edit removes of the text that its transaction read is in the row of
\* edit_info it commits (oldmessage).
THEOREM RemovedTextIsRecorded == Spec => RemovedIsRecorded
<1>1. ASSUME TopicInv, [Next]_vars, NEW r \in Req, pc[r] = "commit", pc'[r] = "done"
      PROVE  (db.message \ db'.message) \cap cur[r].message \subseteq UNION {e.old : e \in edits'}
  <2>1. CASE Commit(r) /\ lock["msgbase"] = r /\ OnRecord(r)
    <3>1. row[r] # NoRow /\ row[r].old = cur[r].message
      BY <2>1 DEF OnRecord, NoRow
    <3>2. row[r] \in edits'
      BY <1>1, <2>1, <3>1, CommitHas
    <3> QED BY <3>1, <3>2
  <2>2. CASE Commit(r) /\ lock["msgbase"] = r /\ ~OnRecord(r)
    BY <1>1, <2>2 DEF TopicInv, ReqInv, Records
  <2>3. CASE Commit(r) /\ lock["msgbase"] # r
    BY <1>1, <2>3, CommitWrites
  <2> QED BY <1>1, <2>1, <2>2, <2>3, OnlyCommitsWrite
<1>2. TopicInv /\ [Next]_vars =>
        [\A r \in Req : pc[r] = "commit" /\ pc'[r] = "done"
           => (db.message \ db'.message) \cap cur[r].message
                \subseteq UNION {e.old : e \in edits'}]_vars
  BY <1>1
<1> QED BY <1>2, SpecInv, PTL DEF Spec, RemovedIsRecorded

-----------------------------------------------------------------------------
(* The pages of comments: the inductive invariant *)

\* The beginning of a list: what comes later comes after all of it.
Begins(a, b) == a \subseteq b /\ \A c \in a, d \in b : d < c => d \in a

Loaded == {"meta", "list", "render"}     \* the topic's row is read

PageTyped ==
    /\ Tp!PageTypeOK /\ stat1 <= Cardinality(Tp!Standing) /\ visit.stat1 <= Cardinality(Comment)
    /\ ignores # {} => reader # Guest
    /\ visit.pc = "resolve" => visit.kind = "jump"
    /\ visit.kind = "jump" => ~visit.show
    /\ visit.pc = "filter" => visit.kind = "page" /\ visit.target \in Comment
    /\ visit.pc # "done" /\ visit.kind # "walk" => visit.shown = {}

\* A jump is on its way to the page on which the comment stands, which is there.
\* (live stands, gone is deleted, ig is ignored by r, h says whether the page is empty.)
Jumps(v, live, gone, ig, r, h) ==
    v.target # 0 /\ ~v.moved /\ v.exact =>
      \/ /\ v.kind = "deleted" /\ r \in Moderator /\ ~v.show
         /\ v.pc \in {"fetch", "done"} \cup Loaded
         /\ v.target \in live \cup gone
         /\ v.pc = "render" => v.target \in v.list
         /\ v.pc = "done" => v.target \in v.shown \/ v.target \in Tp!Hidden(v.list, ig)
      \/ /\ v.kind = "page" /\ ~h /\ v.pc \in {"filter", "fetch", "done"} \cup Loaded
         /\ v.target \in live /\ v.at = Tp!PageOf(live, v.target)
         /\ v.pc \in {"filter", "render"} => Begins(v.list, live) /\ v.target \in v.list
         /\ v.pc \in {"fetch"} \cup Loaded => (v.show <=> v.target \in Tp!Hidden(live, ig))
         /\ v.pc \in Loaded => v.stat1 > 0 /\ v.at < Tp!Pages(v.stat1)
         /\ v.pc = "done" => v.target \in v.shown

\* A walk has seen what stands on the pages behind it, and no page is missing.
Walks(v, live, ig, h) ==
    v.kind = "walk" /\ ~v.moved /\ v.exact /\ ~h =>
      /\ Begins(v.start, live) /\ ~v.show
      /\ \A c \in v.start : v.pc = "done" \/ Tp!PageOf(live, c) < v.at =>
            c \in v.seen \cup Tp!Hidden(live, ig)
      /\ v.pc # "done" => v.at = 0 \/ v.at < Tp!Pages(Cardinality(live))
      /\ v.pc \in Loaded => /\ Cardinality(v.start) <= v.stat1 /\ v.stat1 <= Cardinality(live)
                            /\ v.at = 0 \/ v.at < Tp!Pages(v.stat1)
      /\ v.pc = "render" => Begins(v.list, live) /\ v.start \subseteq v.list

\* What has been shown leaves out whom the reader ignores.
Spared(v, ig) ==
    v.pc = "done" /\ ~v.show /\ ~v.moved => v.shown \cap Tp!Hidden(v.list, ig) = {}

\* One stamp is that of the same change as the other, or of one in an earlier second.
Follows(a, b) == a = b \/ Tp!Second(a) < Tp!Second(b)

\* A copy is of what was listed at its stamp, and was made before what is read now.
\* (m is the topic's stamp, lt says whether one was late, l is what the page lists.)
Copied(v, cp, m, lt, r, l) ==
    /\ cp # Tp!NoCopy => r = Guest /\ cp.etag \in Nat /\ cp.modified \in {-1, cp.etag}
    /\ ~lt =>
         /\ v.pc \in Loaded => Follows(v.lastmod, m)
         /\ v.pc = "render" /\ v.kind # "deleted" /\ v.lastmod = m => v.list = l
         /\ cp # Tp!NoCopy => /\ Follows(cp.etag, m)
                              /\ cp.etag = m => cp.body = Tp!Slice(l, 0, {})
                              /\ v.pc \in Loaded => Follows(cp.etag, v.lastmod)

\* What the list of the topic's page has.
Listing == IF hides THEN {} ELSE Tp!Standing

PageInv ==
    /\ PageTyped
    /\ Jumps(visit, Tp!Standing, Tp!Is("deleted"), ignores, reader, hides)
    /\ Walks(visit, Tp!Standing, ignores, hides)
    /\ Spared(visit, ignores)
    /\ Copied(visit, copy, lastmod, late, reader, Listing)

\* The library's operators, as the instance knows them.
LEMMA TpCounts == \A T : Tp!Cardinality(T) = Cardinality(T)
  BY Zenon DEF Cardinality, Tp!Cardinality

LEMMA TpFinite == \A T : Tp!IsFiniteSet(T) <=> IsFiniteSet(T)
  BY Zenon DEF IsFiniteSet, Tp!IsFiniteSet

-----------------------------------------------------------------------------
(* Numbers *)

LEMMA NumbersReached ==
    ASSUME NEW Q, 0 \in Q, \A n \in Nat : n \in Q => n + 1 \in Q
    PROVE  \A n \in Nat : n \in Q
<1> DEFINE Bad == {n \in Nat : n \notin Q}
<1> SUFFICES ASSUME Bad # {} PROVE FALSE
  OBVIOUS
<1>1. PICK x \in Bad : \A y \in Bad : ~(<<y, x>> \in OpToRel(<, Nat))
  BY WFMin, NatLessThanWellFounded
<1>2. \A y \in Bad : ~(y < x)
  BY <1>1 DEF OpToRel
<1>3. x \in Nat /\ x \notin Q /\ x # 0
  OBVIOUS
<1>4. x - 1 \in Nat /\ x - 1 < x /\ (x - 1) + 1 = x
  BY <1>3
<1>5. x - 1 \in Q
  BY <1>2, <1>4
<1> QED
  BY <1>3, <1>4, <1>5

LEMMA Quotient ==
    ASSUME NEW n \in Nat, NEW p \in Nat \ {0}
    PROVE  n \div p \in Nat /\ n \div p <= n /\ p * (n \div p) <= n /\ n < p * (n \div p) + p
  OBVIOUS

LEMMA QuotientGrows ==
    ASSUME NEW m \in Nat, NEW n \in Nat, m <= n, NEW p \in Nat \ {0}
    PROVE  m \div p <= n \div p
<1> DEFINE a == m \div p  b == n \div p
<1>1. a \in Nat /\ b \in Nat /\ p * a <= m /\ n < p * b + p
  BY Quotient
<1> HIDE DEF a, b
<1> SUFFICES ASSUME b + 1 <= a PROVE FALSE
  BY <1>1 DEF a, b
<1>2. p * (b + 1) <= p * a
  BY <1>1
<1>3. p * (b + 1) = p * b + p
  BY <1>1
<1> QED
  BY <1>1, <1>2, <1>3

\* A page for each PerPage comments that are begun.
LEMMA PagesCover ==
    ASSUME Tp!PageConstants, NEW n \in Nat
    PROVE  /\ Tp!Pages(n) \in Nat /\ Tp!Pages(n) <= n
           /\ \A m \in Nat : m < n => m \div PerPage < Tp!Pages(n) /\ m \div PerPage \in Nat
           /\ n > 0 => Tp!Pages(n) > 0
           /\ \A m \in Nat : n <= m => Tp!Pages(n) <= Tp!Pages(m)
<1>1. PerPage \in Nat \ {0} /\ n + PerPage - 1 \in Nat
  BY TpFinite, TpCounts DEF Tp!PageConstants
<1>2. Tp!Pages(n) \in Nat /\ PerPage * Tp!Pages(n) <= n + PerPage - 1
      /\ n + PerPage - 1 < PerPage * Tp!Pages(n) + PerPage
  BY <1>1, Quotient DEF Tp!Pages
<1>3. Tp!Pages(n) <= n
  <2> SUFFICES ASSUME n + 1 <= Tp!Pages(n) PROVE FALSE
    BY <1>2
  <2>1. PerPage * (n + 1) <= PerPage * Tp!Pages(n)
    BY <1>1, <1>2
  <2>2. PerPage * (n + 1) = PerPage * n + PerPage /\ n <= PerPage * n
    BY <1>1
  <2>3. PerPage * n \in Int /\ PerPage * Tp!Pages(n) \in Int
    BY <1>1, <1>2
  <2> QED
    BY <1>1, <1>2, <2>1, <2>2, <2>3
<1>4. ASSUME NEW m \in Nat, m < n PROVE m \div PerPage < Tp!Pages(n) /\ m \div PerPage \in Nat
  <2> DEFINE q == m \div PerPage
  <2>1. q \in Nat /\ PerPage * q <= m
    BY <1>1, Quotient
  <2> HIDE DEF q
  <2>2. ASSUME Tp!Pages(n) <= q PROVE FALSE
    <3>1. PerPage * Tp!Pages(n) <= PerPage * q
      BY <1>1, <1>2, <2>1, <2>2
    <3>2. PerPage * Tp!Pages(n) \in Int /\ PerPage * q \in Int
      BY <1>1, <1>2, <2>1
    <3> QED
      BY <1>1, <1>2, <1>4, <2>1, <3>1, <3>2
  <2> QED
    BY <1>2, <2>1, <2>2 DEF q
<1>5. n > 0 => Tp!Pages(n) > 0
  BY <1>2, <1>4
<1>6. ASSUME NEW m \in Nat, n <= m PROVE Tp!Pages(n) <= Tp!Pages(m)
  BY <1>1, <1>6, QuotientGrows DEF Tp!Pages
<1> QED
  BY <1>2, <1>3, <1>4, <1>5, <1>6

LEMMA CommentsFinite ==
    ASSUME Tp!PageConstants
    PROVE  /\ IsFiniteSet(Comment) /\ Cardinality(Comment) \in Nat
           /\ \A c \in Comment : c \in Nat \ {0} /\ c <= Cardinality(Comment)
           /\ \A S \in SUBSET Comment : /\ IsFiniteSet(S) /\ Cardinality(S) \in Nat
                                        /\ Cardinality(S) <= Cardinality(Comment)
<1>1. Comment = 1 .. Cardinality(Comment) /\ IsFiniteSet(Comment)
  BY TpFinite, TpCounts DEF Tp!PageConstants
<1>2. Cardinality(Comment) \in Nat
  BY <1>1, FS_CardinalityType
<1>3. \A S \in SUBSET Comment : /\ IsFiniteSet(S) /\ Cardinality(S) \in Nat
                                /\ Cardinality(S) <= Cardinality(Comment)
  BY <1>1, <1>2, FS_Subset, FS_CardinalityType
<1> QED
  BY <1>1, <1>2, <1>3

LEMMA BeforeCounted ==
    ASSUME Tp!PageConstants, NEW a \in SUBSET Comment, NEW c \in a
    PROVE  /\ Cardinality({d \in a : d < c}) \in Nat
           /\ Cardinality({d \in a : d < c}) < Cardinality(a)
<1> DEFINE B == {d \in a : d < c}
<1>1. IsFiniteSet(a) /\ Cardinality(a) \in Nat /\ c \in Nat
  BY CommentsFinite
<1>2. B \in SUBSET a /\ B # a /\ IsFiniteSet(B) /\ Cardinality(B) \in Nat
  <2>1. c \notin B
    BY <1>1
  <2> QED
    BY <1>1, <2>1, FS_Subset, FS_CardinalityType
<1>3. Cardinality(B) < Cardinality(a)
  BY <1>1, <1>2, FS_Subset
<1> QED
  BY <1>2, <1>3

\* Where a comment is on the list.
LEMMA PageExists ==
    ASSUME Tp!PageConstants, NEW a \in SUBSET Comment, NEW c \in a
    PROVE  Tp!PageOf(a, c) \in Nat /\ Tp!PageOf(a, c) < Tp!Pages(Cardinality(a))
<1>1. Cardinality({d \in a : d < c}) \in Nat /\ Cardinality({d \in a : d < c}) < Cardinality(a)
  BY BeforeCounted
<1>2. Cardinality(a) \in Nat
  BY CommentsFinite
<1> QED
  BY <1>1, <1>2, PagesCover, TpCounts DEF Tp!PageOf

\* What is added at the end of the list leaves the pages as they are.
LEMMA PageStays ==
    ASSUME NEW a, NEW b, Begins(a, b), NEW c \in a
    PROVE  Tp!PageOf(b, c) = Tp!PageOf(a, c)
<1>1. {d \in b : d < c} = {d \in a : d < c}
  BY DEF Begins
<1> QED
  BY <1>1, TpCounts DEF Tp!PageOf

LEMMA BeginsTransitive ==
    ASSUME NEW a, NEW b, NEW c, Begins(a, b), Begins(b, c)
    PROVE  Begins(a, c)
  BY DEF Begins
-----------------------------------------------------------------------------
(* What is below *)

\* One step down from S.
Down(list, S) == S \cup {c \in list : ReplyTo[c] \in S}
Descends(g, k, list, roots) ==
    g = [n \in 0 .. k |-> IF n = 0 THEN roots ELSE Down(list, g[n - 1])]

LEMMA DescentExists ==
    ASSUME NEW list, NEW roots
    PROVE  \A k \in Nat : \E g : Descends(g, k, list, roots)
<1> DEFINE Q == {k \in Nat : \E g : Descends(g, k, list, roots)}
<1>1. 0 \in Q
  <2> DEFINE g == [n \in 0 .. 0 |-> roots]
  <2>1. Descends(g, 0, list, roots)
    BY DEF Descends
  <2> QED
    BY <2>1
<1>2. ASSUME NEW k \in Nat, k \in Q PROVE k + 1 \in Q
  <2>1. PICK g : Descends(g, k, list, roots)
    BY <1>2
  <2> DEFINE h == [n \in 0 .. k + 1 |-> IF n = k + 1 THEN Down(list, g[k]) ELSE g[n]]
  <2>2. \A n \in 0 .. k : g[n] = IF n = 0 THEN roots ELSE Down(list, g[n - 1])
    BY <2>1 DEF Descends
  <2>3. ASSUME NEW n \in 0 .. k + 1 PROVE h[n] = IF n = 0 THEN roots ELSE Down(list, h[n - 1])
    <3>1. CASE n = k + 1
      <4>1. n # 0 /\ n - 1 = k /\ h[n - 1] = g[k] /\ h[n] = Down(list, g[k])
        BY <3>1
      <4> QED
        BY <4>1
    <3>2. CASE n # k + 1 /\ n # 0
      <4>1. n \in 0 .. k /\ n - 1 \in 0 .. k /\ n - 1 # k + 1 /\ n - 1 \in 0 .. k + 1
        BY <3>2
      <4>2. h[n] = g[n] /\ h[n - 1] = g[n - 1]
        BY <3>2, <4>1
      <4> HIDE DEF h
      <4> QED
        BY <2>2, <3>2, <4>1, <4>2
    <3>3. CASE n = 0
      <4>1. h[0] = g[0] /\ g[0] = roots
        BY <2>2
      <4> QED
        BY <3>3, <4>1
    <3> QED
      BY <3>1, <3>2, <3>3
  <2>4. h = [n \in 0 .. k + 1 |-> IF n = 0 THEN roots ELSE Down(list, h[n - 1])]
    <3>1. h = [n \in 0 .. k + 1 |-> h[n]]
      OBVIOUS
    <3> HIDE DEF h
    <3> QED
      BY <2>3, <3>1
  <2>5. Descends(h, k + 1, list, roots)
    <3> HIDE DEF h
    <3> QED
      BY <2>4 DEF Descends
  <2> HIDE DEF h
  <2> QED
    BY <2>5
<1> HIDE DEF Q
<1>3. \A k \in Nat : k \in Q
  BY <1>1, <1>2, NumbersReached
<1> QED
  BY <1>3 DEF Q

\* As many steps as there are comments reach all there is to reach: each step
\* goes on to comments that are younger than those it comes from.
LEMMA DescentEnds ==
    ASSUME Tp!PageConstants, NEW list \in SUBSET Comment, NEW roots, NEW g,
           NEW k \in Nat, k = Cardinality(list), Descends(g, k, list, roots)
    PROVE  /\ roots \subseteq g[k] /\ g[k] \subseteq roots \cup list
           /\ \A c \in list : ReplyTo[c] \in g[k] => c \in g[k]
           /\ \A S : roots \subseteq S /\ (\A c \in list : ReplyTo[c] \in S => c \in S) => g[k] \subseteq S
<1> DEFINE rank(c) == Cardinality({d \in list : d < c})
<1>0. \A c \in list : c \in Nat /\ ReplyTo[c] \in Nat /\ ReplyTo[c] < c
  BY CommentsFinite, TpFinite, TpCounts DEF Tp!PageConstants
<1>1. g[0] = roots /\ \A n \in Nat : n + 1 \in 0 .. k => g[n + 1] = Down(list, g[n])
  <2>1. \A n \in 0 .. k : g[n] = IF n = 0 THEN roots ELSE Down(list, g[n - 1])
    BY DEF Descends
  <2>2. ASSUME NEW n \in Nat, n + 1 \in 0 .. k PROVE g[n + 1] = Down(list, g[n])
    <3>1. n + 1 # 0 /\ (n + 1) - 1 = n
      OBVIOUS
    <3> QED
      BY <2>1, <2>2, <3>1
  <2> QED
    BY <2>1, <2>2
<1>2. \A c \in list : rank(c) \in Nat /\ rank(c) < k
  BY BeforeCounted
<1>3. ASSUME NEW c \in list, NEW d \in list, d < c PROVE rank(d) + 1 <= rank(c)
  <2> DEFINE A == {e \in list : e < c}
  <2>1. A \in SUBSET Comment /\ d \in A /\ {e \in A : e < d} = {e \in list : e < d}
    BY <1>0, <1>3
  <2>2. Cardinality({e \in A : e < d}) < Cardinality(A)
    <3> HIDE DEF A
    <3> QED
      BY <2>1, BeforeCounted
  <2>3. rank(d) < rank(c)
    BY <2>1, <2>2
  <2> HIDE DEF rank
  <2> QED
    BY <1>2, <2>3
<1> HIDE DEF rank
<1>4. \A n \in Nat : n <= k => roots \subseteq g[n] /\ g[n] \subseteq roots \cup list
  <2> DEFINE Q == {n \in Nat : n <= k => roots \subseteq g[n] /\ g[n] \subseteq roots \cup list}
  <2>1. 0 \in Q
    BY <1>1
  <2>2. ASSUME NEW n \in Nat, n \in Q PROVE n + 1 \in Q
    BY <1>1, <2>2 DEF Down
  <2> HIDE DEF Q
  <2>3. \A n \in Nat : n \in Q
    BY <2>1, <2>2, NumbersReached
  <2> QED
    BY <2>3 DEF Q
<1>5. \A m, n \in Nat : m + n <= k => g[m] \subseteq g[m + n]
  <2> SUFFICES ASSUME NEW m \in Nat PROVE \A n \in Nat : m + n <= k => g[m] \subseteq g[m + n]
    OBVIOUS
  <2> DEFINE Q == {n \in Nat : m + n <= k => g[m] \subseteq g[m + n]}
  <2>1. 0 \in Q
    <3>1. m + 0 = m
      OBVIOUS
    <3> QED
      BY <3>1
  <2>2. ASSUME NEW n \in Nat, n \in Q PROVE n + 1 \in Q
    <3> SUFFICES ASSUME m + (n + 1) <= k PROVE g[m] \subseteq g[m + (n + 1)]
      OBVIOUS
    <3>1. m + n \in Nat /\ (m + n) + 1 = m + (n + 1) /\ (m + n) + 1 \in 0 .. k /\ m + n <= k
      OBVIOUS
    <3>2. g[m + n] \subseteq g[(m + n) + 1]
      BY <1>1, <3>1 DEF Down
    <3> QED
      BY <2>2, <3>1, <3>2
  <2> HIDE DEF Q
  <2>3. \A n \in Nat : n \in Q
    BY <2>1, <2>2, NumbersReached
  <2> QED
    BY <2>3 DEF Q
<1>6. \A m, n \in Nat : m <= n /\ n <= k => g[m] \subseteq g[n]
  <2> SUFFICES ASSUME NEW m \in Nat, NEW n \in Nat, m <= n, n <= k PROVE g[m] \subseteq g[n]
    OBVIOUS
  <2>1. n - m \in Nat /\ m + (n - m) = n
    OBVIOUS
  <2> QED
    BY <1>5, <2>1
<1>7. ASSUME NEW c \in list, NEW n \in Nat, n < k, ReplyTo[c] \in g[n], n <= rank(c)
      PROVE  rank(c) + 1 <= k /\ c \in g[rank(c) + 1]
  <2>1. n + 1 \in 0 .. k
    BY <1>7
  <2>2. c \in g[n + 1]
    BY <1>1, <1>7, <2>1 DEF Down
  <2>3. rank(c) \in Nat /\ rank(c) + 1 \in Nat /\ rank(c) + 1 <= k /\ n + 1 <= rank(c) + 1
    BY <1>2, <1>7
  <2> QED
    BY <1>6, <2>2, <2>3
<1>8. ASSUME NEW c \in list, ReplyTo[c] \in roots \/ (ReplyTo[c] \in list /\ ReplyTo[c] \in g[rank(ReplyTo[c]) + 1])
      PROVE  c \in g[rank(c) + 1]
  <2>1. CASE ReplyTo[c] \in roots
    <3>1. 0 < k /\ 0 <= rank(c) /\ 0 \in Nat
      BY <1>2
    <3> QED
      BY <1>1, <1>7, <2>1, <3>1
  <2>2. CASE ReplyTo[c] \in list /\ ReplyTo[c] \in g[rank(ReplyTo[c]) + 1]
    <3> DEFINE n == rank(ReplyTo[c]) + 1
    <3>1. rank(ReplyTo[c]) + 1 <= rank(c) /\ rank(ReplyTo[c]) \in Nat /\ rank(c) \in Nat /\ rank(c) < k
      BY <1>0, <1>2, <1>3, <2>2
    <3>2. n \in Nat /\ n < k /\ n <= rank(c) /\ ReplyTo[c] \in g[n]
      BY <2>2, <3>1
    <3> QED
      BY <1>7, <3>2
  <2> QED
    BY <1>8, <2>1, <2>2
<1>9. \A n \in Nat : n <= k => \A c \in list : c \in g[n] => c \in roots \/ c \in g[rank(c) + 1]
  <2> DEFINE Q == {n \in Nat : n <= k => \A c \in list : c \in g[n] => c \in roots \/ c \in g[rank(c) + 1]}
  <2>1. 0 \in Q
    BY <1>1
  <2>2. ASSUME NEW n \in Nat, n \in Q PROVE n + 1 \in Q
    <3> SUFFICES ASSUME n + 1 <= k, NEW c \in list, c \in g[n + 1], c \notin roots
                 PROVE  c \in g[rank(c) + 1]
      OBVIOUS
    <3>1. n <= k /\ n + 1 \in 0 .. k
      OBVIOUS
    <3>2. CASE c \in g[n]
      BY <2>2, <3>1, <3>2
    <3>3. CASE ReplyTo[c] \in g[n]
      <4>1. ReplyTo[c] \in roots \/ ReplyTo[c] \in list
        BY <1>4, <3>1, <3>3
      <4>2. ReplyTo[c] \in list => ReplyTo[c] \in roots \/ ReplyTo[c] \in g[rank(ReplyTo[c]) + 1]
        BY <2>2, <3>1, <3>3
      <4> QED
        BY <1>8, <4>1, <4>2
    <3> QED
      BY <1>1, <3>1, <3>2, <3>3 DEF Down
  <2> HIDE DEF Q
  <2>3. \A n \in Nat : n \in Q
    BY <2>1, <2>2, NumbersReached
  <2> QED
    BY <2>3 DEF Q
<1>10. ASSUME NEW c \in list, ReplyTo[c] \in g[k] PROVE c \in g[k]
  <2>1. ReplyTo[c] \in roots \/ ReplyTo[c] \in list
    BY <1>4, <1>10
  <2>2. ReplyTo[c] \in list => ReplyTo[c] \in roots \/ ReplyTo[c] \in g[rank(ReplyTo[c]) + 1]
    BY <1>9, <1>10
  <2>3. c \in g[rank(c) + 1]
    BY <1>8, <2>1, <2>2
  <2>4. rank(c) + 1 \in Nat /\ rank(c) + 1 <= k
    BY <1>2
  <2> QED
    BY <1>6, <2>3, <2>4
<1>11. ASSUME NEW S, roots \subseteq S, \A c \in list : ReplyTo[c] \in S => c \in S PROVE g[k] \subseteq S
  <2> DEFINE Q == {n \in Nat : n <= k => g[n] \subseteq S}
  <2>1. 0 \in Q
    BY <1>1, <1>11
  <2>2. ASSUME NEW n \in Nat, n \in Q PROVE n + 1 \in Q
    <3>1. n + 1 <= k => n <= k /\ n + 1 \in 0 .. k
      OBVIOUS
    <3> QED
      BY <1>1, <1>11, <2>2, <3>1 DEF Down
  <2> HIDE DEF Q
  <2>3. \A n \in Nat : n \in Q
    BY <2>1, <2>2, NumbersReached
  <2> QED
    BY <2>3 DEF Q
<1>12. roots \subseteq g[k] /\ g[k] \subseteq roots \cup list
  BY <1>4
<1> QED
  BY <1>10, <1>11, <1>12

\* What is below is the least that holds the roots and, with a comment, its answers.
LEMMA BelowIsLeast ==
    ASSUME Tp!PageConstants, NEW list \in SUBSET Comment, NEW roots
    PROVE  /\ roots \subseteq Tp!Below(list, roots) /\ Tp!Below(list, roots) \subseteq roots \cup list
           /\ \A c \in list : ReplyTo[c] \in Tp!Below(list, roots) => c \in Tp!Below(list, roots)
           /\ \A S : roots \subseteq S /\ (\A c \in list : ReplyTo[c] \in S => c \in S)
                       => Tp!Below(list, roots) \subseteq S
<1> DEFINE k == Cardinality(list)
           F(g) == [n \in 0 .. k |-> IF n = 0 THEN roots
                                     ELSE g[n - 1] \cup {c \in list : ReplyTo[c] \in g[n - 1]}]
           it == CHOOSE g : g = F(g)
<1>1. k \in Nat
  BY CommentsFinite
<1>2. Tp!Below(list, roots) = it[k]
  BY TpCounts DEF Tp!Below
<1>3. \A g : g = F(g) <=> Descends(g, k, list, roots)
  BY DEF Descends, Down
<1>4. \E g : g = F(g)
  <2> HIDE DEF F, k
  <2> QED
    BY <1>1, <1>3, DescentExists
<1>5. it = F(it)
  <2> HIDE DEF F
  <2> QED
    BY <1>4, Zenon
<1>6. Descends(it, k, list, roots)
  <2> HIDE DEF F, it
  <2> QED
    BY <1>3, <1>5
<1> HIDE DEF it, F
<1>7. /\ roots \subseteq it[k] /\ it[k] \subseteq roots \cup list
      /\ \A c \in list : ReplyTo[c] \in it[k] => c \in it[k]
      /\ \A S : roots \subseteq S /\ (\A c \in list : ReplyTo[c] \in S => c \in S) => it[k] \subseteq S
  BY <1>1, <1>6, DescentEnds
<1> HIDE DEF k
<1> QED
  BY <1>2, <1>7

LEMMA HiddenIsLeast ==
    ASSUME Tp!PageConstants, NEW list \in SUBSET Comment, NEW ig
    PROVE  /\ Tp!Hidden(list, ig) \subseteq list
           /\ \A c \in list : Writer[c] \in ig => c \in Tp!Hidden(list, ig)
           /\ \A c \in list : ReplyTo[c] \in Tp!Hidden(list, ig) => c \in Tp!Hidden(list, ig)
           /\ \A S : (\A c \in list : Writer[c] \in ig \/ ReplyTo[c] \in S => c \in S)
                       => Tp!Hidden(list, ig) \subseteq S
<1> DEFINE roots == {c \in list : Writer[c] \in ig}
<1>0. Tp!Hidden(list, ig) = Tp!Below(list, roots) /\ roots \subseteq list
  BY DEF Tp!Hidden
<1>1. \A c \in list : c \in roots <=> Writer[c] \in ig
  OBVIOUS
<1> HIDE DEF roots
<1>2. /\ roots \subseteq Tp!Below(list, roots) /\ Tp!Below(list, roots) \subseteq roots \cup list
      /\ \A c \in list : ReplyTo[c] \in Tp!Below(list, roots) => c \in Tp!Below(list, roots)
      /\ \A S : roots \subseteq S /\ (\A c \in list : ReplyTo[c] \in S => c \in S)
                  => Tp!Below(list, roots) \subseteq S
  BY BelowIsLeast
<1> QED
  BY <1>0, <1>2, <1>1

\* Nobody ignored, nothing hidden.
LEMMA NothingHidden ==
    ASSUME Tp!PageConstants, NEW list \in SUBSET Comment
    PROVE  Tp!Hidden(list, {}) = {}
<1>1. \A c \in list : ~(ReplyTo[c] \in {})
  OBVIOUS
<1> QED
  BY <1>1, HiddenIsLeast

\* What is added at the end hides nothing of what was there, nor shows any.
LEMMA HiddenStays ==
    ASSUME Tp!PageConstants, NEW a \in SUBSET Comment, NEW b \in SUBSET Comment, Begins(a, b), NEW ig
    PROVE  \A c \in a : c \in Tp!Hidden(a, ig) <=> c \in Tp!Hidden(b, ig)
<1>0. \A c \in Comment : c \in Int /\ ReplyTo[c] < c
  BY CommentsFinite, TpFinite, TpCounts DEF Tp!PageConstants
<1>1. /\ \A c \in a : Writer[c] \in ig \/ ReplyTo[c] \in Tp!Hidden(a, ig) => c \in Tp!Hidden(a, ig)
      /\ \A S : (\A c \in a : Writer[c] \in ig \/ ReplyTo[c] \in S => c \in S) => Tp!Hidden(a, ig) \subseteq S
  BY HiddenIsLeast
<1>2. /\ \A c \in b : Writer[c] \in ig \/ ReplyTo[c] \in Tp!Hidden(b, ig) => c \in Tp!Hidden(b, ig)
      /\ \A S : (\A c \in b : Writer[c] \in ig \/ ReplyTo[c] \in S => c \in S) => Tp!Hidden(b, ig) \subseteq S
  BY HiddenIsLeast
<1>3. Tp!Hidden(a, ig) \subseteq Tp!Hidden(b, ig)
  BY <1>1, <1>2 DEF Begins
<1>4. ASSUME NEW c \in b, Writer[c] \in ig \/ ReplyTo[c] \in Tp!Hidden(a, ig) \cup (b \ a)
      PROVE  c \in Tp!Hidden(a, ig) \cup (b \ a)
  <2>1. CASE c \notin a
    BY <2>1
  <2>2. CASE c \in a
    <3>1. ReplyTo[c] \notin b \ a
      BY <1>0, <2>2 DEF Begins
    <3> QED
      BY <1>1, <1>4, <2>2, <3>1
  <2> QED
    BY <2>1, <2>2
<1>5. Tp!Hidden(b, ig) \subseteq Tp!Hidden(a, ig) \cup (b \ a)
  BY <1>2, <1>4
<1> QED
  BY <1>3, <1>5
-----------------------------------------------------------------------------
(* Jumps and walks while others write *)

\* Nothing is asked of a visit under which the list moved.
LEMMA MovedAsksNothing ==
    ASSUME NEW w, w.moved, NEW live, NEW gone, NEW ig, NEW r, NEW h
    PROVE  Jumps(w, live, gone, ig, r, h) /\ Walks(w, live, ig, h) /\ Spared(w, ig)
  BY DEF Jumps, Walks, Spared

\* Two visits that differ in what they know of the others at most.
Alike(v, w) ==
    /\ w.pc = v.pc /\ w.kind = v.kind /\ w.at = v.at /\ w.show = v.show /\ w.stat1 = v.stat1
    /\ w.list = v.list /\ w.shown = v.shown /\ w.target = v.target /\ w.start = v.start
    /\ w.seen = v.seen /\ w.exact = v.exact /\ w.lastmod = v.lastmod

LEMMA JumpsOutlastGrowth ==
    ASSUME Tp!PageConstants, NEW v \in Tp!Visit, NEW w, Alike(v, w), ~w.moved => ~v.moved,
           NEW a \in SUBSET Comment, NEW b \in SUBSET Comment, ~w.moved => Begins(a, b),
           NEW gone, NEW ig, NEW r, NEW h, Jumps(v, a, gone, ig, r, h)
    PROVE  Jumps(w, b, gone, ig, r, h)
<1> SUFFICES ASSUME w.target # 0, ~w.moved, w.exact PROVE Jumps(w, b, gone, ig, r, h)
  BY DEF Jumps
<1>1. Begins(a, b) /\ a \subseteq b /\ v.target # 0 /\ ~v.moved /\ v.exact
  BY DEF Alike, Begins
<1>2. CASE v.kind = "deleted"
  BY <1>1, <1>2 DEF Jumps, Alike
<1>3. CASE v.kind # "deleted"
  <2>1. /\ v.kind = "page" /\ ~h /\ v.pc \in {"filter", "fetch", "done"} \cup Loaded
        /\ v.target \in a /\ v.at = Tp!PageOf(a, v.target)
        /\ v.pc \in {"filter", "render"} => Begins(v.list, a) /\ v.target \in v.list
        /\ v.pc \in {"fetch"} \cup Loaded => (v.show <=> v.target \in Tp!Hidden(a, ig))
        /\ v.pc \in Loaded => v.stat1 > 0 /\ v.at < Tp!Pages(v.stat1)
        /\ v.pc = "done" => v.target \in v.shown
    BY <1>1, <1>3 DEF Jumps
  <2>2. v.target \in b /\ Tp!PageOf(b, v.target) = Tp!PageOf(a, v.target)
    BY <1>1, <2>1, PageStays
  <2>3. v.target \in Tp!Hidden(a, ig) <=> v.target \in Tp!Hidden(b, ig)
    BY <1>1, <2>1, HiddenStays
  <2>4. Begins(v.list, a) => Begins(v.list, b)
    BY <1>1, BeginsTransitive
  <2> QED
    BY <2>1, <2>2, <2>3, <2>4 DEF Jumps, Alike
<1> QED
  BY <1>2, <1>3

LEMMA WalksOutlastGrowth ==
    ASSUME Tp!PageConstants, NEW v \in Tp!Visit, NEW w, Alike(v, w), ~w.moved => ~v.moved,
           NEW a \in SUBSET Comment, NEW b \in SUBSET Comment, ~w.moved => Begins(a, b),
           NEW ig, NEW h, Walks(v, a, ig, h)
    PROVE  Walks(w, b, ig, h)
<1> SUFFICES ASSUME w.kind = "walk", ~w.moved, w.exact, ~h PROVE Walks(w, b, ig, h)
  BY DEF Walks
<1>1. Begins(a, b) /\ a \subseteq b /\ v.kind = "walk" /\ ~v.moved /\ v.exact
  BY DEF Alike, Begins
<1>2. /\ Begins(v.start, a) /\ ~v.show
      /\ \A c \in v.start : v.pc = "done" \/ Tp!PageOf(a, c) < v.at => c \in v.seen \cup Tp!Hidden(a, ig)
      /\ v.pc # "done" => v.at = 0 \/ v.at < Tp!Pages(Cardinality(a))
      /\ v.pc \in Loaded => /\ Cardinality(v.start) <= v.stat1 /\ v.stat1 <= Cardinality(a)
                            /\ v.at = 0 \/ v.at < Tp!Pages(v.stat1)
      /\ v.pc = "render" => Begins(v.list, a) /\ v.start \subseteq v.list
  BY <1>1 DEF Walks
<1>3. Begins(v.start, b) /\ (Begins(v.list, a) => Begins(v.list, b))
  BY <1>1, <1>2, BeginsTransitive
<1>4. ASSUME NEW c \in v.start
      PROVE  Tp!PageOf(b, c) = Tp!PageOf(a, c) /\ (c \in Tp!Hidden(a, ig) <=> c \in Tp!Hidden(b, ig))
  <2>1. c \in a
    BY <1>2 DEF Begins
  <2> QED
    BY <1>1, <2>1, PageStays, HiddenStays
<1>5. /\ Cardinality(a) \in Nat /\ Cardinality(b) \in Nat /\ Cardinality(a) <= Cardinality(b)
      /\ Tp!Pages(Cardinality(a)) \in Nat /\ Tp!Pages(Cardinality(b)) \in Nat
      /\ Tp!Pages(Cardinality(a)) <= Tp!Pages(Cardinality(b))
  <2>1. IsFiniteSet(b) /\ Cardinality(a) \in Nat /\ Cardinality(b) \in Nat
    BY CommentsFinite
  <2>2. Cardinality(a) <= Cardinality(b)
    BY <1>1, <2>1, FS_Subset
  <2> QED
    BY <2>1, <2>2, PagesCover
<1>6. v.at \in Nat /\ v.stat1 \in Int
  BY CommentsFinite, TpCounts DEF Tp!Visit
<1> DEFINE pb == Tp!Pages(Cardinality(b))  cb == Cardinality(b)
           pa == Tp!Pages(Cardinality(a))  ca == Cardinality(a)
<1>7. v.at < pa => v.at < pb
  BY <1>5, <1>6
<1>8. v.stat1 <= ca => v.stat1 <= cb
  BY <1>5, <1>6
<1> HIDE DEF pb, cb, pa, ca
<1>9. /\ v.pc # "done" => v.at = 0 \/ v.at < pb
      /\ v.pc \in Loaded => /\ Cardinality(v.start) <= v.stat1 /\ v.stat1 <= cb
                            /\ v.at = 0 \/ v.at < Tp!Pages(v.stat1)
  BY <1>2, <1>7, <1>8 DEF pa, ca
<1>10. \A c \in v.start : v.pc = "done" \/ Tp!PageOf(b, c) < v.at => c \in v.seen \cup Tp!Hidden(b, ig)
  BY <1>2, <1>4
<1> QED
  BY <1>2, <1>3, <1>9, <1>10 DEF Walks, Alike, pb, cb

LEMMA SparedAlike ==
    ASSUME NEW v, NEW w, Alike(v, w), ~w.moved => ~v.moved, NEW ig, Spared(v, ig)
    PROVE  Spared(w, ig)
  BY DEF Spared, Alike

\* A stamp of a later second makes everything known older than it.
LEMMA StampsOutdate ==
    ASSUME NEW v, NEW w, Alike(v, w), v.lastmod \in Nat, NEW cp, NEW m \in Nat, NEW t \in Nat,
           NEW lt, NEW lt2, ~lt2 => ~lt /\ Tp!Second(m) < Tp!Second(t), NEW r, NEW l, NEW l2,
           Copied(v, cp, m, lt, r, l)
    PROVE  Copied(w, cp, t, lt2, r, l2)
<1>1. cp # Tp!NoCopy => r = Guest /\ cp.etag \in Nat /\ cp.modified \in {-1, cp.etag}
  BY DEF Copied
<1> SUFFICES ASSUME ~lt2 PROVE Copied(w, cp, t, lt2, r, l2)
  BY <1>1 DEF Copied
<1>2. Tp!Second(m) < Tp!Second(t) /\ \A x \in Nat : Tp!Second(x) \in Nat
  BY DEF Tp!Second
<1>3. ASSUME NEW x \in Nat, Follows(x, m) PROVE Follows(x, t) /\ x # t
  <2>1. Tp!Second(x) <= Tp!Second(m)
    BY <1>2, <1>3 DEF Follows
  <2>2. Tp!Second(x) < Tp!Second(t)
    BY <1>2, <2>1
  <2> QED
    BY <1>2, <2>2 DEF Follows
<1>4. /\ v.pc \in Loaded => Follows(v.lastmod, m)
      /\ cp # Tp!NoCopy => /\ Follows(cp.etag, m)
                           /\ v.pc \in Loaded => Follows(cp.etag, v.lastmod)
  BY DEF Copied
<1>5. v.pc \in Loaded => Follows(v.lastmod, t) /\ v.lastmod # t
  BY <1>3, <1>4
<1>6. cp # Tp!NoCopy => Follows(cp.etag, t) /\ cp.etag # t
  BY <1>1, <1>3, <1>4
<1>7. w.pc = "render" => w.pc \in Loaded
  BY DEF Loaded
<1> QED
  BY <1>1, <1>4, <1>5, <1>6, <1>7 DEF Copied, Alike

LEMMA CopiedAlike ==
    ASSUME NEW v, NEW w, Alike(v, w), NEW cp, NEW m, NEW lt, NEW r, NEW l, Copied(v, cp, m, lt, r, l)
    PROVE  Copied(w, cp, m, lt, r, l)
  BY DEF Copied, Alike

-----------------------------------------------------------------------------
(* Those who change the topic *)

\* The conjuncts by name.
LEMMA PageFacts ==
    ASSUME Tp!PageConstants, PageInv
    PROVE  /\ PageTyped /\ Tp!PageTypeOK /\ visit \in Tp!Visit
           /\ Jumps(visit, Tp!Standing, Tp!Is("deleted"), ignores, reader, hides)
           /\ Walks(visit, Tp!Standing, ignores, hides) /\ Spared(visit, ignores)
           /\ Copied(visit, copy, lastmod, late, reader, Listing)
           /\ lastmod \in Nat /\ now \in Nat /\ visit.lastmod \in Nat
           /\ Tp!Standing \in SUBSET Comment /\ Listing \in SUBSET Comment
           /\ Tp!Is("deleted") \in SUBSET Comment
           /\ IsFiniteSet(Tp!Standing) /\ Cardinality(Tp!Standing) \in Nat
<1>1. Tp!PageTypeOK /\ PageTyped
  BY DEF PageInv, PageTyped
<1>2. visit \in Tp!Visit /\ lastmod \in Nat /\ now \in Nat
  BY <1>1 DEF Tp!PageTypeOK
<1>3. Tp!Standing \in SUBSET Comment /\ Listing \in SUBSET Comment /\ Tp!Is("deleted") \in SUBSET Comment
  BY DEF Tp!Standing, Tp!Is, Listing
<1>4. visit.lastmod \in Nat
  BY <1>2, TpCounts DEF Tp!Visit
<1> QED
  BY <1>1, <1>2, <1>3, <1>4, CommentsFinite DEF PageInv

\* The rest of the types, when the visit differs in what it knows of the others at most.
LEMMA TypedAlike ==
    ASSUME Tp!PageConstants, PageInv, Tp!PageTypeOK', stat1' <= Cardinality(Tp!Standing'),
           ignores' # {} => reader' # Guest, Alike(visit, visit')
    PROVE  PageTyped'
<1>1. PageTyped
  BY PageFacts
<1> QED
  BY <1>1 DEF PageTyped, Alike

LEMMA DisturbedAlike ==
    ASSUME Tp!PageConstants, PageInv, NEW yes \in BOOLEAN, Tp!Disturb(yes)
    PROVE  /\ visit' \in Tp!Visit /\ Alike(visit, visit') /\ visit'.lastmod = visit.lastmod
           /\ visit'.moved = (visit.moved \/ yes)
<1> DEFINE v == visit  w == visit'
<1>1. v \in Tp!Visit /\ w = [v EXCEPT !.moved = @ \/ yes]
  BY PageFacts DEF Tp!Disturb
<1>2. v.moved \in BOOLEAN
  BY <1>1, TpCounts DEF Tp!Visit
<1> HIDE DEF v, w
<1>3. w \in Tp!Visit
  BY <1>1, <1>2, TpCounts DEF Tp!Visit
<1>4. Alike(v, w) /\ w.lastmod = v.lastmod /\ w.moved = (v.moved \/ yes)
  BY <1>1, TpCounts DEF Tp!Visit, Alike
<1> QED
  BY <1>3, <1>4 DEF v, w

\* A transaction that stamps the topic.
LEMMA Written ==
    ASSUME Tp!PageConstants, PageInv, Tp!Write, Tp!Touch, NEW yes \in BOOLEAN, Tp!Disturb(yes),
           UNCHANGED <<hides, expired, reader, ignores, now, visits, copy>>,
           state' \in [Comment -> {"none", "drawn", "live", "deleted"}],
           stat1' \in Int, stat1' <= Cardinality(Tp!Standing'),
           ~yes => Begins(Tp!Standing, Tp!Standing') /\ Tp!Is("deleted")' = Tp!Is("deleted")
    PROVE  PageInv'
<1>1. /\ PageTyped /\ Tp!PageTypeOK /\ visit \in Tp!Visit
      /\ Jumps(visit, Tp!Standing, Tp!Is("deleted"), ignores, reader, hides)
      /\ Walks(visit, Tp!Standing, ignores, hides) /\ Spared(visit, ignores)
      /\ Copied(visit, copy, lastmod, late, reader, Listing)
      /\ lastmod \in Nat /\ now \in Nat /\ visit.lastmod \in Nat /\ Tp!Standing \in SUBSET Comment
  BY PageFacts
<1>2. /\ visit' \in Tp!Visit /\ Alike(visit, visit') /\ visit'.lastmod = visit.lastmod
      /\ visit'.moved = (visit.moved \/ yes)
  BY DisturbedAlike
<1>3. /\ lastmod' \in Nat /\ lastmod' \in 0 .. now /\ late' \in BOOLEAN
      /\ ~late' => ~late /\ Tp!Second(lastmod) < Tp!Second(lastmod')
  <2>1. PICK t \in {now, now - 1} \cap Nat :
              lastmod' = t /\ late' = (late \/ Tp!Second(t) <= Tp!Second(lastmod))
    BY DEF Tp!Touch
  <2>2. late \in BOOLEAN
    BY <1>1 DEF Tp!PageTypeOK
  <2>3. Tp!Second(t) \in Nat /\ Tp!Second(lastmod) \in Nat
    BY <1>1 DEF Tp!Second
  <2>4. ~(Tp!Second(t) <= Tp!Second(lastmod)) => Tp!Second(lastmod) < Tp!Second(t)
    BY <2>3
  <2>5. t \in 0 .. now
    BY <1>1
  <2> QED
    BY <2>1, <2>2, <2>4, <2>5
<1>4. Tp!Standing' \in SUBSET Comment
  BY DEF Tp!Standing, Tp!Is
<1>5. Tp!PageTypeOK'
  <2>1. writes' \in 0 .. MaxWrites
    BY <1>1, TpFinite, TpCounts DEF Tp!PageTypeOK, Tp!Write, Tp!PageConstants
  <2> QED
    BY <1>1, <1>2, <1>3, <2>1 DEF Tp!PageTypeOK
<1>6. PageTyped'
  <2>1. ignores' # {} => reader' # Guest
    BY <1>1 DEF PageTyped
  <2> QED
    BY <1>2, <1>5, <2>1, TypedAlike
<1>7. /\ Jumps(visit', Tp!Standing', Tp!Is("deleted")', ignores', reader', hides')
      /\ Walks(visit', Tp!Standing', ignores', hides') /\ Spared(visit', ignores')
  <2>1. CASE yes
    <3>1. visit'.moved
      BY <1>2, <2>1
    <3> QED
      BY <3>1, MovedAsksNothing
  <2>2. CASE ~yes
    <3>1. Begins(Tp!Standing, Tp!Standing') /\ Tp!Is("deleted")' = Tp!Is("deleted") /\ (~visit'.moved => ~visit.moved)
          /\ ignores' = ignores /\ reader' = reader /\ hides' = hides
      BY <1>2, <2>2
    <3>2. Jumps(visit', Tp!Standing', Tp!Is("deleted"), ignores, reader, hides)
      BY <1>1, <1>2, <1>4, <3>1, JumpsOutlastGrowth
    <3>3. Walks(visit', Tp!Standing', ignores, hides)
      BY <1>1, <1>2, <1>4, <3>1, WalksOutlastGrowth
    <3>4. Spared(visit', ignores)
      BY <1>1, <1>2, <3>1, SparedAlike
    <3> QED
      BY <3>1, <3>2, <3>3, <3>4
  <2> QED
    BY <2>1, <2>2
<1>8. Copied(visit', copy', lastmod', late', reader', Listing')
  <2>1. Copied(visit', copy, lastmod', late', reader, Listing')
    BY <1>1, <1>2, <1>3, StampsOutdate
  <2> QED
    BY <2>1
<1> QED
  BY <1>6, <1>7, <1>8 DEF PageInv

LEMMA PostKeepsPages ==
    ASSUME Tp!PageConstants, PageInv, NEW c \in Comment, Tp!Post(c)
    PROVE  PageInv'
<1>1. /\ PageTyped /\ Tp!PageTypeOK /\ Tp!Standing \in SUBSET Comment /\ IsFiniteSet(Tp!Standing)
      /\ Cardinality(Tp!Standing) \in Nat
  BY PageFacts
<1>2. state \in [Comment -> {"none", "drawn", "live", "deleted"}] /\ stat1 \in Int
      /\ stat1 <= Cardinality(Tp!Standing)
  BY <1>1 DEF Tp!PageTypeOK, PageTyped
<1>3. state[c] = "drawn" /\ state' = [state EXCEPT ![c] = "live"] /\ stat1' = stat1 + 1
  BY DEF Tp!Post
<1>4. state' \in [Comment -> {"none", "drawn", "live", "deleted"}]
  BY <1>2, <1>3
<1>5. Tp!Standing' = Tp!Standing \cup {c} /\ c \notin Tp!Standing /\ Tp!Is("deleted")' = Tp!Is("deleted")
  BY <1>2, <1>3 DEF Tp!Standing, Tp!Is
<1>6. Cardinality(Tp!Standing') = Cardinality(Tp!Standing) + 1
  BY <1>1, <1>5, FS_AddElement
<1>7. stat1' \in Int /\ stat1' <= Cardinality(Tp!Standing')
  BY <1>1, <1>2, <1>3, <1>6
<1> DEFINE yes == \E d \in Tp!Standing : d > c
<1>8. ~yes => Begins(Tp!Standing, Tp!Standing')
  <2>1. \A d \in Comment : d \in Nat
    BY CommentsFinite
  <2> QED
    BY <1>1, <1>5, <2>1 DEF Begins
<1>9. yes \in BOOLEAN /\ Tp!Disturb(yes)
  BY DEF Tp!Post
<1>10. Tp!Write /\ Tp!Touch /\ UNCHANGED <<hides, expired, reader, ignores, now, visits, copy>>
  BY DEF Tp!Post
<1> HIDE DEF yes
<1> QED
  BY <1>4, <1>5, <1>7, <1>8, <1>9, <1>10, Written

LEMMA DeleteKeepsPages ==
    ASSUME Tp!PageConstants, PageInv, NEW c \in Comment, NEW deep \in BOOLEAN, Tp!Delete(c, deep)
    PROVE  PageInv'
<1>1. /\ PageTyped /\ Tp!PageTypeOK /\ Tp!Standing \in SUBSET Comment /\ IsFiniteSet(Tp!Standing)
      /\ Cardinality(Tp!Standing) \in Nat
  BY PageFacts
<1>2. state \in [Comment -> {"none", "drawn", "live", "deleted"}] /\ stat1 \in Int
      /\ stat1 <= Cardinality(Tp!Standing)
  BY <1>1 DEF Tp!PageTypeOK, PageTyped
<1> DEFINE gone == IF deep THEN Tp!Below(Tp!Standing, {c}) ELSE {c}
<1>3. state[c] = "live" /\ c \in Tp!Standing
  BY TpCounts DEF Tp!Delete, Tp!Standing, Tp!Is
<1>4. gone \subseteq Tp!Standing
  <2>1. Tp!Below(Tp!Standing, {c}) \subseteq {c} \cup Tp!Standing
    BY <1>1, BelowIsLeast
  <2> QED
    BY <1>3, <2>1
<1>5. /\ state' = [d \in Comment |-> IF d \in gone THEN "deleted" ELSE state[d]]
      /\ stat1' = stat1 - Cardinality(gone)
  BY TpCounts DEF Tp!Delete
<1> HIDE DEF gone
<1>6. state' \in [Comment -> {"none", "drawn", "live", "deleted"}]
  BY <1>2, <1>5
<1>7. Tp!Standing' = Tp!Standing \ gone
  BY <1>2, <1>5 DEF Tp!Standing, Tp!Is
<1>8. Cardinality(gone) \in Nat /\ Cardinality(Tp!Standing') = Cardinality(Tp!Standing) - Cardinality(gone)
  <2>1. IsFiniteSet(gone)
    BY <1>1, <1>4, FS_Subset
  <2>2. Cardinality(gone) \in Nat
    BY <2>1, FS_CardinalityType
  <2>3. Tp!Standing \cap gone = gone
    BY <1>4
  <2>4. Cardinality(Tp!Standing \ gone) = Cardinality(Tp!Standing) - Cardinality(Tp!Standing \cap gone)
    BY <1>1, FS_Difference
  <2> QED
    BY <1>7, <2>2, <2>3, <2>4
<1>9. stat1' \in Int /\ stat1' <= Cardinality(Tp!Standing')
  BY <1>1, <1>2, <1>5, <1>8
<1>10. /\ Tp!Write /\ Tp!Touch /\ Tp!Disturb(TRUE)
       /\ UNCHANGED <<hides, expired, reader, ignores, now, visits, copy>>
  BY TpCounts DEF Tp!Delete
<1> QED
  BY <1>6, <1>9, <1>10, Written

LEMMA UndeleteKeepsPages ==
    ASSUME Tp!PageConstants, PageInv, NEW c \in Comment, Tp!Undelete(c)
    PROVE  PageInv'
<1>1. /\ PageTyped /\ Tp!PageTypeOK /\ Tp!Standing \in SUBSET Comment /\ IsFiniteSet(Tp!Standing)
      /\ Cardinality(Tp!Standing) \in Nat
  BY PageFacts
<1>2. state \in [Comment -> {"none", "drawn", "live", "deleted"}] /\ stat1 \in Int
      /\ stat1 <= Cardinality(Tp!Standing)
  BY <1>1 DEF Tp!PageTypeOK, PageTyped
<1>3. state[c] = "deleted" /\ state' = [state EXCEPT ![c] = "live"] /\ stat1' = stat1
  BY DEF Tp!Undelete
<1>4. state' \in [Comment -> {"none", "drawn", "live", "deleted"}]
  BY <1>2, <1>3
<1>5. Tp!Standing' = Tp!Standing \cup {c} /\ c \notin Tp!Standing
  BY <1>2, <1>3 DEF Tp!Standing, Tp!Is
<1>6. Cardinality(Tp!Standing') = Cardinality(Tp!Standing) + 1
  BY <1>1, <1>5, FS_AddElement
<1>7. stat1' \in Int /\ stat1' <= Cardinality(Tp!Standing')
  BY <1>1, <1>2, <1>3, <1>6
<1>8. /\ Tp!Write /\ Tp!Touch /\ Tp!Disturb(TRUE)
      /\ UNCHANGED <<hides, expired, reader, ignores, now, visits, copy>>
  BY DEF Tp!Undelete
<1> QED
  BY <1>4, <1>7, <1>8, Written

\* The visit is not touched, nor what it can see of the topic, nor its stamp.
LEMMA Elsewhere ==
    ASSUME Tp!PageConstants, PageInv, Tp!PageTypeOK', stat1' <= Cardinality(Tp!Standing'),
           UNCHANGED <<lastmod, hides, reader, ignores, late, visit, copy>>,
           Tp!Standing' = Tp!Standing, Tp!Is("deleted")' = Tp!Is("deleted")
    PROVE  PageInv'
<1>1. /\ PageTyped
      /\ Jumps(visit, Tp!Standing, Tp!Is("deleted"), ignores, reader, hides)
      /\ Walks(visit, Tp!Standing, ignores, hides) /\ Spared(visit, ignores)
      /\ Copied(visit, copy, lastmod, late, reader, Listing)
  BY PageFacts
<1>2. PageTyped'
  BY <1>1 DEF PageTyped
<1>3. Listing' = Listing
  BY DEF Listing
<1>4. Jumps(visit, Tp!Standing, Tp!Is("deleted"), ignores, reader, hides)'
  BY <1>1
<1>5. Walks(visit, Tp!Standing, ignores, hides)' /\ Spared(visit, ignores)'
  BY <1>1
<1>6. Copied(visit, copy, lastmod, late, reader, Listing)'
  BY <1>1, <1>3
<1> QED
  BY <1>2, <1>4, <1>5, <1>6 DEF PageInv

LEMMA DrawKeepsPages ==
    ASSUME Tp!PageConstants, PageInv, NEW c \in Comment, Tp!Draw(c)
    PROVE  PageInv'
<1>1. PageTyped /\ Tp!PageTypeOK
  BY PageFacts
<1>2. /\ state[c] = "none" /\ state' = [state EXCEPT ![c] = "drawn"]
      /\ UNCHANGED <<stat1, lastmod, hides, expired, reader, ignores, now, writes, late, visit, visits, copy>>
  BY DEF Tp!Draw
<1>3. state \in [Comment -> {"none", "drawn", "live", "deleted"}] /\ stat1 <= Cardinality(Tp!Standing)
  BY <1>1 DEF Tp!PageTypeOK, PageTyped
<1>4. Tp!Standing' = Tp!Standing /\ Tp!Is("deleted")' = Tp!Is("deleted")
  BY <1>2, <1>3 DEF Tp!Standing, Tp!Is
<1>5. Tp!PageTypeOK'
  BY <1>1, <1>2, <1>3 DEF Tp!PageTypeOK
<1> QED
  BY <1>2, <1>3, <1>4, <1>5, Elsewhere

LEMMA RecountKeepsPages ==
    ASSUME Tp!PageConstants, PageInv, Tp!Recount
    PROVE  PageInv'
<1>1. PageTyped /\ Tp!PageTypeOK /\ Cardinality(Tp!Standing) \in Nat
  BY PageFacts
<1>2. /\ stat1' = Cardinality(Tp!Standing)
      /\ UNCHANGED <<state, lastmod, hides, expired, reader, ignores, now, writes, late, visit, visits, copy>>
  BY TpCounts DEF Tp!Recount
<1>3. Tp!Standing' = Tp!Standing /\ Tp!Is("deleted")' = Tp!Is("deleted")
  BY <1>2 DEF Tp!Standing, Tp!Is
<1>4. Tp!PageTypeOK'
  BY <1>1, <1>2 DEF Tp!PageTypeOK
<1>5. stat1' <= Cardinality(Tp!Standing')
  BY <1>1, <1>2, <1>3
<1> QED
  BY <1>2, <1>3, <1>4, <1>5, Elsewhere

LEMMA TickKeepsPages ==
    ASSUME Tp!PageConstants, PageInv, Tp!Tick
    PROVE  PageInv'
<1>1. PageTyped /\ Tp!PageTypeOK
  BY PageFacts
<1>2. /\ now < MaxTime /\ now' = now + 1 /\ expired' \in {expired, TRUE}
      /\ UNCHANGED <<state, stat1, lastmod, hides, reader, ignores, writes, late, visit, visits, copy>>
  BY DEF Tp!Tick
<1>3. Tp!Standing' = Tp!Standing /\ Tp!Is("deleted")' = Tp!Is("deleted")
  BY <1>2 DEF Tp!Standing, Tp!Is
<1>4. now' \in 0 .. MaxTime /\ lastmod' \in 0 .. now' /\ expired' \in BOOLEAN
  <2>1. now \in 0 .. MaxTime /\ lastmod \in 0 .. now /\ expired \in BOOLEAN /\ MaxTime \in Nat
    BY <1>1, TpFinite, TpCounts DEF Tp!PageTypeOK, Tp!PageConstants
  <2>2. now' \in 0 .. MaxTime /\ lastmod' \in 0 .. now'
    BY <1>2, <2>1
  <2> QED
    BY <1>2, <2>1, <2>2
<1>5. Tp!PageTypeOK'
  BY <1>1, <1>2, <1>4 DEF Tp!PageTypeOK
<1>6. stat1' <= Cardinality(Tp!Standing')
  BY <1>1, <1>2, <1>3 DEF PageTyped
<1> QED
  BY <1>2, <1>3, <1>5, <1>6, Elsewhere

LEMMA IgnoreKeepsPages ==
    ASSUME Tp!PageConstants, PageInv, NEW c \in Comment, Tp!Ignore(Writer[c])
    PROVE  PageInv'
<1>1. /\ PageTyped /\ Tp!PageTypeOK /\ visit \in Tp!Visit
      /\ Copied(visit, copy, lastmod, late, reader, Listing)
  BY PageFacts
<1>2. /\ reader # Guest /\ Tp!Write /\ Tp!Disturb(TRUE)
      /\ ignores' = IF Writer[c] \in ignores THEN ignores \ {Writer[c]} ELSE ignores \cup {Writer[c]}
      /\ UNCHANGED <<state, stat1, lastmod, hides, expired, reader, now, late, visits, copy>>
  BY DEF Tp!Ignore
<1>3. visit' \in Tp!Visit /\ Alike(visit, visit') /\ visit'.moved
  BY <1>2, DisturbedAlike
<1>4. Tp!Standing' = Tp!Standing /\ Listing' = Listing
  BY <1>2 DEF Tp!Standing, Tp!Is, Listing
<1>5. ignores' \subseteq {Writer[d] : d \in Comment}
  BY <1>1, <1>2 DEF Tp!PageTypeOK
<1>6. writes' \in 0 .. MaxWrites
  BY <1>1, <1>2, TpFinite, TpCounts DEF Tp!PageTypeOK, Tp!Write, Tp!PageConstants
<1>7. Tp!PageTypeOK'
  BY <1>1, <1>2, <1>3, <1>5, <1>6 DEF Tp!PageTypeOK
<1>8. PageTyped'
  <2>1. stat1' <= Cardinality(Tp!Standing') /\ (ignores' # {} => reader' # Guest)
    BY <1>1, <1>2, <1>4 DEF PageTyped
  <2> QED
    BY <1>3, <1>7, <2>1, TypedAlike
<1>9. /\ Jumps(visit', Tp!Standing', Tp!Is("deleted")', ignores', reader', hides')
      /\ Walks(visit', Tp!Standing', ignores', hides') /\ Spared(visit', ignores')
  BY <1>3, MovedAsksNothing
<1>10. Copied(visit', copy', lastmod', late', reader', Listing')
  <2>1. Copied(visit', copy, lastmod, late, reader, Listing)
    BY <1>1, <1>3, CopiedAlike
  <2> QED
    BY <1>2, <1>4, <2>1
<1> QED
  BY <1>8, <1>9, <1>10 DEF PageInv

-----------------------------------------------------------------------------
(* The visit *)

\* What is asked of a visit alone.
VisitTyped(w) ==
    /\ w \in Tp!Visit /\ w.stat1 <= Cardinality(Comment)
    /\ w.pc = "resolve" => w.kind = "jump"
    /\ w.kind = "jump" => ~w.show
    /\ w.pc = "filter" => w.kind = "page" /\ w.target \in Comment
    /\ w.pc # "done" /\ w.kind # "walk" => w.shown = {}

LEMMA VisitFacts ==
    ASSUME Tp!PageConstants, PageInv
    PROVE  VisitTyped(visit)
<1>1. PageTyped /\ visit \in Tp!Visit
  BY PageFacts
<1> QED
  BY <1>1 DEF PageTyped, VisitTyped

Copies == [etag : Int, modified : Int, body : SUBSET Comment]

LEMMA Visited ==
    ASSUME Tp!PageConstants, PageInv, UNCHANGED Tp!rows, visits' \in 0 .. MaxVisits[reader],
           VisitTyped(visit'), copy' \in Copies,
           Jumps(visit', Tp!Standing, Tp!Is("deleted"), ignores, reader, hides),
           Walks(visit', Tp!Standing, ignores, hides), Spared(visit', ignores),
           Copied(visit', copy', lastmod, late, reader, Listing)
    PROVE  PageInv'
<1>1. PageTyped /\ Tp!PageTypeOK
  BY PageFacts
<1>2. UNCHANGED <<state, stat1, lastmod, hides, expired, reader, ignores, now, writes, late>>
  BY DEF Tp!rows
<1>3. Tp!Standing' = Tp!Standing /\ Tp!Is("deleted")' = Tp!Is("deleted") /\ Listing' = Listing
  BY <1>2 DEF Tp!Standing, Tp!Is, Listing
<1>4. visit' \in Tp!Visit
  BY DEF VisitTyped
<1>5. Tp!PageTypeOK'
  BY <1>1, <1>2, <1>4 DEF Tp!PageTypeOK, Copies
<1>6. stat1' <= Cardinality(Tp!Standing') /\ (ignores' # {} => reader' # Guest)
  BY <1>1, <1>2, <1>3 DEF PageTyped
<1>7. PageTyped'
  BY <1>5, <1>6 DEF PageTyped, VisitTyped
<1>8. Jumps(visit', Tp!Standing', Tp!Is("deleted")', ignores', reader', hides')
  BY <1>2, <1>3
<1>9. Walks(visit', Tp!Standing', ignores', hides') /\ Spared(visit', ignores')
  BY <1>2, <1>3
<1>10. Copied(visit', copy', lastmod', late', reader', Listing')
  BY <1>2, <1>3
<1> QED
  BY <1>7, <1>8, <1>9, <1>10 DEF PageInv

\* The numbers of visits and the copy, when they are left alone.
LEMMA LeftAlone ==
    ASSUME Tp!PageConstants, PageInv
    PROVE  /\ visits \in 0 .. MaxVisits[reader] /\ copy \in Copies
           /\ stat1 \in Int /\ stat1 <= Cardinality(Tp!Standing) /\ Cardinality(Tp!Standing) <= Cardinality(Comment)
           /\ lastmod \in Nat /\ expired \in BOOLEAN /\ hides \in BOOLEAN /\ reader \in Reader
           /\ MaxVisits[reader] \in Nat
<1>1. PageTyped /\ Tp!PageTypeOK /\ Tp!Standing \in SUBSET Comment
  BY PageFacts
<1>2. Cardinality(Tp!Standing) <= Cardinality(Comment)
  BY <1>1, CommentsFinite
<1>3. visits \in 0 .. MaxVisits[reader] /\ reader \in Reader /\ stat1 \in Int
      /\ lastmod \in Nat /\ expired \in BOOLEAN /\ hides \in BOOLEAN
  BY <1>1 DEF Tp!PageTypeOK
<1>4. copy \in Copies
  BY <1>1 DEF Tp!PageTypeOK, Copies
<1>5. MaxVisits[reader] \in Nat
  BY <1>3, TpFinite, TpCounts DEF Tp!PageConstants
<1>6. stat1 <= Cardinality(Tp!Standing)
  BY <1>1 DEF PageTyped
<1> QED
  BY <1>2, <1>3, <1>4, <1>5, <1>6

LEMMA IdleTyped ==
    ASSUME Tp!PageConstants PROVE VisitTyped(Tp!Idle) /\ Tp!Idle.target = 0 /\ Tp!Idle.kind = "page"
                               /\ Tp!Idle.pc = "idle" /\ Tp!Idle.shown = {} /\ Tp!Idle.stat1 = 0
                               /\ Tp!Idle.at = 0 /\ ~Tp!Idle.moved /\ Tp!Idle.exact /\ ~Tp!Idle.show
<1>1. Cardinality(Comment) \in Nat
  BY CommentsFinite
<1>2. Tp!Idle \in Tp!Visit
  BY <1>1, TpCounts DEF Tp!Visit, Tp!Idle
<1> QED
  BY <1>1, <1>2 DEF Tp!Idle, VisitTyped

LEMMA AskKeepsPages ==
    ASSUME Tp!PageConstants, PageInv, NEW kind \in {"jump", "page", "walk", "thread", "deleted"},
           NEW at \in 0 .. Cardinality(Comment), NEW skip \in BOOLEAN, NEW show \in BOOLEAN,
           NEW post \in BOOLEAN, kind \in {"jump", "walk"} => ~show /\ (kind = "walk" => at = 0),
           Tp!Ask(kind, at, skip, show, post)
    PROVE  PageInv'
<1>1. /\ visits < MaxVisits[reader] /\ visits' = visits + 1 /\ UNCHANGED <<Tp!rows, copy>>
      /\ visit' = [Tp!Idle EXCEPT !.pc = "fetch", !.kind = kind, !.at = at, !.skip = skip,
                     !.show = show, !.post = post, !.start = Tp!Standing]
  BY DEF Tp!Ask
<1>2. PICK L : L = Tp!Standing
  OBVIOUS
<1>3. L \in SUBSET Comment /\ Cardinality(L) \in Nat /\ Cardinality(Comment) \in Nat
  BY <1>2, PageFacts, CommentsFinite
<1>4. PICK w : w = [Tp!Idle EXCEPT !.pc = "fetch", !.kind = kind, !.at = at, !.skip = skip,
                     !.show = show, !.post = post, !.start = L]
  OBVIOUS
<1>5. visit' = w
  BY <1>1, <1>2, <1>4
<1>6. Tp!Idle \in Tp!Visit /\ Tp!Idle.stat1 = 0 /\ Tp!Idle.shown = {} /\ Tp!Idle.target = 0 /\ Tp!Idle.seen = {}
  BY IdleTyped DEF VisitTyped, Tp!Idle
<1>7. w \in Tp!Visit
  <2> DEFINE v == [Tp!Idle EXCEPT !.pc = "fetch", !.kind = kind, !.at = at, !.skip = skip]
  <2>1. at \in 0 .. Tp!Cardinality(Comment)
    BY TpCounts
  <2>2. v \in Tp!Visit
    BY <1>6, <2>1 DEF Tp!Visit
  <2>3. w = [v EXCEPT !.show = show, !.post = post, !.start = L]
    BY <1>4
  <2> HIDE DEF v
  <2> QED
    BY <1>3, <2>2, <2>3 DEF Tp!Visit
<1>8. /\ w.pc = "fetch" /\ w.kind = kind /\ w.at = at /\ w.show = show /\ w.start = L
      /\ w.stat1 = 0 /\ w.shown = {} /\ w.target = 0 /\ w.seen = {}
  BY <1>4, <1>6, TpCounts DEF Tp!Visit
<1>9. VisitTyped(w)
  BY <1>3, <1>7, <1>8 DEF VisitTyped
<1>10. Jumps(w, L, Tp!Is("deleted"), ignores, reader, hides)
  BY <1>8 DEF Jumps
<1>11. Walks(w, L, ignores, hides)
  <2> SUFFICES ASSUME w.kind = "walk" PROVE Walks(w, L, ignores, hides)
    BY DEF Walks
  <2>1. w.at = 0 /\ ~w.show
    BY <1>8
  <2>2. \A c \in L : Tp!PageOf(L, c) \in Nat
    BY <1>3, PageExists
  <2>3. Begins(L, L)
    BY DEF Begins
  <2>4. w.pc \notin Loaded /\ w.pc # "done" /\ w.pc # "render"
    BY <1>8 DEF Loaded
  <2>5. \A c \in L : ~(Tp!PageOf(L, c) < 0)
    BY <2>2
  <2> QED
    BY <1>8, <2>1, <2>3, <2>4, <2>5 DEF Walks
<1>12. Spared(w, ignores)
  BY <1>8 DEF Spared
<1>13. Copied(w, copy, lastmod, late, reader, Listing)
  <2>1. w.pc \notin Loaded /\ w.pc # "render"
    BY <1>8 DEF Loaded
  <2> QED
    BY <2>1, PageFacts DEF Copied
<1>14. visits' \in 0 .. MaxVisits[reader] /\ copy' \in Copies /\ copy' = copy
  BY <1>1, LeftAlone
<1>15. UNCHANGED Tp!rows
  BY <1>1
<1> QED
  BY <1>2, <1>5, <1>9, <1>10, <1>11, <1>12, <1>13, <1>14, <1>15, Visited

LEMMA FetchTopicKeepsPages ==
    ASSUME Tp!PageConstants, PageInv, Tp!FetchTopic
    PROVE  PageInv'
<1> DEFINE v == visit  w == visit'  L == Tp!Standing
           refused == v.kind = "deleted" /\ reader \notin Moderator /\ ~v.post
<1>1. /\ v.pc = "fetch" /\ UNCHANGED <<Tp!rows, visits, copy>>
      /\ w = [v EXCEPT
             !.stat1 = stat1, !.lastmod = lastmod,
             !.exact = @ /\ stat1 = Cardinality(Tp!Standing),
             !.kind = IF refused THEN "page" ELSE @,
             !.pc = IF refused THEN "fetch"
                       ELSE IF v.kind = "jump" THEN "resolve"
                       ELSE IF v.kind = "deleted" /\ reader \notin Trusted THEN "done" ELSE "meta"]
  BY TpCounts DEF Tp!FetchTopic
<1>2. VisitTyped(v) /\ v \in Tp!Visit
  BY VisitFacts DEF VisitTyped
<1>3. /\ stat1 \in Int /\ stat1 <= Cardinality(L) /\ Cardinality(L) <= Cardinality(Comment)
      /\ lastmod \in Nat /\ Cardinality(L) \in Nat /\ Cardinality(Comment) \in Nat
      /\ L \in SUBSET Comment /\ UNCHANGED Tp!rows /\ visits' \in 0 .. MaxVisits[reader]
      /\ copy' \in Copies /\ copy' = copy
  BY <1>1, LeftAlone, PageFacts, CommentsFinite
<1>4. v.kind \in {"jump", "page", "walk", "thread", "deleted"} /\ v.exact \in BOOLEAN /\ v.post \in BOOLEAN
  BY <1>2, TpCounts DEF Tp!Visit
<1>5. /\ Jumps(v, L, Tp!Is("deleted"), ignores, reader, hides) /\ Walks(v, L, ignores, hides)
      /\ Copied(v, copy, lastmod, late, reader, Listing)
  BY PageFacts
<1>6. w.pc \in {"fetch", "resolve", "done", "meta"} /\ w \in Tp!Visit
  <2> DEFINE e == v.exact /\ stat1 = Cardinality(L)
             k == IF refused THEN "page" ELSE v.kind
             p == IF refused THEN "fetch"
                  ELSE IF v.kind = "jump" THEN "resolve"
                  ELSE IF v.kind = "deleted" /\ reader \notin Trusted THEN "done" ELSE "meta"
  <2>1. w = [v EXCEPT !.stat1 = stat1, !.lastmod = lastmod, !.exact = e, !.kind = k, !.pc = p]
    BY <1>1
  <2>2. /\ e \in BOOLEAN /\ k \in {"jump", "page", "walk", "thread", "deleted"}
        /\ p \in {"fetch", "resolve", "done", "meta"}
    BY <1>4
  <2> HIDE DEF v, w, L, e, k, p
  <2> QED
    BY <1>2, <1>3, <2>1, <2>2, TpCounts DEF Tp!Visit
<1>7. /\ w.stat1 = stat1 /\ w.lastmod = lastmod /\ (w.exact <=> (v.exact /\ stat1 = Cardinality(L)))
      /\ w.at = v.at /\ w.show = v.show /\ w.list = v.list /\ w.shown = v.shown
      /\ w.target = v.target /\ w.start = v.start /\ w.seen = v.seen /\ w.moved = v.moved
      /\ w.kind = IF refused THEN "page" ELSE v.kind
      /\ w.pc = IF refused THEN "fetch"
                ELSE IF v.kind = "jump" THEN "resolve"
                ELSE IF v.kind = "deleted" /\ reader \notin Trusted THEN "done" ELSE "meta"
  BY <1>1, <1>2, TpCounts DEF Tp!Visit
<1> HIDE DEF v, w, L
<1>8. VisitTyped(w)
  <2>1. stat1 <= Cardinality(Comment)
    BY <1>3
  <2>2. w.pc = "resolve" => w.kind = "jump"
    BY <1>7
  <2>3. w.kind = "jump" => v.kind = "jump"
    BY <1>7
  <2>4. w.kind # "walk" => v.kind # "walk"
    BY <1>7
  <2> QED
    BY <1>1, <1>2, <1>6, <1>7, <2>1, <2>2, <2>3, <2>4 DEF VisitTyped
<1>9. Jumps(w, L, Tp!Is("deleted"), ignores, reader, hides)
  <2> SUFFICES ASSUME w.target # 0, ~w.moved, w.exact
               PROVE  Jumps(w, L, Tp!Is("deleted"), ignores, reader, hides)
    BY DEF Jumps
  <2>1. v.target # 0 /\ ~v.moved /\ v.exact /\ stat1 = Cardinality(L)
    BY <1>7
  <2>2. CASE v.kind = "deleted"
    <3>1. reader \in Moderator /\ ~v.show /\ v.target \in L \cup Tp!Is("deleted")
      BY <1>5, <2>1, <2>2 DEF Jumps
    <3>2. reader \in Trusted
      BY <3>1, TpFinite, TpCounts DEF Tp!PageConstants
    <3>3. w.kind = "deleted" /\ w.pc = "meta"
      BY <1>7, <2>2, <3>1, <3>2
    <3> QED
      BY <1>7, <3>1, <3>3 DEF Jumps, Loaded
  <2>3. CASE v.kind # "deleted"
    <3>1. /\ v.kind = "page" /\ ~hides /\ v.target \in L /\ v.at = Tp!PageOf(L, v.target)
          /\ (v.show <=> v.target \in Tp!Hidden(L, ignores))
      BY <1>1, <1>5, <2>1, <2>3 DEF Jumps
    <3>2. w.kind = "page" /\ w.pc = "meta"
      BY <1>7, <3>1
    <3>3. v.at \in Nat /\ v.at < Tp!Pages(Cardinality(L))
      BY <1>3, <3>1, PageExists
    <3>4. Tp!Pages(Cardinality(L)) <= Cardinality(L)
      BY <1>3, PagesCover
    <3>5. w.stat1 > 0 /\ w.at < Tp!Pages(w.stat1)
      <4>1. Tp!Pages(Cardinality(L)) \in Nat
        BY <1>3, PagesCover
      <4>2. Cardinality(L) > 0
        BY <1>3, <3>3, <3>4, <4>1
      <4> QED
        BY <1>7, <2>1, <3>3, <4>2
    <3> QED
      BY <1>7, <3>1, <3>2, <3>5 DEF Jumps, Loaded
  <2> QED
    BY <2>2, <2>3
<1>10. Walks(w, L, ignores, hides)
  <2> SUFFICES ASSUME w.kind = "walk", ~w.moved, w.exact, ~hides PROVE Walks(w, L, ignores, hides)
    BY DEF Walks
  <2>1. v.kind = "walk" /\ ~v.moved /\ v.exact /\ stat1 = Cardinality(L) /\ w.pc = "meta"
    BY <1>7
  <2>2. /\ Begins(v.start, L) /\ ~v.show
        /\ \A c \in v.start : Tp!PageOf(L, c) < v.at => c \in v.seen \cup Tp!Hidden(L, ignores)
        /\ v.at = 0 \/ v.at < Tp!Pages(Cardinality(L))
    BY <1>1, <1>5, <2>1 DEF Walks
  <2>3. Cardinality(v.start) <= Cardinality(L)
    <3>1. v.start \subseteq L /\ IsFiniteSet(L)
      BY <1>3, <2>2, CommentsFinite DEF Begins
    <3> QED
      BY <3>1, FS_Subset
  <2> QED
    BY <1>3, <1>7, <2>1, <2>2, <2>3 DEF Walks
<1>11. Spared(w, ignores)
  <2> SUFFICES ASSUME w.pc = "done" PROVE w.shown = {}
    BY DEF Spared
  <2>1. v.kind = "deleted"
    BY <1>7
  <2> QED
    BY <1>1, <1>2, <1>7, <2>1 DEF VisitTyped
<1>12. Copied(w, copy', lastmod, late, reader, Listing)
  <2>1. w.pc # "render" /\ Follows(w.lastmod, lastmod)
    BY <1>6, <1>7 DEF Follows
  <2> QED
    BY <1>3, <1>5, <1>7, <2>1 DEF Copied
<1> QED
  BY <1>3, <1>8, <1>9, <1>10, <1>11, <1>12, Visited DEF w, L

-----------------------------------------------------------------------------
(* Reading the topic *)

\* What a step of a visit starts from.
LEMMA Meanwhile ==
    ASSUME Tp!PageConstants, PageInv, UNCHANGED <<Tp!rows, visits>>
    PROVE  /\ VisitTyped(visit) /\ visit \in Tp!Visit /\ UNCHANGED Tp!rows
           /\ Jumps(visit, Tp!Standing, Tp!Is("deleted"), ignores, reader, hides)
           /\ Walks(visit, Tp!Standing, ignores, hides) /\ Spared(visit, ignores)
           /\ Copied(visit, copy, lastmod, late, reader, Listing)
           /\ Tp!Standing \in SUBSET Comment /\ Tp!Is("deleted") \in SUBSET Comment
           /\ Listing \in SUBSET Comment
           /\ Cardinality(Tp!Standing) \in Nat /\ Cardinality(Comment) \in Nat
           /\ visits' \in 0 .. MaxVisits[reader] /\ copy \in Copies
           /\ lastmod \in Nat /\ expired \in BOOLEAN /\ hides \in BOOLEAN
           /\ visit.at \in Nat /\ visit.stat1 \in Int /\ visit.lastmod \in Nat
<1>1. VisitTyped(visit) /\ visit \in Tp!Visit
  BY VisitFacts DEF VisitTyped
<1>2. /\ visit.at \in Nat /\ visit.stat1 \in Int /\ visit.lastmod \in Nat
      /\ Cardinality(Comment) \in Nat
  BY <1>1, CommentsFinite, TpCounts DEF Tp!Visit
<1> QED
  BY <1>1, <1>2, PageFacts, LeftAlone

LEMMA ReadMetaKeepsPages ==
    ASSUME Tp!PageConstants, PageInv, Tp!ReadMeta
    PROVE  PageInv'
<1> DEFINE v == visit  w == visit'  L == Tp!Standing  u == [v EXCEPT !.expired = expired, !.pc = "list"]
<1>1. /\ v.pc = "meta" /\ UNCHANGED <<Tp!rows, visits>>
      /\ \/ w = u /\ UNCHANGED copy
         \/ /\ Tp!FirstPage /\ Tp!NotModified(u) /\ w = Tp!Idle
            /\ copy' = [copy EXCEPT !.etag = u.lastmod,
                          !.modified = IF copy.etag = u.lastmod THEN @ ELSE u.lastmod]
  BY DEF Tp!ReadMeta
<1>2. /\ VisitTyped(v) /\ v \in Tp!Visit /\ UNCHANGED Tp!rows
      /\ Jumps(v, L, Tp!Is("deleted"), ignores, reader, hides) /\ Walks(v, L, ignores, hides)
      /\ Copied(v, copy, lastmod, late, reader, Listing)
      /\ L \in SUBSET Comment /\ visits' \in 0 .. MaxVisits[reader] /\ copy \in Copies
      /\ lastmod \in Nat /\ expired \in BOOLEAN /\ v.lastmod \in Nat
  BY <1>1, Meanwhile
<1>3. CASE w = u /\ UNCHANGED copy
  <2>1. w \in Tp!Visit
    BY <1>2, <1>3, TpCounts DEF Tp!Visit
  <2>2. /\ w.pc = "list" /\ w.kind = v.kind /\ w.at = v.at /\ w.show = v.show
        /\ w.stat1 = v.stat1 /\ w.list = v.list /\ w.shown = v.shown /\ w.target = v.target
        /\ w.start = v.start /\ w.seen = v.seen /\ w.exact = v.exact /\ w.moved = v.moved
        /\ w.lastmod = v.lastmod
    BY <1>2, <1>3, TpCounts DEF Tp!Visit
  <2> HIDE DEF v, w, u, L
  <2>3. VisitTyped(w)
    BY <1>1, <1>2, <2>1, <2>2 DEF VisitTyped
  <2>4. Jumps(w, L, Tp!Is("deleted"), ignores, reader, hides)
    BY <1>1, <1>2, <2>2 DEF Jumps, Loaded
  <2>5. Walks(w, L, ignores, hides)
    BY <1>1, <1>2, <2>2 DEF Walks, Loaded
  <2>6. Spared(w, ignores)
    BY <2>2 DEF Spared
  <2>7. Copied(w, copy, lastmod, late, reader, Listing)
    <3>1. v.pc \in Loaded /\ w.pc \in Loaded /\ w.pc # "render"
      BY <1>1, <2>2 DEF Loaded
    <3> QED
      BY <1>2, <2>2, <3>1 DEF Copied
  <2> QED
    BY <1>2, <1>3, <2>3, <2>4, <2>5, <2>6, <2>7, Visited DEF w, L
<1>4. CASE Tp!FirstPage /\ Tp!NotModified(u) /\ w = Tp!Idle
           /\ copy' = [copy EXCEPT !.etag = u.lastmod,
                         !.modified = IF copy.etag = u.lastmod THEN @ ELSE u.lastmod]
  <2>1. u.lastmod = v.lastmod
    BY <1>2, TpCounts DEF Tp!Visit
  <2>2. PICK cp : cp = copy
    OBVIOUS
  <2>3. PICK m \in Nat : m = v.lastmod
    BY <1>2
  <2> HIDE DEF v, w, u, L
  <2>4. cp \in Copies /\ cp # Tp!NoCopy /\ reader = Guest
        /\ (cp.etag = m \/ (cp.modified # -1 /\ Tp!Second(m) <= Tp!Second(cp.modified)))
    BY <1>2, <1>4, <2>1, <2>2, <2>3 DEF Tp!NotModified, Tp!FirstPage
  <2>5. cp.etag \in Nat /\ cp.modified \in {-1, cp.etag}
    BY <1>2, <2>2, <2>4 DEF Copied
  <2>6. PICK d : d = copy'
    OBVIOUS
  <2>7. /\ d \in Copies /\ d.etag = m /\ d.body = cp.body
        /\ d.modified = IF cp.etag = m THEN cp.modified ELSE m
    <3> DEFINE x == IF cp.etag = m THEN cp.modified ELSE m
    <3>1. d = [cp EXCEPT !.etag = m, !.modified = x]
      BY <1>4, <2>1, <2>2, <2>3, <2>6
    <3>2. x \in Int
      BY <2>4 DEF Copies
    <3> HIDE DEF x
    <3>3. d \in Copies /\ d.etag = m /\ d.body = cp.body /\ d.modified = x
      <4>1. cp \in Copies /\ m \in Int
        BY <2>3, <2>4
      <4>2. d \in Copies
        BY <3>1, <3>2, <4>1 DEF Copies
      <4>3. d.etag = m
        BY <3>1, <3>2, <4>1 DEF Copies
      <4>4. d.body = cp.body
        BY <3>1, <3>2, <4>1 DEF Copies
      <4>5. d.modified = x
        BY <3>1, <3>2, <4>1 DEF Copies
      <4> QED
        BY <4>2, <4>3, <4>4, <4>5
    <3> QED
      BY <3>3 DEF x
  <2>8. d.modified \in {-1, d.etag}
    BY <2>5, <2>7
  <2>9. ASSUME ~late PROVE Follows(m, lastmod) /\ (m = lastmod => cp.etag = lastmod /\ d.body = Tp!Slice(Listing, 0, {}))
    <3>1. v.pc \in Loaded
      BY <1>1 DEF Loaded
    <3>2. Follows(m, lastmod) /\ Follows(cp.etag, m)
          /\ (cp.etag = lastmod => cp.body = Tp!Slice(Listing, 0, {}))
      BY <1>2, <2>2, <2>3, <2>4, <2>9, <3>1 DEF Copied
    <3>3. \A x \in Nat : Tp!Second(x) \in Nat
      BY DEF Tp!Second
    <3>4. cp.etag = m
      <4> SUFFICES ASSUME cp.etag # m PROVE FALSE
        OBVIOUS
      <4>1. Tp!Second(m) <= Tp!Second(cp.etag) /\ Tp!Second(cp.etag) < Tp!Second(m)
        BY <2>4, <2>5, <3>2 DEF Follows
      <4> QED
        BY <2>5, <3>3, <4>1
    <3> QED
      BY <2>7, <3>2, <3>4
  <2>10. Copied(Tp!Idle, d, lastmod, late, reader, Listing)
    <3>1. Tp!Idle.pc \notin Loaded /\ Tp!Idle.pc # "render"
      BY IdleTyped DEF Loaded
    <3>2. d.etag \in Nat
      BY <2>7
    <3> QED
      BY <2>4, <2>7, <2>8, <2>9, <3>1, <3>2 DEF Copied
  <2>11. /\ VisitTyped(w) /\ Jumps(w, L, Tp!Is("deleted"), ignores, reader, hides)
         /\ Walks(w, L, ignores, hides) /\ Spared(w, ignores)
    BY <1>4, IdleTyped DEF Jumps, Walks, Spared
  <2> QED
    BY <1>2, <1>4, <2>6, <2>7, <2>10, <2>11, Visited DEF w, L
<1> QED
  BY <1>1, <1>3, <1>4

LEMMA ListCommentsKeepsPages ==
    ASSUME Tp!PageConstants, PageInv, Tp!ListComments
    PROVE  PageInv'
<1> DEFINE v == visit  w == visit'  L == Tp!Standing  G == Tp!Is("deleted")
           all == IF v.kind = "deleted" THEN L \cup G ELSE IF hides THEN {} ELSE L
<1>1. v.pc = "list" /\ UNCHANGED <<Tp!rows, visits>> /\ copy' = copy
      /\ w = [v EXCEPT !.pc = "render", !.list = all]
  BY DEF Tp!ListComments
<1>2. /\ VisitTyped(v) /\ v \in Tp!Visit /\ UNCHANGED Tp!rows
      /\ Jumps(v, L, G, ignores, reader, hides) /\ Walks(v, L, ignores, hides)
      /\ Copied(v, copy, lastmod, late, reader, Listing)
      /\ L \in SUBSET Comment /\ G \in SUBSET Comment
      /\ visits' \in 0 .. MaxVisits[reader] /\ copy \in Copies /\ Cardinality(L) \in Nat
  BY <1>1, Meanwhile
<1>3. all \in SUBSET Comment /\ (v.kind = "deleted" => all = L \cup G)
      /\ (v.kind # "deleted" => all = Listing /\ (~hides => all = L))
  BY <1>2 DEF Listing
<1> HIDE DEF v, w, L, G, all
<1>4. w \in Tp!Visit
  BY <1>1, <1>2, <1>3, TpCounts DEF Tp!Visit
<1>5. /\ w.pc = "render" /\ w.kind = v.kind /\ w.at = v.at /\ w.show = v.show
      /\ w.stat1 = v.stat1 /\ w.list = all /\ w.shown = v.shown /\ w.target = v.target
      /\ w.start = v.start /\ w.seen = v.seen /\ w.exact = v.exact /\ w.moved = v.moved
      /\ w.lastmod = v.lastmod
  BY <1>1, <1>2, TpCounts DEF Tp!Visit
<1>6. VisitTyped(w)
  BY <1>1, <1>2, <1>4, <1>5 DEF VisitTyped
<1>7. Begins(L, L)
  BY DEF Begins
<1>8. Jumps(w, L, G, ignores, reader, hides)
  <2> SUFFICES ASSUME w.target # 0, ~w.moved, w.exact PROVE Jumps(w, L, G, ignores, reader, hides)
    BY DEF Jumps
  <2>1. CASE v.kind = "deleted"
    BY <1>1, <1>2, <1>3, <1>5, <2>1 DEF Jumps, Loaded
  <2>2. CASE v.kind # "deleted"
    <3>1. /\ v.kind = "page" /\ ~hides /\ v.target \in L /\ v.at = Tp!PageOf(L, v.target)
          /\ (v.show <=> v.target \in Tp!Hidden(L, ignores)) /\ v.stat1 > 0 /\ v.at < Tp!Pages(v.stat1)
      BY <1>1, <1>2, <1>5, <2>2 DEF Jumps, Loaded
    <3>2. w.list = L
      BY <1>3, <1>5, <2>2, <3>1
    <3> QED
      BY <1>5, <1>7, <3>1, <3>2 DEF Jumps, Loaded
  <2> QED
    BY <2>1, <2>2
<1>9. Walks(w, L, ignores, hides)
  <2> SUFFICES ASSUME w.kind = "walk", ~w.moved, w.exact, ~hides PROVE Walks(w, L, ignores, hides)
    BY DEF Walks
  <2>1. w.list = L
    BY <1>3, <1>5
  <2>2. v.start \subseteq L
    BY <1>2, <1>5 DEF Walks, Begins
  <2> QED
    BY <1>1, <1>2, <1>5, <1>7, <2>1, <2>2 DEF Walks, Loaded
<1>10. Spared(w, ignores)
  BY <1>5 DEF Spared
<1>11. Copied(w, copy, lastmod, late, reader, Listing)
  <2>1. v.pc \in Loaded /\ w.pc \in Loaded /\ (v.kind # "deleted" => w.list = Listing)
    BY <1>1, <1>3, <1>5 DEF Loaded
  <2> QED
    BY <1>2, <1>5, <2>1 DEF Copied
<1> QED
  BY <1>1, <1>2, <1>6, <1>8, <1>9, <1>10, <1>11, Visited DEF w, L, G

LEMMA RedirectKeepsPages ==
    ASSUME Tp!PageConstants, PageInv, Tp!RedirectToLast
    PROVE  PageInv'
<1> DEFINE v == visit  w == visit'  L == Tp!Standing  G == Tp!Is("deleted")
<1>1. /\ v.pc = "render" /\ v.kind \in {"page", "walk"} /\ Tp!Beyond(v)
      /\ UNCHANGED <<Tp!rows, visits>> /\ copy' = copy
      /\ w = [v EXCEPT !.pc = "fetch", !.at = Tp!LastPage(v), !.show = FALSE]
  BY DEF Tp!RedirectToLast
<1>2. /\ VisitTyped(v) /\ v \in Tp!Visit /\ UNCHANGED Tp!rows
      /\ Jumps(v, L, G, ignores, reader, hides) /\ Walks(v, L, ignores, hides)
      /\ Copied(v, copy, lastmod, late, reader, Listing)
      /\ Cardinality(Comment) \in Nat /\ v.at \in Nat /\ v.stat1 \in Int
      /\ visits' \in 0 .. MaxVisits[reader] /\ copy \in Copies
  BY <1>1, Meanwhile
<1> HIDE DEF v, w, L, G
<1>3. Tp!LastPage(v) \in 0 .. Cardinality(Comment)
  <2>1. CASE v.stat1 > 0
    <3>1. /\ v.stat1 \in Nat /\ v.stat1 <= Cardinality(Comment)
          /\ Tp!Pages(v.stat1) \in Nat /\ Tp!Pages(v.stat1) <= v.stat1 /\ Tp!Pages(v.stat1) > 0
      BY <1>2, <2>1, PagesCover DEF VisitTyped
    <3>2. Tp!LastPage(v) = Tp!Pages(v.stat1) - 1
      BY <2>1 DEF Tp!LastPage
    <3> QED
      BY <1>2, <3>1, <3>2
  <2>2. CASE ~(v.stat1 > 0)
    BY <1>2, <2>2 DEF Tp!LastPage
  <2> QED
    BY <2>1, <2>2
<1>4. w \in Tp!Visit
  BY <1>1, <1>2, <1>3, TpCounts DEF Tp!Visit
<1>5. /\ w.pc = "fetch" /\ w.kind = v.kind /\ w.at = Tp!LastPage(v) /\ ~w.show
      /\ w.stat1 = v.stat1 /\ w.list = v.list /\ w.shown = v.shown /\ w.target = v.target
      /\ w.start = v.start /\ w.seen = v.seen /\ w.exact = v.exact /\ w.moved = v.moved
      /\ w.lastmod = v.lastmod
  BY <1>1, <1>2, TpCounts DEF Tp!Visit
<1>6. VisitTyped(w)
  BY <1>1, <1>2, <1>4, <1>5 DEF VisitTyped
\* A page that is there is not beyond the last.
<1>7. v.at = 0 \/ v.at < Tp!Pages(v.stat1) => ~(v.stat1 > 0)
  <2> SUFFICES ASSUME v.at = 0 \/ v.at < Tp!Pages(v.stat1), v.stat1 > 0 PROVE FALSE
    OBVIOUS
  <2>1. Tp!Pages(v.stat1) \in Nat
    <3>1. v.stat1 \in Nat
      BY <1>2
    <3> QED
      BY <3>1, PagesCover
  <2>2. v.at > 0 /\ v.at >= Tp!Pages(v.stat1)
    BY <1>1 DEF Tp!Beyond
  <2> QED
    BY <1>2, <2>1, <2>2
<1>8. v.at > 0
  BY <1>1 DEF Tp!Beyond
<1>9. Jumps(w, L, G, ignores, reader, hides)
  <2> SUFFICES ASSUME w.target # 0, ~w.moved, w.exact PROVE FALSE
    BY DEF Jumps
  <2>1. v.stat1 > 0 /\ v.at < Tp!Pages(v.stat1)
    BY <1>1, <1>2, <1>5 DEF Jumps, Loaded
  <2> QED
    BY <1>7, <2>1
<1>10. Walks(w, L, ignores, hides)
  <2> SUFFICES ASSUME w.kind = "walk", ~w.moved, w.exact, ~hides PROVE FALSE
    BY DEF Walks
  <2>1. (v.at = 0 \/ v.at < Tp!Pages(v.stat1)) /\ Cardinality(v.start) <= v.stat1
    BY <1>1, <1>2, <1>5 DEF Walks, Loaded
  <2>2. Cardinality(v.start) \in Nat
    BY <1>2, CommentsFinite, TpCounts DEF Tp!Visit
  <2>3. v.stat1 \in Nat /\ Tp!Pages(v.stat1) \in Nat /\ Tp!Pages(v.stat1) <= v.stat1
    <3>1. v.stat1 \in Nat
      BY <1>2, <2>1, <2>2
    <3> QED
      BY <3>1, PagesCover
  <2> QED
    BY <1>2, <1>7, <1>8, <2>1, <2>3
<1>11. Spared(w, ignores)
  BY <1>5 DEF Spared
<1>12. Copied(w, copy, lastmod, late, reader, Listing)
  <2>1. w.pc \notin Loaded /\ w.pc # "render"
    BY <1>5 DEF Loaded
  <2> QED
    BY <1>2, <2>1 DEF Copied
<1> QED
  BY <1>1, <1>2, <1>6, <1>9, <1>10, <1>11, <1>12, Visited DEF w, L, G

-----------------------------------------------------------------------------
(* Jumping *)

LEMMA JumpFilterKeepsPages ==
    ASSUME Tp!PageConstants, PageInv, Tp!JumpFilter
    PROVE  PageInv'
<1> DEFINE v == visit  w == visit'  L == Tp!Standing  G == Tp!Is("deleted")
           s == v.target \in Tp!Hidden(v.list, ignores)
<1>1. /\ v.pc = "filter" /\ UNCHANGED <<Tp!rows, visits>> /\ copy' = copy
      /\ w = [v EXCEPT !.pc = "fetch", !.show = s]
  BY DEF Tp!JumpFilter
<1>2. /\ VisitTyped(v) /\ v \in Tp!Visit /\ UNCHANGED Tp!rows
      /\ Jumps(v, L, G, ignores, reader, hides)
      /\ Copied(v, copy, lastmod, late, reader, Listing)
      /\ L \in SUBSET Comment /\ visits' \in 0 .. MaxVisits[reader] /\ copy \in Copies
  BY <1>1, Meanwhile
<1>3. s \in BOOLEAN
  OBVIOUS
<1>4. w \in Tp!Visit
  <2> HIDE DEF v, w, L, G, s
  <2> QED
    BY <1>1, <1>2, <1>3, TpCounts DEF Tp!Visit
<1>5. /\ w.pc = "fetch" /\ w.kind = v.kind /\ w.at = v.at /\ w.show = s
      /\ w.stat1 = v.stat1 /\ w.list = v.list /\ w.shown = v.shown /\ w.target = v.target
      /\ w.exact = v.exact /\ w.moved = v.moved
  <2> HIDE DEF v, w, L, G, s
  <2> QED
    BY <1>1, <1>2, TpCounts DEF Tp!Visit
<1>6. v.kind = "page" /\ v.list \in SUBSET Comment
  BY <1>1, <1>2, TpCounts DEF VisitTyped, Tp!Visit
<1> HIDE DEF v, w, L, G
<1>7. VisitTyped(w)
  BY <1>1, <1>2, <1>4, <1>5, <1>6 DEF VisitTyped
<1>8. Jumps(w, L, G, ignores, reader, hides)
  <2> SUFFICES ASSUME w.target # 0, ~w.moved, w.exact PROVE Jumps(w, L, G, ignores, reader, hides)
    BY DEF Jumps
  <2>1. /\ ~hides /\ v.target \in L /\ v.at = Tp!PageOf(L, v.target)
        /\ Begins(v.list, L) /\ v.target \in v.list
    BY <1>1, <1>2, <1>5, <1>6 DEF Jumps
  <2>2. v.target \in Tp!Hidden(v.list, ignores) <=> v.target \in Tp!Hidden(L, ignores)
    BY <1>2, <1>6, <2>1, HiddenStays
  <2>3. w.pc \notin Loaded
    BY <1>5 DEF Loaded
  <2> QED
    BY <1>5, <1>6, <2>1, <2>2, <2>3 DEF Jumps
<1>9. Walks(w, L, ignores, hides) /\ Spared(w, ignores)
  BY <1>5, <1>6 DEF Walks, Spared
<1>10. Copied(w, copy, lastmod, late, reader, Listing)
  <2>1. w.pc \notin Loaded /\ w.pc # "render"
    BY <1>5 DEF Loaded
  <2> QED
    BY <1>2, <2>1 DEF Copied
<1> QED
  BY <1>1, <1>2, <1>7, <1>8, <1>9, <1>10, Visited DEF w, L, G

LEMMA LeastOf ==
    ASSUME NEW S \in SUBSET Nat, S # {}
    PROVE  Tp!Least(S) \in S
<1>1. PICK x \in S : \A y \in S : ~(<<y, x>> \in OpToRel(<, Nat))
  BY WFMin, NatLessThanWellFounded
<1>2. \A y \in S : x <= y
  <2>1. \A y \in S : ~(y < x)
    BY <1>1 DEF OpToRel
  <2>2. x \in Nat /\ \A y \in S : y \in Nat
    BY <1>1
  <2> QED
    BY <2>1, <2>2
<1> QED
  BY <1>2 DEF Tp!Least

LEMMA GreatestOf ==
    ASSUME NEW n \in Nat, NEW S \in SUBSET (0 .. n), S # {}
    PROVE  Tp!Greatest(S) \in S
<1> DEFINE T == {k \in Nat : n - k \in S}
<1>1. T # {}
  <2>1. PICK c \in S : TRUE
    OBVIOUS
  <2>2. n - c \in Nat /\ n - (n - c) = c
    OBVIOUS
  <2> QED
    BY <2>1, <2>2
<1>2. PICK x \in T : \A y \in T : ~(<<y, x>> \in OpToRel(<, Nat))
  BY <1>1, WFMin, NatLessThanWellFounded
<1>3. \A y \in T : x <= y
  <2>1. \A y \in T : ~(y < x)
    BY <1>2 DEF OpToRel
  <2>2. x \in Nat /\ \A y \in T : y \in Nat
    BY <1>2
  <2> QED
    BY <2>1, <2>2
<1>4. ASSUME NEW d \in S PROVE n - x >= d
  <2>1. n - d \in T
    <3>1. d \in 0 .. n /\ n - d \in Nat /\ n - (n - d) = d
      OBVIOUS
    <3> QED
      BY <3>1
  <2>2. x <= n - d /\ x \in Nat /\ d \in Nat
    BY <1>3, <2>1
  <2> QED
    BY <2>2
<1>5. n - x \in S
  OBVIOUS
<1> QED
  BY <1>4, <1>5 DEF Tp!Greatest

LEMMA ResolveKeepsPages ==
    ASSUME Tp!PageConstants, PageInv, Tp!Resolve
    PROVE  PageInv'
<1> DEFINE v == visit  w == visit'  L == Tp!Standing  G == Tp!Is("deleted")
           list == IF hides THEN {} ELSE L
           after == {c \in list : c > v.at}
           found == IF v.at \in list THEN v.at
                    ELSE IF v.skip /\ list # {}
                         THEN IF after # {} THEN Tp!Least(after) ELSE Tp!Greatest(list)
                    ELSE 0
<1>1. /\ v.pc = "resolve" /\ UNCHANGED <<Tp!rows, visits>> /\ copy' = copy
      /\ w = IF found # 0
             THEN [v EXCEPT !.pc = "filter", !.list = list, !.target = found,
                            !.kind = "page", !.at = Tp!JumpPage(list, found)]
             ELSE IF v.skip /\ list = {} THEN [v EXCEPT !.pc = "fetch", !.kind = "page", !.at = 0]
             ELSE IF reader \in Moderator /\ v.at \in L \cup G
             THEN [v EXCEPT !.pc = "fetch", !.kind = "deleted", !.target = v.at, !.at = 0]
             ELSE [v EXCEPT !.pc = "done"]
  BY DEF Tp!Resolve
<1>2. /\ VisitTyped(v) /\ v \in Tp!Visit /\ UNCHANGED Tp!rows
      /\ Jumps(v, L, G, ignores, reader, hides)
      /\ Copied(v, copy, lastmod, late, reader, Listing)
      /\ L \in SUBSET Comment /\ G \in SUBSET Comment
      /\ visits' \in 0 .. MaxVisits[reader] /\ copy \in Copies /\ Cardinality(Comment) \in Nat
  BY <1>1, Meanwhile
<1>3. list \in SUBSET Comment /\ (list # {} => ~hides /\ list = L)
  BY <1>2
<1>4. found # 0 => found \in list
  <2>1. list \in SUBSET Nat /\ list \in SUBSET (0 .. Cardinality(Comment))
    BY <1>3, CommentsFinite
  <2>2. after # {} => Tp!Least(after) \in list
    BY <2>1, LeastOf
  <2>3. list # {} => Tp!Greatest(list) \in list
    BY <1>2, <2>1, GreatestOf
  <2> HIDE DEF list, after
  <2> QED
    BY <2>2, <2>3
<1>5. v.kind = "jump" /\ ~v.show /\ v.shown = {} /\ v.pc \notin Loaded
  BY <1>1, <1>2 DEF VisitTyped, Loaded
<1> HIDE DEF v, w, L, G, list, found
\* A jump has no target before.
<1>6. v.target # 0 => v.moved \/ ~v.exact
  BY <1>1, <1>2, <1>5 DEF Jumps
<1>7. ASSUME w.pc # "render", w.pc \notin Loaded
      PROVE  Copied(w, copy, lastmod, late, reader, Listing)
  BY <1>2, <1>7 DEF Copied
<1>8. ASSUME w.kind # "walk" PROVE Walks(w, L, ignores, hides)
  BY <1>8 DEF Walks
<1>9. ASSUME VisitTyped(w), w.pc \notin Loaded, w.kind # "walk",
             w.pc # "render", w.pc # "done" \/ w.shown = {},
             Jumps(w, L, G, ignores, reader, hides)
      PROVE  PageInv'
  <2>1. Spared(w, ignores)
    BY <1>9 DEF Spared
  <2> QED
    BY <1>1, <1>2, <1>7, <1>8, <1>9, <2>1, Visited DEF w, L, G
<1>10. CASE found # 0
  <2>1. list = L /\ ~hides /\ found \in L /\ found \in Comment
    BY <1>2, <1>3, <1>4, <1>10
  <2>2. PICK at \in 0 .. Cardinality(Comment) : at = Tp!PageOf(L, found)
    <3>1. Tp!PageOf(L, found) \in Nat /\ Tp!PageOf(L, found) < Tp!Pages(Cardinality(L))
      BY <1>2, <2>1, PageExists
    <3>2. Cardinality(L) \in Nat /\ Cardinality(L) <= Cardinality(Comment)
      BY <1>2, CommentsFinite
    <3>3. Tp!Pages(Cardinality(L)) \in Nat /\ Tp!Pages(Cardinality(L)) <= Cardinality(L)
      BY <3>2, PagesCover
    <3>4. Tp!PageOf(L, found) \in 0 .. Cardinality(Comment)
      BY <1>2, <3>1, <3>2, <3>3
    <3> QED
      BY <3>4
  <2>3. w = [v EXCEPT !.pc = "filter", !.list = L, !.target = found, !.kind = "page", !.at = at]
    BY <1>1, <1>10, <2>1, <2>2 DEF Tp!JumpPage
  <2>4. w \in Tp!Visit
    BY <1>2, <2>1, <2>2, <2>3, TpCounts DEF Tp!Visit
  <2>5. /\ w.pc = "filter" /\ w.kind = "page" /\ w.at = at /\ w.show = v.show /\ w.list = L
        /\ w.target = found /\ w.shown = v.shown /\ w.stat1 = v.stat1
    BY <1>2, <2>3, TpCounts DEF Tp!Visit
  <2>6. w.pc \notin Loaded
    BY <2>5 DEF Loaded
  <2>7. VisitTyped(w)
    BY <1>2, <1>5, <2>1, <2>4, <2>5 DEF VisitTyped
  <2>8. Jumps(w, L, G, ignores, reader, hides)
    <3>1. Begins(L, L)
      BY DEF Begins
    <3> QED
      BY <2>1, <2>2, <2>5, <2>6, <3>1 DEF Jumps
  <2> QED
    BY <1>9, <2>5, <2>6, <2>7, <2>8
<1>11. CASE found = 0 /\ v.skip /\ list = {}
  <2>1. w = [v EXCEPT !.pc = "fetch", !.kind = "page", !.at = 0]
    BY <1>1, <1>11
  <2>2. w \in Tp!Visit
    <3>1. 0 \in 0 .. Cardinality(Comment) /\ v \in Tp!Visit
      BY <1>2
    <3> QED
      BY <2>1, <3>1, TpCounts DEF Tp!Visit
  <2>3. /\ w.pc = "fetch" /\ w.kind = "page" /\ w.show = v.show /\ w.shown = v.shown
        /\ w.stat1 = v.stat1 /\ w.target = v.target /\ w.moved = v.moved /\ w.exact = v.exact
    BY <1>2, <2>1, TpCounts DEF Tp!Visit
  <2>4. w.pc \notin Loaded
    BY <2>3 DEF Loaded
  <2>5. VisitTyped(w)
    BY <1>2, <1>5, <2>2, <2>3 DEF VisitTyped
  <2>6. Jumps(w, L, G, ignores, reader, hides)
    BY <1>6, <2>3 DEF Jumps
  <2> QED
    BY <1>9, <2>3, <2>4, <2>5, <2>6
<1>12. CASE found = 0 /\ ~(v.skip /\ list = {}) /\ reader \in Moderator /\ v.at \in L \cup G
  <2>1. w = [v EXCEPT !.pc = "fetch", !.kind = "deleted", !.target = v.at, !.at = 0]
    BY <1>1, <1>12
  <2>2. w \in Tp!Visit
    <3>1. 0 \in 0 .. Cardinality(Comment) /\ v \in Tp!Visit /\ v.at \in Comment \cup {0}
      BY <1>2, <1>12
    <3> QED
      BY <2>1, <3>1, TpCounts DEF Tp!Visit
  <2>3. /\ w.pc = "fetch" /\ w.kind = "deleted" /\ w.show = v.show /\ w.shown = v.shown
        /\ w.stat1 = v.stat1 /\ w.target = v.at
    BY <1>2, <2>1, TpCounts DEF Tp!Visit
  <2>4. w.pc \notin Loaded
    BY <2>3 DEF Loaded
  <2>5. VisitTyped(w)
    BY <1>2, <1>5, <2>2, <2>3 DEF VisitTyped
  <2>6. Jumps(w, L, G, ignores, reader, hides)
    BY <1>5, <1>12, <2>3 DEF Jumps
  <2> QED
    BY <1>9, <2>3, <2>4, <2>5, <2>6
<1>13. CASE found = 0 /\ ~(v.skip /\ list = {}) /\ ~(reader \in Moderator /\ v.at \in L \cup G)
  <2>1. w = [v EXCEPT !.pc = "done"]
    BY <1>1, <1>13
  <2>2. w \in Tp!Visit
    BY <1>2, <2>1, TpCounts DEF Tp!Visit
  <2>3. /\ w.pc = "done" /\ w.kind = v.kind /\ w.show = v.show /\ w.shown = v.shown
        /\ w.stat1 = v.stat1 /\ w.target = v.target /\ w.moved = v.moved /\ w.exact = v.exact
    BY <1>2, <2>1, TpCounts DEF Tp!Visit
  <2>4. w.pc \notin Loaded
    BY <2>3 DEF Loaded
  <2>5. VisitTyped(w)
    BY <1>2, <1>5, <2>2, <2>3 DEF VisitTyped
  <2>6. Jumps(w, L, G, ignores, reader, hides)
    BY <1>6, <2>3 DEF Jumps
  <2> QED
    BY <1>5, <1>9, <2>3, <2>4, <2>5, <2>6
<1> QED
  BY <1>10, <1>11, <1>12, <1>13

-----------------------------------------------------------------------------
(* The page *)

LEMMA RenderKeepsPages ==
    ASSUME Tp!PageConstants, PageInv, Tp!Render
    PROVE  PageInv'
<1> DEFINE v == visit  w == visit'  L == Tp!Standing  G == Tp!Is("deleted")
           paged  == v.kind \in {"page", "walk"}
           hidden == IF v.show THEN {} ELSE Tp!Hidden(v.list, ignores)
           shown  == IF v.kind = "deleted" THEN v.list \ hidden
                     ELSE IF v.kind = "thread" THEN (Tp!Below(v.list, {v.at}) \cap v.list) \ hidden
                     ELSE Tp!Slice(v.list, v.at, hidden)
           pages  == Tp!Pages(IF v.stat1 > 0 THEN v.stat1 ELSE 0)
           more   == v.kind = "walk" /\ v.at + 1 < pages
<1>1. /\ v.pc = "render" /\ ~(paged /\ Tp!Beyond(v)) /\ UNCHANGED <<Tp!rows, visits>>
      /\ w = [v EXCEPT !.shown = shown, !.seen = @ \cup shown,
                       !.at = IF more THEN @ + 1 ELSE @,
                       !.pc = IF more THEN "fetch" ELSE "done"]
      /\ copy' = IF ~Tp!FirstPage THEN copy
                 ELSE IF ~v.expired THEN Tp!NoCopy
                 ELSE [etag |-> v.lastmod, body |-> shown,
                       modified |-> IF copy = Tp!NoCopy THEN -1 ELSE v.lastmod]
  BY DEF Tp!Render
<1>2. /\ VisitTyped(v) /\ v \in Tp!Visit /\ UNCHANGED Tp!rows
      /\ Jumps(v, L, G, ignores, reader, hides) /\ Walks(v, L, ignores, hides)
      /\ Copied(v, copy, lastmod, late, reader, Listing)
      /\ L \in SUBSET Comment /\ G \in SUBSET Comment /\ Listing \in SUBSET Comment
      /\ visits' \in 0 .. MaxVisits[reader] /\ copy \in Copies /\ Cardinality(Comment) \in Nat
      /\ v.at \in Nat /\ v.stat1 \in Int /\ v.lastmod \in Nat
  BY <1>1, Meanwhile
<1>3. v.list \in SUBSET Comment /\ v.seen \in SUBSET Comment /\ v.start \in SUBSET Comment
      /\ v.at \in 0 .. Cardinality(Comment) /\ v.stat1 <= Cardinality(Comment)
      /\ v.kind \in {"jump", "page", "walk", "thread", "deleted"}
  BY <1>2, TpCounts DEF VisitTyped, Tp!Visit
<1>4. hidden = (IF v.show THEN {} ELSE Tp!Hidden(v.list, ignores)) /\ shown \cap hidden = {}
      /\ shown \in SUBSET v.list /\ shown \in SUBSET Comment
  BY <1>3 DEF Tp!Slice
\* What stands on the page asked for is shown, or hidden.
<1>5. /\ v.kind = "deleted" => shown = v.list \ hidden
      /\ v.kind \in {"page", "walk"} => shown = Tp!Slice(v.list, v.at, hidden)
  OBVIOUS
<1>6. \A c \in v.list : v.kind \in {"page", "walk"} /\ Tp!PageOf(v.list, c) = v.at => c \in shown \cup hidden
  BY <1>5 DEF Tp!Slice
<1>7. pages \in Nat /\ pages <= Cardinality(Comment)
  <2>1. PICK n \in Nat : n = IF v.stat1 > 0 THEN v.stat1 ELSE 0
    BY <1>2
  <2>2. n <= Cardinality(Comment)
    BY <1>2, <1>3, <2>1
  <2>3. Tp!Pages(n) \in Nat /\ Tp!Pages(n) <= n
    BY <2>1, PagesCover
  <2> QED
    BY <1>2, <2>1, <2>2, <2>3
<1>8. more \in BOOLEAN /\ (more => v.kind = "walk" /\ v.at + 1 < pages)
  OBVIOUS
<1>9. ~more => v.kind # "walk" \/ pages <= v.at + 1
  BY <1>2, <1>7
<1>10. PICK at \in 0 .. Cardinality(Comment) : at = IF more THEN v.at + 1 ELSE v.at
  <2>1. v.at + 1 < pages => v.at + 1 \in 0 .. Cardinality(Comment)
    BY <1>2, <1>7
  <2> HIDE DEF v, pages
  <2> QED
    BY <1>3, <2>1
<1>11. PICK p \in {"fetch", "done"} : p = IF more THEN "fetch" ELSE "done"
  OBVIOUS
<1>12. w = [v EXCEPT !.shown = shown, !.seen = v.seen \cup shown, !.at = at, !.pc = p]
  BY <1>1, <1>10, <1>11
<1>13. copy' = IF ~Tp!FirstPage THEN copy
               ELSE IF ~v.expired THEN Tp!NoCopy
               ELSE [etag |-> v.lastmod, body |-> shown,
                     modified |-> IF copy = Tp!NoCopy THEN -1 ELSE v.lastmod]
  BY <1>1
<1>14. ASSUME v.kind \in {"page", "walk"} PROVE v.at > 0 => v.at < pages
  <2>1. ~Tp!Beyond(v)
    BY <1>1, <1>14
  <2> HIDE DEF v
  <2> QED
    BY <1>2, <1>7, <2>1 DEF Tp!Beyond
<1>15. v.stat1 > 0 => pages = Tp!Pages(v.stat1)
  OBVIOUS
<1> HIDE DEF v, w, L, G, hidden, shown, more, pages
<1>16. w \in Tp!Visit
  <2>1. v.seen \cup shown \in SUBSET Comment
    BY <1>3, <1>4
  <2> QED
    BY <1>2, <1>4, <1>10, <1>11, <1>12, <2>1, TpCounts DEF Tp!Visit
<1>17. /\ w.pc = p /\ w.kind = v.kind /\ w.at = at /\ w.show = v.show /\ w.list = v.list
       /\ w.stat1 = v.stat1 /\ w.shown = shown /\ w.target = v.target /\ w.start = v.start
       /\ w.seen = v.seen \cup shown /\ w.exact = v.exact /\ w.moved = v.moved
  BY <1>2, <1>12, TpCounts DEF Tp!Visit
<1>18. w.pc \notin Loaded /\ w.pc # "render" /\ w.pc # "filter" /\ w.pc # "resolve"
       /\ (w.pc = "done" <=> ~more) /\ (w.pc = "fetch" <=> more)
  BY <1>8, <1>11, <1>17 DEF Loaded
<1>19. VisitTyped(w)
  BY <1>2, <1>8, <1>16, <1>17, <1>18 DEF VisitTyped
<1>20. Jumps(w, L, G, ignores, reader, hides)
  <2> SUFFICES ASSUME w.target # 0, ~w.moved, w.exact PROVE Jumps(w, L, G, ignores, reader, hides)
    BY DEF Jumps
  <2>1. CASE v.kind = "deleted"
    <3>1. reader \in Moderator /\ ~v.show /\ v.target \in L \cup G /\ v.target \in v.list
      BY <1>1, <1>2, <1>17, <2>1 DEF Jumps
    <3>2. v.target \in shown \/ v.target \in Tp!Hidden(v.list, ignores)
      BY <1>4, <1>5, <2>1, <3>1
    <3>3. w.pc = "done"
      BY <1>8, <1>18, <2>1
    <3> QED
      BY <1>17, <2>1, <3>1, <3>2, <3>3 DEF Jumps, Loaded
  <2>2. CASE v.kind # "deleted"
    <3>1. /\ v.kind = "page" /\ ~hides /\ v.target \in L /\ v.at = Tp!PageOf(L, v.target)
          /\ Begins(v.list, L) /\ v.target \in v.list
          /\ (v.show <=> v.target \in Tp!Hidden(L, ignores))
      BY <1>1, <1>2, <1>17, <2>2 DEF Jumps, Loaded
    <3>2. Tp!PageOf(v.list, v.target) = v.at
      BY <3>1, PageStays
    <3>3. v.target \in Tp!Hidden(v.list, ignores) <=> v.target \in Tp!Hidden(L, ignores)
      BY <1>2, <1>3, <3>1, HiddenStays
    <3>4. v.target \notin hidden
      BY <1>4, <3>1, <3>3
    <3>5. v.target \in shown
      BY <1>6, <3>1, <3>2, <3>4
    <3>6. w.pc = "done" /\ at = v.at
      BY <1>8, <1>10, <1>18, <3>1
    <3> QED
      BY <1>17, <1>18, <3>1, <3>5, <3>6 DEF Jumps
  <2> QED
    BY <2>1, <2>2
<1>21. Walks(w, L, ignores, hides)
  <2> SUFFICES ASSUME w.kind = "walk", ~w.moved, w.exact, ~hides PROVE Walks(w, L, ignores, hides)
    BY DEF Walks
  <2>1. /\ Begins(v.start, L) /\ ~v.show
        /\ \A c \in v.start : Tp!PageOf(L, c) < v.at => c \in v.seen \cup Tp!Hidden(L, ignores)
        /\ Cardinality(v.start) <= v.stat1 /\ v.stat1 <= Cardinality(L)
        /\ Begins(v.list, L) /\ v.start \subseteq v.list
    BY <1>1, <1>2, <1>17 DEF Walks, Loaded
  <2>2. ASSUME NEW c \in v.start, Tp!PageOf(L, c) = v.at PROVE c \in w.seen \cup Tp!Hidden(L, ignores)
    <3>1. c \in v.list /\ Tp!PageOf(v.list, c) = v.at
      BY <2>1, <2>2, PageStays
    <3>2. c \in shown \/ c \in Tp!Hidden(v.list, ignores)
      BY <1>4, <1>6, <1>17, <2>1, <3>1
    <3>3. c \in Tp!Hidden(v.list, ignores) => c \in Tp!Hidden(L, ignores)
      BY <1>2, <1>3, <2>1, <3>1, HiddenStays
    <3> QED
      BY <1>17, <3>2, <3>3
  <2>3. ASSUME NEW c \in v.start
        PROVE  Tp!PageOf(L, c) \in Nat /\ Tp!PageOf(L, c) < Tp!Pages(Cardinality(v.start)) /\ v.stat1 > 0
               /\ Tp!PageOf(L, c) < pages
    <3>1. Tp!PageOf(L, c) = Tp!PageOf(v.start, c)
      BY <2>1, PageStays
    <3>2. Tp!PageOf(v.start, c) \in Nat /\ Tp!PageOf(v.start, c) < Tp!Pages(Cardinality(v.start))
      BY <1>3, PageExists
    <3>3. Cardinality(v.start) \in Nat
      BY <1>3, CommentsFinite
    <3>4. Tp!Pages(Cardinality(v.start)) \in Nat /\ Tp!Pages(Cardinality(v.start)) <= Cardinality(v.start)
      BY <3>3, PagesCover
    <3>5. v.stat1 \in Nat /\ v.stat1 > 0
      BY <1>2, <2>1, <3>2, <3>3, <3>4
    <3>6. Tp!Pages(Cardinality(v.start)) <= Tp!Pages(v.stat1) /\ Tp!Pages(v.stat1) \in Nat
      BY <2>1, <3>3, <3>5, PagesCover
    <3> QED
      BY <1>15, <3>1, <3>2, <3>4, <3>5, <3>6
  <2>4. \A c \in v.start : Tp!PageOf(L, c) < v.at => c \in w.seen \cup Tp!Hidden(L, ignores)
    BY <1>17, <2>1
  <2>5. CASE more
    <3>1. at = v.at + 1 /\ w.pc = "fetch"
      BY <1>10, <1>18, <2>5
    <3>2. ASSUME NEW c \in v.start, Tp!PageOf(L, c) < w.at PROVE c \in w.seen \cup Tp!Hidden(L, ignores)
      <4>1. Tp!PageOf(L, c) < v.at \/ Tp!PageOf(L, c) = v.at
        BY <1>2, <1>17, <2>3, <3>1, <3>2
      <4> QED
        BY <2>2, <2>4, <4>1
    <3>3. w.at < Tp!Pages(Cardinality(L))
      <4>1. Cardinality(v.start) \in Nat /\ Cardinality(L) \in Nat
        BY <1>2, <1>3, CommentsFinite
      <4>2. v.stat1 \in Nat
        BY <1>2, <2>1, <4>1
      <4>3. Tp!Pages(v.stat1) <= Tp!Pages(Cardinality(L)) /\ Tp!Pages(v.stat1) \in Nat /\ Tp!Pages(Cardinality(L)) \in Nat
        BY <2>1, <4>1, <4>2, PagesCover
      <4>4. pages = Tp!Pages(v.stat1)
        BY <4>2 DEF pages
      <4>5. w.at < pages /\ w.at \in Nat
        BY <1>2, <1>8, <1>17, <2>5, <3>1
      <4> QED
        BY <4>3, <4>4, <4>5
    <3> QED
      BY <1>17, <1>18, <2>1, <3>1, <3>2, <3>3 DEF Walks
  <2>6. CASE ~more
    <3>1. w.pc = "done" /\ pages <= v.at + 1
      BY <1>9, <1>17, <1>18, <2>6
    <3>2. ASSUME NEW c \in v.start PROVE c \in w.seen \cup Tp!Hidden(L, ignores)
      <4>1. Tp!PageOf(L, c) < v.at \/ Tp!PageOf(L, c) = v.at
        BY <1>2, <1>7, <2>3, <3>1
      <4> QED
        BY <2>2, <2>4, <4>1
    <3> QED
      BY <1>17, <1>18, <2>1, <3>1, <3>2 DEF Walks
  <2> QED
    BY <2>5, <2>6
<1>22. Spared(w, ignores)
  BY <1>4, <1>17 DEF Spared
<1>23. copy' \in Copies /\ Copied(w, copy', lastmod, late, reader, Listing)
  <2>1. CASE ~Tp!FirstPage
    <3>1. copy' = copy
      BY <1>13, <2>1
    <3> QED
      BY <1>2, <1>18, <3>1 DEF Copied
  <2>2. CASE Tp!FirstPage /\ ~v.expired
    <3>1. copy' = Tp!NoCopy
      BY <1>13, <2>2
    <3>2. Tp!NoCopy \in Copies
      BY DEF Tp!NoCopy, Copies
    <3> QED
      BY <1>18, <3>1, <3>2 DEF Copied
  <2>3. CASE Tp!FirstPage /\ v.expired
    <3>1. PICK x : x = IF copy = Tp!NoCopy THEN -1 ELSE v.lastmod
      OBVIOUS
    <3>2. x \in {-1, v.lastmod} /\ x \in Int
      BY <1>2, <3>1
    <3>3. PICK d : d = copy'
      OBVIOUS
    <3>4. d = [etag |-> v.lastmod, body |-> shown, modified |-> x]
      BY <1>13, <2>3, <3>1, <3>3
    <3>5. d \in Copies
      BY <1>2, <1>4, <3>2, <3>4 DEF Copies
    <3>6. d.etag = v.lastmod /\ d.modified = x /\ d.body = shown
      BY <3>4
    <3>7. reader = Guest /\ v.kind \in {"page", "walk"} /\ v.at = 0
      BY <2>3 DEF Tp!FirstPage, v
    <3>8. hidden = {}
      <4>1. ignores = {}
        BY <3>7, PageFacts DEF PageTyped
      <4>2. Tp!Hidden(v.list, {}) = {}
        BY <1>3, NothingHidden
      <4> QED
        BY <1>4, <4>1, <4>2
    <3>9. shown = Tp!Slice(v.list, 0, {})
      BY <1>5, <3>7, <3>8
    <3>10. ASSUME ~late
           PROVE  Follows(v.lastmod, lastmod) /\ (v.lastmod = lastmod => v.list = Listing)
      <4>1. v.pc \in Loaded /\ v.kind # "deleted"
        BY <1>1, <3>7 DEF Loaded
      <4> QED
        BY <1>1, <1>2, <3>10, <4>1 DEF Copied
    <3>11. Copied(w, d, lastmod, late, reader, Listing)
      BY <1>2, <1>18, <3>2, <3>6, <3>7, <3>9, <3>10 DEF Copied
    <3> QED
      BY <3>3, <3>5, <3>11
  <2> QED
    BY <2>1, <2>2, <2>3
<1> QED
  BY <1>2, <1>19, <1>20, <1>21, <1>22, <1>23, Visited DEF w, L, G

-----------------------------------------------------------------------------
(* The invariant and what follows from it *)

LEMMA PagesBeginWell == Tp!PageConstants /\ Tp!Init => PageInv
<1> SUFFICES ASSUME Tp!PageConstants, Tp!Init PROVE PageInv
  OBVIOUS
<1>1. PICK n \in Comment, gone \in SUBSET Comment :
         state = [c \in Comment |-> IF c > n THEN "none" ELSE IF c \in gone THEN "deleted" ELSE "live"]
  BY TpCounts DEF Tp!Init
<1>2. state \in [Comment -> {"none", "drawn", "live", "deleted"}]
  BY <1>1
<1>3. /\ stat1 = Cardinality(Tp!Standing) /\ lastmod = 0
      /\ hides \in BOOLEAN /\ expired = FALSE
      /\ reader \in Reader /\ ignores = {} /\ now = 0 /\ writes = 0 /\ late = FALSE
      /\ visit = Tp!Idle /\ visits = 0 /\ copy = Tp!NoCopy
  BY TpCounts DEF Tp!Init
<1>4. Tp!Standing \in SUBSET Comment
  BY DEF Tp!Standing, Tp!Is
<1>5. Cardinality(Tp!Standing) \in Nat
  BY <1>4, CommentsFinite
<1>6. /\ VisitTyped(visit) /\ visit \in Tp!Visit /\ visit.target = 0 /\ visit.kind = "page"
      /\ visit.pc = "idle"
  BY <1>3, IdleTyped DEF VisitTyped
<1>7. copy \in Copies
  BY <1>3 DEF Tp!NoCopy, Copies
<1>8. MaxVisits[reader] \in Nat /\ MaxTime \in Nat /\ MaxWrites \in Nat
  BY <1>3, TpFinite, TpCounts DEF Tp!PageConstants
<1>9. Tp!PageTypeOK
  <2>1. stat1 \in Int /\ lastmod \in 0 .. now /\ now \in 0 .. MaxTime /\ writes \in 0 .. MaxWrites
        /\ visits \in 0 .. MaxVisits[reader]
    BY <1>3, <1>5, <1>8
  <2>2. hides \in BOOLEAN /\ expired \in BOOLEAN /\ late \in BOOLEAN
        /\ ignores \subseteq {Writer[c] : c \in Comment}
    BY <1>3
  <2> QED
    BY <1>2, <1>3, <1>6, <1>7, <2>1, <2>2 DEF Tp!PageTypeOK, Copies
<1>10. PageTyped
  BY <1>3, <1>5, <1>6, <1>9 DEF PageTyped, VisitTyped
<1>11. visit.pc \notin Loaded /\ visit.pc # "render"
  BY <1>6 DEF Loaded
<1>12. /\ Jumps(visit, Tp!Standing, Tp!Is("deleted"), ignores, reader, hides)
       /\ Walks(visit, Tp!Standing, ignores, hides) /\ Spared(visit, ignores)
  BY <1>6 DEF Jumps, Walks, Spared
<1>13. Copied(visit, copy, lastmod, late, reader, Listing)
  BY <1>3, <1>11 DEF Copied
<1> QED
  BY <1>10, <1>12, <1>13 DEF PageInv

LEMMA PagesRest == Tp!PageConstants /\ PageInv /\ UNCHANGED Tp!pgvars => PageInv'
<1> SUFFICES ASSUME Tp!PageConstants, PageInv, UNCHANGED Tp!pgvars PROVE PageInv'
  OBVIOUS
<1>1. UNCHANGED <<state, stat1, lastmod, hides, expired, reader, ignores, now, writes, late,
                  visit, visits, copy>>
  BY DEF Tp!pgvars, Tp!rows
<1>2. Tp!Standing' = Tp!Standing /\ Tp!Is("deleted")' = Tp!Is("deleted")
  BY <1>1 DEF Tp!Standing, Tp!Is
<1>3. PageTyped /\ Tp!PageTypeOK
  BY PageFacts
<1>4. Tp!PageTypeOK' /\ stat1' <= Cardinality(Tp!Standing')
  BY <1>1, <1>2, <1>3 DEF Tp!PageTypeOK, PageTyped
<1> QED
  BY <1>1, <1>2, <1>4, Elsewhere

LEMMA PagesStayWell == Tp!PageConstants /\ PageInv /\ [Tp!Next]_(Tp!pgvars) => PageInv'
<1> SUFFICES ASSUME Tp!PageConstants, PageInv, [Tp!Next]_(Tp!pgvars) PROVE PageInv'
  OBVIOUS
<1>1. CASE \E c \in Comment : Tp!Draw(c) \/ Tp!Post(c) \/ Tp!Undelete(c)
  BY <1>1, DrawKeepsPages, PostKeepsPages, UndeleteKeepsPages
<1>2. CASE \E c \in Comment, deep \in BOOLEAN : Tp!Delete(c, deep)
  BY <1>2, DeleteKeepsPages
<1>3. CASE Tp!Recount \/ Tp!Tick
  BY <1>3, RecountKeepsPages, TickKeepsPages
<1>4. CASE \E c \in Comment : Tp!Ignore(Writer[c])
  BY <1>4, IgnoreKeepsPages
<1>5. CASE Tp!Open \/ Tp!Walk \/ \E b \in BOOLEAN : Tp!AskDeleted(b)
  <2>1. 0 \in 0 .. Cardinality(Comment)
    BY CommentsFinite
  <2> QED
    BY <1>5, <2>1, AskKeepsPages DEF Tp!Open, Tp!Walk, Tp!AskDeleted
<1>6. CASE \E c \in Comment, b \in BOOLEAN : Tp!AskJump(c, b) \/ Tp!AskThread(c, b)
  <2>1. PICK c \in Comment, b \in BOOLEAN : Tp!AskJump(c, b) \/ Tp!AskThread(c, b)
    BY <1>6
  <2>2. c \in 0 .. Cardinality(Comment)
    BY CommentsFinite
  <2> QED
    BY <2>1, <2>2, AskKeepsPages DEF Tp!AskJump, Tp!AskThread
<1>7. CASE Tp!FetchTopic \/ Tp!ReadMeta \/ Tp!ListComments \/ Tp!Render
  BY <1>7, FetchTopicKeepsPages, ReadMetaKeepsPages, ListCommentsKeepsPages, RenderKeepsPages
<1>8. CASE Tp!RedirectToLast \/ Tp!Resolve \/ Tp!JumpFilter
  BY <1>8, RedirectKeepsPages, ResolveKeepsPages, JumpFilterKeepsPages
<1>9. CASE UNCHANGED Tp!pgvars
  BY <1>9, PagesRest
<1> QED
  BY <1>1, <1>2, <1>3, <1>4, <1>5, <1>6, <1>7, <1>8, <1>9 DEF Tp!Next, Tp!Visits

\* What an ignored author's comment takes with it, counted step by step.
Unders(f, k, list, ig) ==
    f = [n \in 0 .. k |-> {c \in list : Writer[c] \in ig \/ (n > 0 /\ ReplyTo[c] \in f[n - 1])}]

LEMMA UndersExist ==
    ASSUME NEW list, NEW ig
    PROVE  \A k \in Nat : \E f : Unders(f, k, list, ig)
<1> DEFINE Q == {k \in Nat : \E f : Unders(f, k, list, ig)}
           S(n, r) == {c \in list : Writer[c] \in ig \/ (n > 0 /\ ReplyTo[c] \in r)}
<1>1. 0 \in Q
  <2> DEFINE f == [n \in 0 .. 0 |-> S(0, {})]
  <2>1. Unders(f, 0, list, ig)
    BY DEF Unders
  <2> QED
    BY <2>1
<1>2. ASSUME NEW k \in Nat, k \in Q PROVE k + 1 \in Q
  <2>1. PICK f : Unders(f, k, list, ig)
    BY <1>2
  <2>2. \A n \in 0 .. k : f[n] = S(n, f[n - 1])
    BY <2>1 DEF Unders
  <2> HIDE DEF S
  <2> DEFINE h == [n \in 0 .. k + 1 |-> IF n = k + 1 THEN S(k + 1, f[k]) ELSE f[n]]
  <2>3. ASSUME NEW n \in 0 .. k + 1 PROVE h[n] = S(n, h[n - 1])
    <3>1. CASE n = k + 1
      <4>1. n - 1 = k /\ h[n - 1] = f[k] /\ h[n] = S(k + 1, f[k])
        BY <3>1
      <4> QED
        BY <3>1, <4>1
    <3>2. CASE n # k + 1 /\ n # 0
      <4>1. n \in 0 .. k /\ n - 1 \in 0 .. k /\ n - 1 # k + 1 /\ n - 1 \in 0 .. k + 1
        BY <3>2
      <4>2. h[n] = f[n] /\ h[n - 1] = f[n - 1]
        BY <3>2, <4>1
      <4> HIDE DEF h
      <4> QED
        BY <2>2, <4>1, <4>2
    <3>3. CASE n = 0
      <4>1. h[0] = f[0] /\ f[0] = S(0, f[0 - 1])
        BY <2>2
      <4>2. \A r, q : S(0, r) = S(0, q)
        BY DEF S
      <4>3. S(0, f[0 - 1]) = S(0, h[0 - 1])
        <5> HIDE DEF h
        <5> QED
          BY <4>2
      <4> HIDE DEF h
      <4> QED
        BY <3>3, <4>1, <4>3
    <3> QED
      BY <3>1, <3>2, <3>3
  <2>4. h = [n \in 0 .. k + 1 |-> S(n, h[n - 1])]
    <3>1. h = [n \in 0 .. k + 1 |-> h[n]]
      OBVIOUS
    <3> HIDE DEF h
    <3> QED
      BY <2>3, <3>1
  <2> HIDE DEF h
  <2>5. Unders(h, k + 1, list, ig)
    BY <2>4 DEF Unders, S
  <2> QED
    BY <2>5
<1> HIDE DEF Q
<1>3. \A k \in Nat : k \in Q
  BY <1>1, <1>2, NumbersReached
<1> QED
  BY <1>3 DEF Q

LEMMA UnderIsHidden ==
    ASSUME Tp!PageConstants, NEW list \in SUBSET Comment, NEW ig, NEW f, NEW k \in Nat,
           Unders(f, k, list, ig)
    PROVE  f[k] \subseteq Tp!Hidden(list, ig)
<1> DEFINE Q == {n \in Nat : n <= k => f[n] \subseteq Tp!Hidden(list, ig)}
<1>1. /\ \A c \in list : Writer[c] \in ig => c \in Tp!Hidden(list, ig)
      /\ \A c \in list : ReplyTo[c] \in Tp!Hidden(list, ig) => c \in Tp!Hidden(list, ig)
  BY HiddenIsLeast
<1>2. \A n \in 0 .. k : f[n] = {c \in list : Writer[c] \in ig \/ (n > 0 /\ ReplyTo[c] \in f[n - 1])}
  BY DEF Unders
<1>3. 0 \in Q
  <2>1. 0 \in 0 .. k
    OBVIOUS
  <2>2. f[0] \subseteq {c \in list : Writer[c] \in ig}
    BY <1>2, <2>1
  <2> QED
    BY <1>1, <2>2
<1>4. ASSUME NEW n \in Nat, n \in Q PROVE n + 1 \in Q
  <2> SUFFICES ASSUME n + 1 <= k, NEW c \in f[n + 1] PROVE c \in Tp!Hidden(list, ig)
    OBVIOUS
  <2>1. n + 1 \in 0 .. k /\ (n + 1) - 1 = n /\ n <= k
    OBVIOUS
  <2>2. c \in list /\ (Writer[c] \in ig \/ ReplyTo[c] \in f[n])
    BY <1>2, <2>1
  <2> QED
    BY <1>1, <1>4, <2>1, <2>2
<1> HIDE DEF Q
<1>5. \A n \in Nat : n \in Q
  BY <1>3, <1>4, NumbersReached
<1> QED
  BY <1>5 DEF Q

LEMMA PagesAreConsistent == Tp!PageConstants /\ PageInv => Tp!PagesConsistent
<1> SUFFICES ASSUME Tp!PageConstants, PageInv PROVE Tp!PagesConsistent
  OBVIOUS
<1>1. /\ Tp!PageTypeOK /\ visit \in Tp!Visit
      /\ Jumps(visit, Tp!Standing, Tp!Is("deleted"), ignores, reader, hides)
      /\ Walks(visit, Tp!Standing, ignores, hides) /\ Spared(visit, ignores)
      /\ Copied(visit, copy, lastmod, late, reader, Listing)
  BY PageFacts
<1>2. Tp!JumpLands
  BY <1>1 DEF Tp!JumpLands, Jumps, Tp!Done
<1>3. Tp!WalkSeesAll
  BY <1>1 DEF Tp!WalkSeesAll, Walks, Tp!Done
<1>4. Tp!CopyIsCurrent
  BY <1>1 DEF Tp!CopyIsCurrent, Copied, Listing
<1>5. Tp!IgnoredStayHidden
  <2> DEFINE k == Cardinality(Comment)
             F(f) == [n \in 0 .. k |->
                {c \in visit.list : Writer[c] \in ignores \/ (n > 0 /\ ReplyTo[c] \in f[n - 1])}]
             it == CHOOSE f : f = F(f)
  <2>1. k \in Nat /\ visit.list \in SUBSET Comment
    BY <1>1, CommentsFinite, TpCounts DEF Tp!Visit
  <2>2. \A f : f = F(f) <=> Unders(f, k, visit.list, ignores)
    BY DEF Unders
  <2>3. (Tp!Done /\ ~visit.show /\ ~visit.moved => visit.shown \cap it[k] = {}) <=> Tp!IgnoredStayHidden
    BY TpCounts DEF Tp!IgnoredStayHidden
  <2> HIDE DEF F, k
  <2>4. \E f : f = F(f)
    BY <2>1, <2>2, UndersExist
  <2>5. it = F(it)
    BY <2>4, Zenon
  <2> HIDE DEF it
  <2>6. it[k] \subseteq Tp!Hidden(visit.list, ignores)
    BY <2>1, <2>2, <2>5, UnderIsHidden
  <2>7. Tp!Done /\ ~visit.show /\ ~visit.moved => visit.shown \cap it[k] = {}
    BY <1>1, <2>6 DEF Spared, Tp!Done
  <2> QED
    BY <2>3, <2>7
<1> QED
  BY <1>1, <1>2, <1>3, <1>4, <1>5 DEF Tp!PagesConsistent

\* What a page shows is what was asked for, in its place, current and without
\* whom the reader ignores (PagesConsistent), whoever reads and writes.
THEOREM PagesStayConsistent ==
    ASSUME Tp!PageConstants
    PROVE  Tp!Spec => []PagesConsistent
<1>1. Tp!Init => PageInv
  BY PagesBeginWell
<1>2. PageInv /\ [Tp!Next]_(Tp!pgvars) => PageInv'
  BY PagesStayWell
<1>3. PageInv => PagesConsistent
  BY PagesAreConsistent DEF PagesConsistent
<1> QED
  BY <1>1, <1>2, <1>3, PTL DEF Tp!Spec
=============================================================================
