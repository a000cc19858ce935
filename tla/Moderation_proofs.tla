------------------------- MODULE Moderation_proofs --------------------------
(***************************************************************************)
(* What happens to messages after they are written, for any number of      *)
(* requests, users, texts, comments and topics: edits of a comment,        *)
(* reactions, warnings and purges.  The four share no variable; each has   *)
(* its own specification, invariant and theorems.                          *)
(***************************************************************************)
EXTENDS Moderation, FiniteSetTheorems, WellFoundedInduction, TLAPS

-----------------------------------------------------------------------------
(* Edits of a comment *)

LEMMA CeCardinality == \A S : Ce!Cardinality(S) = Cardinality(S)
BY Zenon DEF Cardinality, Ce!Cardinality

Notice == {"edited", "answered", "deleted"}
EditsTyped ==
    /\ text \in Text /\ gone \in BOOLEAN /\ answered \in BOOLEAN
    /\ edit_count \in Nat
    /\ edits \in SUBSET [id : Nat, old : Text]
    /\ holder \in Req \cup {Nobody}
    /\ at \in [Req -> {"idle", "update", "record"}]
    /\ old \in [Req -> Text] /\ new \in [Req -> Text]
    /\ since \in [Req -> SUBSET Notice]

\* The rows of the history are numbered as they were inserted.
Numbered ==
    /\ IsFiniteSet(edits) /\ Cardinality(edits) <= MaxEdits
    /\ edit_count = Cardinality(edits)
    /\ \A e \in edits : e.id \in 1 .. Cardinality(edits)
    /\ \A d, e \in edits : d.id = e.id => d = e

\* Who holds the row is about to commit; whoever has read the comment knows it
\* as it is, or has been noted to be late.
EditHolds == \A r \in Req : holder = r <=> at[r] = "record"
UpToDate ==
    \A r \in Req : at[r] # "idle" =>
        /\ "edited" \notin since[r] => old[r] = text
        /\ answered => "answered" \in since[r]
        /\ gone => "deleted" \in since[r]
EditsInv == EditsTyped /\ Numbered /\ EditHolds /\ UpToDate /\ Ce!TextsKept

LEMMA InitEdits == ASSUME Ce!EditConstants, Ce!Init PROVE EditsInv
<1>1. IsFiniteSet({}) /\ Cardinality({}) = 0
  BY FS_EmptySet
<1>2. EditsTyped /\ EditHolds /\ UpToDate
  BY DEF Ce!EditConstants, Ce!Init, EditsTyped, EditHolds, UpToDate
<1>3. Numbered
  BY <1>1 DEF Ce!EditConstants, Ce!Init, Numbered
<1>4. Ce!TextsKept
  BY DEF Ce!Init, Ce!TextsKept
<1> QED BY <1>2, <1>3, <1>4 DEF EditsInv

\* A step that leaves the history and the text alone.
LEMMA SameHistory ==
    ASSUME Numbered, Ce!TextsKept,
           UNCHANGED <<text, edits, edit_count, shown, unrecorded>>
    PROVE  Numbered' /\ Ce!TextsKept'
BY DEF Numbered, Ce!TextsKept

LEMMA CommitEdits ==
    ASSUME Ce!EditConstants, EditsInv, NEW r \in Req, Ce!Commit(r)
    PROVE  EditsInv'
<1> DEFINE rows == Ce!Recorded(r)
           n == Cardinality(edits)
<1>1. /\ at[r] = "record" /\ n < MaxEdits
      /\ text' = new[r] /\ shown' = shown \cup {new[r]}
      /\ edits' = edits \cup rows
      /\ edit_count' = IF rows = {} THEN edit_count ELSE Cardinality(edits \cup rows)
      /\ unrecorded' = IF "edited" \in since[r] THEN unrecorded \cup {text} ELSE unrecorded
      /\ holder' = Nobody
      /\ at' = [at EXCEPT ![r] = "idle"]
      /\ old' = [old EXCEPT ![r] = First] /\ new' = [new EXCEPT ![r] = First]
      /\ since' = [q \in Req |-> IF at[q] = "idle" THEN {} ELSE since[q] \cup {"edited"}]
      /\ gone' = gone /\ answered' = answered
  BY CeCardinality DEF Ce!Commit, Ce!Counted, Ce!Done, Ce!Notices
<1>2. EditsTyped /\ Numbered /\ EditHolds /\ UpToDate /\ Ce!TextsKept
  BY DEF EditsInv
<1>3. IsFiniteSet(edits) /\ n \in Nat
  BY <1>2, FS_CardinalityType DEF Numbered
<1>4. rows = IF old[r] = new[r] THEN {} ELSE {[id |-> n + 1, old |-> old[r]]}
  BY CeCardinality DEF Ce!Recorded
<1>5. EditsTyped' /\ Numbered'
  <2>1. CASE old[r] = new[r]
    <3>1. edits' = edits /\ edit_count' = edit_count
      BY <1>1, <1>4, <2>1
    <3>2. EditsTyped'
      BY <1>1, <1>2, <3>1 DEF EditsTyped, Ce!EditConstants, Notice
    <3> QED BY <1>2, <3>1, <3>2 DEF Numbered
  <2>2. CASE old[r] # new[r]
    <3> DEFINE e == [id |-> n + 1, old |-> old[r]]
    <3>1. rows = {e} /\ rows # {}
      BY <1>4, <2>2
    <3>2. e \notin edits /\ e.id = n + 1 /\ e \in [id : Nat, old : Text]
      BY <1>2, <1>3 DEF Numbered, EditsTyped
    <3> HIDE DEF e, rows, n
    <3>3. IsFiniteSet(edits') /\ Cardinality(edits') = n + 1 /\ edits' = edits \cup {e}
      BY <1>1, <1>3, <3>1, <3>2, FS_AddElement DEF n
    <3>4. edit_count' = n + 1
      BY <1>1, <3>1, <3>3
    <3>5. /\ \A d \in edits : d.id \in 1 .. n
          /\ \A d, f \in edits : d.id = f.id => d = f
      BY <1>2 DEF Numbered, n
    <3>6. /\ \A d \in edits' : d.id \in 1 .. n + 1
          /\ \A d, f \in edits' : d.id = f.id => d = f
      BY <1>3, <3>2, <3>3, <3>5
    <3>7. n + 1 <= MaxEdits
      BY <1>1, <1>3 DEF Ce!EditConstants
    <3>8. Numbered'
      BY <3>3, <3>4, <3>6, <3>7 DEF Numbered
    <3>9. EditsTyped'
      BY <1>1, <1>2, <1>3, <3>2, <3>3, <3>4 DEF EditsTyped, Ce!EditConstants, Notice
    <3> QED BY <3>8, <3>9
  <2> QED BY <2>1, <2>2
<1>6. EditHolds'
  BY <1>1, <1>2 DEF EditHolds, EditsTyped, Ce!EditConstants
<1>7. UpToDate'
  BY <1>1, <1>2 DEF UpToDate, EditsTyped
<1>8. Ce!TextsKept'
  <2>1. text \in {text'} \cup {e.old : e \in edits'} \cup unrecorded'
    <3>1. CASE "edited" \in since[r]
      BY <1>1, <3>1
    <3>2. CASE "edited" \notin since[r] /\ old[r] = new[r]
      BY <1>1, <1>2, <3>2 DEF UpToDate
    <3>3. CASE "edited" \notin since[r] /\ old[r] # new[r]
      <4>1. old[r] = text
        BY <1>1, <1>2, <3>3 DEF UpToDate
      <4>2. [id |-> n + 1, old |-> old[r]] \in edits'
        BY <1>1, <1>4, <3>3
      <4> QED BY <4>1, <4>2
    <3> QED BY <3>1, <3>2, <3>3
  <2>2. {e.old : e \in edits} \subseteq {e.old : e \in edits'} /\ unrecorded \subseteq unrecorded'
    BY <1>1
  <2> QED BY <1>1, <1>2, <2>1, <2>2 DEF Ce!TextsKept
<1> QED BY <1>5, <1>6, <1>7, <1>8 DEF EditsInv

LEMMA StepEdits ==
    ASSUME Ce!EditConstants, EditsInv, [Ce!Next]_Ce!vars
    PROVE  EditsInv'
<1>1. EditsTyped /\ Numbered /\ EditHolds /\ UpToDate /\ Ce!TextsKept
  BY DEF EditsInv
<1>2. CASE UNCHANGED Ce!vars
  BY <1>1, <1>2, SameHistory DEF Ce!vars, EditsInv, EditsTyped, EditHolds, UpToDate
<1>3. ASSUME NEW r \in Req, NEW t \in Text, Ce!Read(r, t) PROVE EditsInv'
  <2>1. Numbered' /\ Ce!TextsKept'
    BY <1>1, <1>3, SameHistory DEF Ce!Read
  <2>2. EditsTyped' /\ EditHolds'
    BY <1>1, <1>3 DEF Ce!Read, Ce!Goto, EditsTyped, EditHolds
  <2>3. UpToDate'
    BY <1>1, <1>3 DEF Ce!Read, Ce!Goto, Ce!Eligible, EditsTyped, UpToDate
  <2> QED BY <2>1, <2>2, <2>3 DEF EditsInv
<1>4. ASSUME NEW r \in Req, Ce!Update(r) PROVE EditsInv'
  <2>1. Numbered' /\ Ce!TextsKept'
    BY <1>1, <1>4, SameHistory DEF Ce!Update
  <2>2. EditsTyped' /\ EditHolds' /\ UpToDate'
    BY <1>1, <1>4 DEF Ce!Update, Ce!Goto, EditsTyped, EditHolds, UpToDate, Ce!EditConstants
  <2> QED BY <2>1, <2>2 DEF EditsInv
<1>5. ASSUME NEW r \in Req, Ce!Abort(r) PROVE EditsInv'
  <2>1. Numbered' /\ Ce!TextsKept'
    BY <1>1, <1>5, SameHistory DEF Ce!Abort
  <2>2. EditsTyped' /\ EditHolds'
    BY <1>1, <1>5 DEF Ce!Abort, Ce!Done, EditsTyped, EditHolds, Ce!EditConstants
  <2>3. UpToDate'
    BY <1>1, <1>5 DEF Ce!Abort, Ce!Done, EditsTyped, UpToDate
  <2> QED BY <2>1, <2>2, <2>3 DEF EditsInv
<1>6. ASSUME Ce!Answer \/ Ce!Delete PROVE EditsInv'
  <2>1. Numbered' /\ Ce!TextsKept'
    BY <1>1, <1>6, SameHistory DEF Ce!Answer, Ce!Delete
  <2>2. since' \in [Req -> SUBSET Notice]
    <3>1. PICK what \in Notice :
            since' = [q \in Req |-> IF at[q] = "idle" THEN {} ELSE since[q] \cup {what}]
      BY <1>6 DEF Ce!Answer, Ce!Delete, Ce!Notices, Notice
    <3> QED BY <1>1, <3>1 DEF EditsTyped
  <2>3. EditsTyped' /\ EditHolds'
    BY <1>1, <1>6, <2>2 DEF Ce!Answer, Ce!Delete, EditsTyped, EditHolds
  <2>4. UpToDate'
    BY <1>1, <1>6 DEF Ce!Answer, Ce!Delete, Ce!Notices, EditsTyped, UpToDate
  <2> QED BY <2>1, <2>3, <2>4 DEF EditsInv
<1> QED BY <1>2, <1>3, <1>4, <1>5, <1>6, CommitEdits DEF Ce!Next

\* Whatever edits of a comment overlap, each row of its history has a number of
\* its own, the count a reader is shown is theirs, and no text is lost but one
\* that the edit which replaced it had not read (vUpdateComment, edit_info).
THEOREM HistoryStaysConsistent ==
    ASSUME Ce!EditConstants
    PROVE  Ce!Spec => []HistoryConsistent
<1>1. Ce!Init => EditsInv
  BY InitEdits
<1>2. EditsInv /\ [Ce!Next]_Ce!vars => EditsInv'
  BY StepEdits
<1>3. EditsInv => HistoryConsistent
  <2> SUFFICES ASSUME EditsInv PROVE HistoryConsistent
    OBVIOUS
  <2>1. EditsTyped /\ Numbered /\ EditHolds /\ Cardinality(edits) \in Nat
    BY FS_CardinalityType DEF EditsInv, Numbered
  <2>2. edits \subseteq [id : 1 .. MaxEdits, old : Text]
    <3> SUFFICES ASSUME NEW e \in edits PROVE e \in [id : 1 .. MaxEdits, old : Text]
      OBVIOUS
    <3>1. e \in [id : Nat, old : Text] /\ e.id \in 1 .. Cardinality(edits)
      BY <2>1 DEF EditsTyped, Numbered
    <3>2. e.id \in 1 .. MaxEdits
      BY <2>1, <3>1 DEF Numbered, Ce!EditConstants
    <3> QED BY <3>1, <3>2
  <2>3. Ce!EditsTypeOK
    BY <2>1, <2>2 DEF EditsTyped, Numbered, EditHolds, Ce!EditsTypeOK
  <2>4. Ce!EditCountExact
    BY <2>1, CeCardinality DEF Numbered, Ce!EditCountExact
  <2> QED BY <2>3, <2>4 DEF EditsInv, HistoryConsistent, Ce!HistoryConsistent
<1> QED BY <1>1, <1>2, <1>3, PTL DEF Ce!Spec

-----------------------------------------------------------------------------
(* Reactions *)

LEMMA ReCardinality == \A S : Re!Cardinality(S) = Cardinality(S)
BY Zenon DEF Cardinality, Re!Cardinality

RowOf    == Re!Target \cup {Re!Of(t) : t \in Re!Target}
Running  == {"target", "lastmod", "event", "commit"}
Reaction == [pc : {"idle", "count"} \cup Running, user : User \cup {Nobody},
             target : Re!Target, set : BOOLEAN, rows : SUBSET RowOf]
LogState   == {"none", "fresh", "old"}
EventState == {"none", "unread", "read"}

ReactionsTyped ==
    /\ reactions \in [Re!Target -> SUBSET User]
    /\ log \in [Re!Target -> [User -> LogState]]
    /\ events \in [Re!Target -> [User -> EventState]]
    /\ deleted \in BOOLEAN /\ frozen \in SUBSET User
    /\ asked \in 0 .. MaxRequests
    /\ req \in [Req -> Reaction]

\* Nobody reacts to what he wrote himself.
NotOwn ==
    /\ \A r \in Req : req[r].pc # "idle" =>
         req[r].user \in User /\ req[r].user # Re!Of(req[r].target)
    /\ \A t \in Re!Target : Re!Of(t) \notin reactions[t]

\* A request holds the rows its statements have taken, and nobody else does.
RowsHeld ==
    \A r \in Req :
        /\ req[r].pc \in {"idle", "count", "target"} => req[r].rows = {}
        /\ req[r].pc = "lastmod" => req[r].rows = {req[r].target}
        /\ req[r].pc = "event" => req[r].rows = {req[r].target, "topic"}
        /\ req[r].pc = "commit" =>
             req[r].rows = {req[r].target, "topic", Re!Of(req[r].target)}
RowsApart == \A r \in Req : \A q \in Req \ {r} : req[r].rows \cap req[q].rows = {}

\* A request that has passed the count still stands within it, unless its user
\* has been seen in a hurry.
WithinLimit ==
    \A r \in Req : req[r].pc \in Running /\ req[r].set =>
        req[r].user \in hasty \/ Cardinality(Re!Fresh(req[r].user)) < Frequent

ReactionsInv ==
    /\ ReactionsTyped /\ NotOwn /\ RowsHeld /\ RowsApart /\ WithinLimit
    /\ Re!LogMatches /\ Re!SeldomEnough /\ Re!UnreadStands

LEMMA FreshFinite ==
    ASSUME NEW u
    PROVE  /\ IsFiniteSet(Re!Fresh(u)) /\ Cardinality(Re!Fresh(u)) \in Nat
           /\ IsFiniteSet(Re!Fresh(u)') /\ Cardinality(Re!Fresh(u)') \in Nat
<1>1. IsFiniteSet({}) /\ IsFiniteSet({"topic"}) /\ IsFiniteSet({"topic"} \cup {"comment"})
  BY FS_EmptySet, FS_Singleton, FS_AddElement
<1>2. IsFiniteSet(Re!Target)
  <2>1. Re!Target = {"topic"} \cup {"comment"}
    BY DEF Re!Target
  <2> QED BY <1>1, <2>1
<1>3. Re!Fresh(u) \subseteq Re!Target /\ Re!Fresh(u)' \subseteq Re!Target
  BY DEF Re!Fresh
<1>4. IsFiniteSet(Re!Fresh(u)) /\ IsFiniteSet(Re!Fresh(u)')
  BY <1>2, <1>3, FS_Subset
<1> QED BY <1>4, FS_CardinalityType

LEMMA InitReactions == ASSUME Re!ReactionConstants, Re!Init PROVE ReactionsInv
<1>1. Re!Idle \in Reaction
  BY DEF Re!Idle, Reaction, Re!Target
<1>2. ReactionsTyped
  <2>1. /\ reactions = [t \in Re!Target |-> {}] /\ deleted = FALSE /\ frozen = {} /\ asked = 0
        /\ log = [t \in Re!Target |-> [u \in User |-> "none"]]
        /\ events = [t \in Re!Target |-> [u \in User |-> "none"]]
        /\ req = [r \in Req |-> Re!Idle]
    BY DEF Re!Init
  <2>2. [u \in User |-> "none"] \in [User -> LogState] /\ [u \in User |-> "none"] \in [User -> EventState]
    BY DEF LogState, EventState
  <2>3. reactions \in [Re!Target -> SUBSET User] /\ req \in [Req -> Reaction]
    BY <1>1, <2>1
  <2>4. log \in [Re!Target -> [User -> LogState]] /\ events \in [Re!Target -> [User -> EventState]]
    BY <2>1, <2>2
  <2>5. asked \in 0 .. MaxRequests
    BY <2>1 DEF Re!ReactionConstants
  <2> QED BY <2>1, <2>3, <2>4, <2>5 DEF ReactionsTyped
<1>3. NotOwn /\ RowsHeld /\ RowsApart /\ WithinLimit
  BY DEF Re!Init, Re!Idle, NotOwn, RowsHeld, RowsApart, WithinLimit, Running
<1>4. Re!LogMatches /\ Re!UnreadStands
  BY DEF Re!Init, Re!LogMatches, Re!UnreadStands
<1>5. Re!SeldomEnough
  <2> SUFFICES ASSUME NEW u \in User PROVE Cardinality(Re!Fresh(u)) <= Frequent
    BY ReCardinality DEF Re!SeldomEnough
  <2>1. Re!Fresh(u) = {}
    BY DEF Re!Init, Re!Fresh
  <2>2. Cardinality(Re!Fresh(u)) = 0
    BY <2>1, FS_EmptySet
  <2> QED BY <2>2 DEF Re!ReactionConstants
<1> QED BY <1>2, <1>3, <1>4, <1>5 DEF ReactionsInv

\* A step of one request before its commit, and what it must see to.
Moves(r) ==
    /\ UNCHANGED <<reactions, log, events, deleted, frozen, hasty, late>>
    /\ asked' \in 0 .. MaxRequests
    /\ req' = [req EXCEPT ![r] = req'[r]] /\ req'[r] \in Reaction
MovesWell(r) ==
    /\ req'[r].pc # "idle" =>
         req'[r].user \in User /\ req'[r].user # Re!Of(req'[r].target)
    /\ req'[r].pc \in {"idle", "count", "target"} => req'[r].rows = {}
    /\ req'[r].pc = "lastmod" => req'[r].rows = {req'[r].target}
    /\ req'[r].pc = "event" => req'[r].rows = {req'[r].target, "topic"}
    /\ req'[r].pc = "commit" =>
         req'[r].rows = {req'[r].target, "topic", Re!Of(req'[r].target)}
    /\ \A q \in Req \ {r} : req'[r].rows \cap req[q].rows = {}
    /\ req'[r].pc \in Running /\ req'[r].set =>
         req'[r].user \in hasty \/ Cardinality(Re!Fresh(req'[r].user)) < Frequent

LEMMA MovesKeep ==
    ASSUME ReactionsInv, NEW r \in Req, Moves(r), MovesWell(r)
    PROVE  ReactionsInv'
<1>1. ReactionsTyped /\ req \in [Req -> Reaction]
  BY DEF ReactionsInv, ReactionsTyped
<1>2. req' \in [Req -> Reaction] /\ \A q \in Req \ {r} : req'[q] = req[q]
  BY <1>1 DEF Moves
<1>3. ReactionsTyped'
  BY <1>1, <1>2 DEF Moves, ReactionsTyped
<1>4. NotOwn'
  BY <1>2 DEF Moves, MovesWell, ReactionsInv, NotOwn
<1>5. RowsHeld'
  BY <1>2 DEF MovesWell, ReactionsInv, RowsHeld
<1>6. RowsApart'
  BY <1>2 DEF MovesWell, ReactionsInv, RowsApart
<1>7. \A u : Re!Fresh(u)' = Re!Fresh(u)
  BY DEF Moves, Re!Fresh
<1>8. WithinLimit'
  <2> SUFFICES ASSUME NEW q \in Req, req'[q].pc \in Running, req'[q].set
               PROVE  \/ req'[q].user \in hasty'
                      \/ Cardinality(Re!Fresh(req[q].user)') < Frequent
    BY DEF WithinLimit
  <2>1. hasty' = hasty /\ Re!Fresh(req[q].user)' = {t \in Re!Target : log[t][req'[q].user] = "fresh"}
    BY DEF Moves, Re!Fresh
  <2>2. CASE q = r
    BY <2>1, <2>2 DEF MovesWell, Re!Fresh
  <2>3. CASE q # r
    <3>1. req[q].user \in hasty \/ Cardinality(Re!Fresh(req[q].user)) < Frequent
      BY <1>2, <2>3 DEF ReactionsInv, WithinLimit
    <3> QED BY <1>2, <2>1, <2>3, <3>1 DEF Re!Fresh
  <2> QED BY <2>2, <2>3
<1>9. Re!LogMatches' /\ Re!UnreadStands'
  BY DEF Moves, ReactionsInv, Re!LogMatches, Re!UnreadStands
<1>10. Re!SeldomEnough'
  <2>1. \A u \in User : u \in hasty \/ Cardinality(Re!Fresh(u)) <= Frequent
    BY ReCardinality DEF ReactionsInv, Re!SeldomEnough
  <2>2. \A u \in User : u \in hasty' \/ Cardinality(Re!Fresh(u)') <= Frequent
    BY <1>7, <2>1 DEF Moves
  <2> QED BY <2>2, ReCardinality DEF Re!SeldomEnough
<1> QED BY <1>3, <1>4, <1>5, <1>6, <1>8, <1>9, <1>10 DEF ReactionsInv

LEMMA AskKeeps ==
    ASSUME Re!ReactionConstants, ReactionsInv, NEW r \in Req, NEW u \in User,
           NEW t \in Re!Target, NEW set \in BOOLEAN, Re!Ask(r, u, t, set)
    PROVE  ReactionsInv'
<1>1. /\ asked < MaxRequests /\ Re!Of(t) # u /\ asked' = asked + 1
      /\ req' = [req EXCEPT ![r] = [Re!Idle EXCEPT !.pc = IF set THEN "count" ELSE "target",
                                       !.user = u, !.target = t, !.set = set]]
      /\ UNCHANGED <<reactions, log, events, deleted, frozen, hasty, late>>
  BY DEF Re!Ask, Re!Allowed
<1>2. req \in [Req -> Reaction] /\ asked \in 0 .. MaxRequests
  BY DEF ReactionsInv, ReactionsTyped
<1>3. req'[r] = [pc |-> IF set THEN "count" ELSE "target", user |-> u, target |-> t,
                 set |-> set, rows |-> {}]
  BY <1>1, <1>2 DEF Re!Idle
<1>4. req'[r] \in Reaction
  BY <1>3 DEF Reaction, Running
<1>5. Moves(r)
  BY <1>1, <1>2, <1>4 DEF Moves, Re!ReactionConstants
<1>6. MovesWell(r)
  <2>1. /\ req'[r].pc = IF set THEN "count" ELSE "target"
        /\ req'[r].user = u /\ req'[r].target = t /\ req'[r].set = set /\ req'[r].rows = {}
    BY <1>3
  <2>2. ~(req'[r].pc \in Running /\ req'[r].set)
    BY <2>1 DEF Running
  <2> QED BY <1>1, <2>1, <2>2 DEF MovesWell
<1> QED BY <1>5, <1>6, MovesKeep

\* The request ends without having written.
LEMMA DoneKeeps ==
    ASSUME Re!ReactionConstants, ReactionsInv, NEW r \in Req, Re!Done(r),
           UNCHANGED <<reactions, log, events, deleted, frozen, asked, hasty, late>>
    PROVE  ReactionsInv'
<1>1. req \in [Req -> Reaction] /\ asked \in 0 .. MaxRequests
  BY DEF ReactionsInv, ReactionsTyped
<1>2. Re!Idle \in Reaction /\ req' = [req EXCEPT ![r] = Re!Idle] /\ req'[r] = Re!Idle
  BY <1>1 DEF Re!Done, Re!Idle, Reaction, Re!Target
<1>3. Moves(r)
  BY <1>1, <1>2 DEF Moves
<1>4. MovesWell(r)
  BY <1>2 DEF MovesWell, Re!Idle, Running
<1> QED BY <1>3, <1>4, MovesKeep

LEMMA CountKeeps ==
    ASSUME Re!ReactionConstants, ReactionsInv, NEW r \in Req, Re!Count(r)
    PROVE  ReactionsInv'
<1>1. /\ req[r].pc = "count"
      /\ UNCHANGED <<reactions, log, events, deleted, frozen, asked, hasty, late>>
  BY DEF Re!Count
<1>2. CASE ~Re!Rarely(req[r].user)
  BY <1>1, <1>2, DoneKeeps DEF Re!Count
<1>3. CASE Re!Rarely(req[r].user)
  <2>1. req \in [Req -> Reaction] /\ asked \in 0 .. MaxRequests
    BY DEF ReactionsInv, ReactionsTyped
  <2>2. req' = [req EXCEPT ![r].pc = "target"]
    BY <1>3 DEF Re!Count, Re!Goto
  <2>3. /\ req'[r] \in Reaction /\ req'[r].pc = "target"
        /\ req'[r].user = req[r].user /\ req'[r].target = req[r].target
        /\ req'[r].rows = req[r].rows /\ req' = [req EXCEPT ![r] = req'[r]]
    BY <2>1, <2>2 DEF Reaction, Running
  <2>4. Moves(r)
    BY <1>1, <2>1, <2>3 DEF Moves
  <2>5. Cardinality(Re!Fresh(req[r].user)) < Frequent
    BY <1>3, ReCardinality DEF Re!Rarely
  <2>6. /\ req[r].user \in User /\ req[r].user # Re!Of(req[r].target) /\ req[r].rows = {}
    BY <1>1 DEF ReactionsInv, NotOwn, RowsHeld
  <2>7. MovesWell(r)
    BY <2>3, <2>5, <2>6 DEF MovesWell
  <2> QED BY <2>4, <2>7, MovesKeep
<1> QED BY <1>2, <1>3

LEMMA TakeKeeps ==
    ASSUME Re!ReactionConstants, ReactionsInv, NEW r \in Req, NEW x \in RowOf, NEW step,
           Re!Take(r, x, step),
           UNCHANGED <<reactions, log, events, deleted, frozen, asked, hasty, late>>,
           \/ req[r].pc = "target" /\ step = "lastmod" /\ x = req[r].target
           \/ req[r].pc = "lastmod" /\ step = "event" /\ x = "topic"
           \/ req[r].pc = "event" /\ step = "commit" /\ x = Re!Of(req[r].target)
    PROVE  ReactionsInv'
<1>1. req \in [Req -> Reaction] /\ asked \in 0 .. MaxRequests
  BY DEF ReactionsInv, ReactionsTyped
<1>2. /\ req' = [req EXCEPT ![r].pc = step, ![r].rows = @ \cup {x}]
      /\ \A q \in Req \ {r} : x \notin req[q].rows
  BY DEF Re!Take, Re!Free, Re!Holds
<1>3. step \in Running /\ req[r].pc \in Running
  BY DEF Running
<1>4. /\ req'[r] \in Reaction /\ req'[r].pc = step
      /\ req'[r].user = req[r].user /\ req'[r].target = req[r].target
      /\ req'[r].set = req[r].set
      /\ req'[r].rows = req[r].rows \cup {x} /\ req' = [req EXCEPT ![r] = req'[r]]
  <2>1. /\ req[r] \in Reaction /\ req'[r] = [req[r] EXCEPT !.pc = step, !.rows = req[r].rows \cup {x}]
        /\ req' = [req EXCEPT ![r] = req'[r]]
    BY <1>1, <1>2
  <2>2. req[r].rows \cup {x} \in SUBSET RowOf
    BY <2>1 DEF Reaction
  <2> QED BY <1>3, <2>1, <2>2 DEF Reaction
<1>5. Moves(r)
  BY <1>1, <1>4 DEF Moves
<1>6. /\ req[r].user \in User /\ req[r].user # Re!Of(req[r].target)
      /\ req[r].pc = "target" => req[r].rows = {}
      /\ req[r].pc = "lastmod" => req[r].rows = {req[r].target}
      /\ req[r].pc = "event" => req[r].rows = {req[r].target, "topic"}
  BY DEF ReactionsInv, NotOwn, RowsHeld
<1>7. \A q \in Req \ {r} : req[r].rows \cap req[q].rows = {}
  BY DEF ReactionsInv, RowsApart
<1>8. req[r].set =>
         req[r].user \in hasty \/ Cardinality(Re!Fresh(req[r].user)) < Frequent
  BY <1>3 DEF ReactionsInv, WithinLimit
<1>9. MovesWell(r)
  <2>1. /\ step = "lastmod" => req'[r].rows = {req'[r].target}
        /\ step = "event" => req'[r].rows = {req'[r].target, "topic"}
        /\ step = "commit" => req'[r].rows = {req'[r].target, "topic", Re!Of(req'[r].target)}
    BY <1>4, <1>6
  <2>2. \A q \in Req \ {r} : req'[r].rows \cap req[q].rows = {}
    BY <1>2, <1>4, <1>7
  <2> QED BY <1>3, <1>4, <1>6, <1>8, <2>1, <2>2 DEF MovesWell, Running
<1> QED BY <1>5, <1>9, MovesKeep

LEMMA CommitKeeps ==
    ASSUME Re!ReactionConstants, ReactionsInv, NEW r \in Req, NEW told \in BOOLEAN,
           Re!Commit(r, told)
    PROVE  ReactionsInv'
<1> DEFINE u == req[r].user
           t == req[r].target
<1>1. /\ req[r].pc = "commit"
      /\ reactions' = [reactions EXCEPT ![t] = IF req[r].set THEN @ \cup {u} ELSE @ \ {u}]
      /\ log' = [log EXCEPT ![t][u] = Re!Logged(r)]
      /\ events' = [events EXCEPT ![t][u] = Re!Told(r, @, told)]
      /\ hasty' = IF \E q \in Req \ {r} : req[q].user = u /\ req[q].pc # "count"
                  THEN hasty \cup {u} ELSE hasty
      /\ late' = IF ~req[r].set THEN late \ {<<t, u>>}
                 ELSE IF t = "comment" /\ deleted THEN late \cup {<<t, u>>} ELSE late
      /\ req' = [req EXCEPT ![r] = Re!Idle]
      /\ UNCHANGED <<deleted, frozen, asked>>
  BY DEF Re!Commit, Re!Done
<1>2. /\ ReactionsTyped /\ NotOwn /\ RowsHeld /\ RowsApart /\ WithinLimit
      /\ Re!LogMatches /\ Re!SeldomEnough /\ Re!UnreadStands
  BY DEF ReactionsInv
<1>3. u \in User /\ t \in Re!Target /\ u # Re!Of(t)
  BY <1>1, <1>2 DEF NotOwn, ReactionsTyped, Reaction
<1> HIDE DEF u, t
<1>4. Re!Logged(r) = IF req[r].set THEN "fresh" ELSE "none"
  BY DEF Re!Logged
<1>5. /\ events \in [Re!Target -> [User -> EventState]] /\ log \in [Re!Target -> [User -> LogState]]
      /\ reactions \in [Re!Target -> SUBSET User] /\ req \in [Req -> Reaction]
  BY <1>2 DEF ReactionsTyped
<1>6. Re!Told(r, events[t][u], told) \in EventState
  BY <1>3, <1>5 DEF Re!Told, EventState
<1>7. \A y \in Re!Target, v \in User :
        /\ log'[y][v] = IF y = t /\ v = u THEN Re!Logged(r) ELSE log[y][v]
        /\ events'[y][v] = IF y = t /\ v = u THEN Re!Told(r, events[t][u], told)
                           ELSE events[y][v]
  BY <1>1, <1>3, <1>5
<1>8. \A y \in Re!Target :
        reactions'[y] = IF y # t THEN reactions[y]
                        ELSE IF req[r].set THEN reactions[t] \cup {u} ELSE reactions[t] \ {u}
  BY <1>1, <1>3, <1>5
<1>9. req' \in [Req -> Reaction] /\ req'[r] = Re!Idle /\ \A q \in Req \ {r} : req'[q] = req[q]
  <2>1. Re!Idle \in Reaction
    BY DEF Re!Idle, Reaction, Re!Target
  <2> QED BY <1>1, <1>5, <2>1
<1>10. ReactionsTyped'
  <2>1. reactions' \in [Re!Target -> SUBSET User]
    BY <1>1, <1>3, <1>5
  <2>2. log' \in [Re!Target -> [User -> LogState]]
    <3>1. Re!Logged(r) \in LogState
      BY <1>4 DEF LogState
    <3> HIDE DEF LogState
    <3> QED BY <1>1, <1>3, <1>5, <3>1
  <2>3. events' \in [Re!Target -> [User -> EventState]]
    BY <1>1, <1>3, <1>5, <1>6
  <2> QED BY <1>1, <1>2, <1>9, <2>1, <2>2, <2>3 DEF ReactionsTyped
<1>11. NotOwn'
  <2>1. req'[r].pc = "idle"
    BY <1>9 DEF Re!Idle
  <2>2. \A q \in Req : req'[q].pc # "idle" =>
          req'[q].user \in User /\ req'[q].user # Re!Of(req'[q].target)
    BY <1>2, <1>9, <2>1 DEF NotOwn
  <2>3. \A y \in Re!Target : Re!Of(y) \notin reactions'[y]
    BY <1>2, <1>3, <1>8 DEF NotOwn
  <2> QED BY <2>2, <2>3 DEF NotOwn
<1>12. RowsHeld' /\ RowsApart'
  <2>1. req'[r].pc = "idle" /\ req'[r].rows = {}
    BY <1>9 DEF Re!Idle
  <2>2. RowsHeld'
    BY <1>2, <1>9, <2>1 DEF RowsHeld
  <2>3. RowsApart'
    BY <1>2, <1>9, <2>1 DEF RowsApart
  <2> QED BY <2>2, <2>3
<1>13. hasty \subseteq hasty'
  BY <1>1
<1>14. \A v \in User : v # u => Re!Fresh(v)' = Re!Fresh(v)
  BY <1>7 DEF Re!Fresh
<1>15. WithinLimit'
  <2> SUFFICES ASSUME NEW q \in Req, req'[q].pc \in Running, req'[q].set
               PROVE  \/ req'[q].user \in hasty'
                      \/ Cardinality(Re!Fresh(req[q].user)') < Frequent
    BY DEF WithinLimit
  <2>1. q # r
    BY <1>9 DEF Re!Idle, Running
  <2>2. req'[q] = req[q] /\ req[q].user \in User
    BY <1>2, <1>9, <2>1 DEF NotOwn, Running
  <2>3. CASE req[q].user = u
    BY <1>1, <2>1, <2>2, <2>3 DEF Running
  <2>4. CASE req[q].user # u
    <3>1. req[q].user \in hasty \/ Cardinality(Re!Fresh(req[q].user)) < Frequent
      BY <1>2, <2>2 DEF WithinLimit
    <3>2. Re!Fresh(req[q].user)' = {y \in Re!Target : log'[y][req[q].user] = "fresh"}
      BY <2>2 DEF Re!Fresh
    <3>3. {y \in Re!Target : log'[y][req[q].user] = "fresh"} = Re!Fresh(req[q].user)
      BY <1>7, <2>2, <2>4 DEF Re!Fresh
    <3> QED BY <1>13, <2>2, <3>1, <3>2, <3>3
  <2> QED BY <2>3, <2>4
<1>16. Re!LogMatches'
  <2> SUFFICES ASSUME NEW y \in Re!Target
               PROVE  reactions'[y] = {v \in User : log'[y][v] # "none"}
    BY DEF Re!LogMatches
  <2>1. reactions[y] = {v \in User : log[y][v] # "none"}
    BY <1>2 DEF Re!LogMatches
  <2> QED BY <1>3, <1>4, <1>7, <1>8, <2>1
<1>17. Re!UnreadStands'
  <2> SUFFICES ASSUME NEW y \in Re!Target, NEW v \in User, events'[y][v] = "unread"
               PROVE  /\ v \in reactions'[y]
                      /\ y = "comment" /\ deleted => <<y, v>> \in late'
    BY <1>1 DEF Re!UnreadStands
  <2>1. CASE y = t /\ v = u
    <3>1. Re!Told(r, events[t][u], told) = "unread"
      BY <1>7, <2>1
    <3>2. req[r].set
      BY <3>1 DEF Re!Told
    <3> QED BY <1>1, <1>8, <2>1, <3>2
  <2>2. CASE ~(y = t /\ v = u)
    <3>1. /\ v \in reactions[y]
          /\ y = "comment" /\ deleted => <<y, v>> \in late
      BY <1>2, <1>7, <2>2 DEF Re!UnreadStands
    <3>2. v \in reactions'[y]
      BY <1>8, <2>2, <3>1
    <3>3. <<y, v>> \in late => <<y, v>> \in late'
      BY <1>1, <2>2
    <3> QED BY <3>1, <3>2, <3>3
  <2> QED BY <2>1, <2>2
<1>18. Re!SeldomEnough'
  <2>1. \A v \in User : v \in hasty \/ Cardinality(Re!Fresh(v)) <= Frequent
    BY <1>2, ReCardinality DEF Re!SeldomEnough
  <2> SUFFICES ASSUME NEW v \in User
               PROVE  v \in hasty' \/ Cardinality(Re!Fresh(v)') <= Frequent
    BY ReCardinality DEF Re!SeldomEnough
  <2>2. CASE v # u
    BY <1>13, <1>14, <2>1, <2>2
  <2>3. CASE v = u
    <3> DEFINE before == {y \in Re!Target : log[y][u] = "fresh"}
               after  == {y \in Re!Target : log'[y][u] = "fresh"}
    <3>1. Re!Fresh(v) = before /\ Re!Fresh(v)' = after
      BY <2>3 DEF Re!Fresh
    <3>2. /\ IsFiniteSet(before) /\ Cardinality(before) \in Nat
          /\ IsFiniteSet(after) /\ Cardinality(after) \in Nat
      BY <3>1, FreshFinite
    <3>3. CASE req[r].set
      <4>1. after \subseteq before \cup {t}
        BY <1>3, <1>7
      <4>2. u \in hasty \/ Cardinality(before) < Frequent
        <5>1. req[r].user \in hasty \/ Cardinality(Re!Fresh(req[r].user)) < Frequent
          BY <1>1, <1>2, <3>3 DEF WithinLimit, Running
        <5> QED BY <5>1 DEF Re!Fresh, u
      <4> HIDE DEF before, after
      <4>3. /\ IsFiniteSet(before \cup {t})
            /\ Cardinality(before \cup {t}) \in {Cardinality(before), Cardinality(before) + 1}
        BY <3>2, FS_AddElement
      <4>4. Cardinality(after) <= Cardinality(before \cup {t})
        BY <4>1, <4>3, FS_Subset
      <4>5. Cardinality(before) < Frequent => Cardinality(after) <= Frequent
        BY <3>2, <4>3, <4>4 DEF Re!ReactionConstants
      <4> QED BY <1>13, <2>3, <3>1, <4>2, <4>5
    <3>4. CASE ~req[r].set
      <4>1. after \subseteq before
        BY <1>3, <1>4, <1>7, <3>4
      <4> HIDE DEF before, after
      <4>2. Cardinality(after) <= Cardinality(before)
        BY <3>2, <4>1, FS_Subset
      <4> QED BY <1>13, <2>1, <2>3, <3>1, <3>2, <4>2 DEF Re!ReactionConstants
    <3> QED BY <3>3, <3>4
  <2> QED BY <2>2, <2>3
<1> QED BY <1>10, <1>11, <1>12, <1>15, <1>16, <1>17, <1>18 DEF ReactionsInv

\* What the others do leaves requests, reactions and what they are counted by.
LEMMA OthersKeep ==
    ASSUME ReactionsInv, UNCHANGED <<reactions, log, req, asked, hasty, late>>,
           events' \in [Re!Target -> [User -> EventState]],
           deleted' \in BOOLEAN, frozen' \in SUBSET User, Re!UnreadStands'
    PROVE  ReactionsInv'
<1>1. ReactionsTyped'
  BY DEF ReactionsInv, ReactionsTyped
<1>2. NotOwn' /\ RowsHeld' /\ RowsApart' /\ Re!LogMatches'
  BY DEF ReactionsInv, NotOwn, RowsHeld, RowsApart, Re!LogMatches
<1>3. WithinLimit' /\ Re!SeldomEnough'
  BY DEF ReactionsInv, WithinLimit, Re!SeldomEnough, Re!Fresh
<1> QED BY <1>1, <1>2, <1>3 DEF ReactionsInv

LEMMA TenMinutesKeep ==
    ASSUME Re!ReactionConstants, ReactionsInv, Re!TenMinutes
    PROVE  ReactionsInv'
<1>1. /\ log' = [t \in Re!Target |->
                   [u \in User |-> IF log[t][u] = "none" THEN "none" ELSE "old"]]
      /\ UNCHANGED <<reactions, events, deleted, frozen, req, asked, hasty, late>>
  BY DEF Re!TenMinutes
<1>2. ReactionsTyped'
  BY <1>1 DEF ReactionsInv, ReactionsTyped, LogState
<1>3. NotOwn' /\ RowsHeld' /\ RowsApart' /\ Re!UnreadStands'
  BY <1>1 DEF ReactionsInv, NotOwn, RowsHeld, RowsApart, Re!UnreadStands
<1>4. Re!LogMatches'
  BY <1>1 DEF ReactionsInv, Re!LogMatches
<1>5. \A u \in User : {t \in Re!Target : log'[t][u] = "fresh"} = {}
  BY <1>1
<1>6. Cardinality({}) = 0
  BY FS_EmptySet
<1>7. WithinLimit'
  <2> SUFFICES ASSUME NEW q \in Req, req'[q].pc \in Running, req'[q].set
               PROVE  \/ req'[q].user \in hasty'
                      \/ Cardinality(Re!Fresh(req[q].user)') < Frequent
    BY DEF WithinLimit
  <2>1. req[q].user \in User /\ req' = req
    BY <1>1 DEF ReactionsInv, NotOwn, Running
  <2>2. Re!Fresh(req[q].user)' = {}
    BY <1>5, <2>1 DEF Re!Fresh
  <2>3. req[q].user \in hasty \/ Cardinality(Re!Fresh(req[q].user)) < Frequent
    BY <2>1 DEF ReactionsInv, WithinLimit
  <2>4. Cardinality(Re!Fresh(req[q].user)) \in Nat
    BY FreshFinite
  <2>5. Frequent \in Nat
    BY DEF Re!ReactionConstants
  <2> QED BY <1>1, <1>6, <2>1, <2>2, <2>3, <2>4, <2>5
<1>8. Re!SeldomEnough'
  <2> SUFFICES ASSUME NEW v \in User PROVE Cardinality(Re!Fresh(v)') <= Frequent
    BY ReCardinality DEF Re!SeldomEnough
  <2>1. Re!Fresh(v)' = {}
    BY <1>5 DEF Re!Fresh
  <2> QED BY <1>6, <2>1 DEF Re!ReactionConstants
<1> QED BY <1>2, <1>3, <1>4, <1>7, <1>8 DEF ReactionsInv

LEMMA StepReactions ==
    ASSUME Re!ReactionConstants, ReactionsInv, [Re!Next]_Re!vars
    PROVE  ReactionsInv'
<1> USE DEF ReactionsTyped
<1>1. CASE UNCHANGED Re!vars
  <2>1. UNCHANGED <<reactions, log, events, deleted, frozen, req, asked, hasty, late>>
    BY <1>1 DEF Re!vars
  <2>2. Re!UnreadStands'
    BY <2>1 DEF ReactionsInv, Re!UnreadStands
  <2> QED BY <2>1, <2>2, OthersKeep DEF ReactionsInv
<1>2. ASSUME NEW r \in Req, Re!WriteTarget(r) \/ Re!WriteTopic(r) \/ Re!WriteAuthor(r)
      PROVE  ReactionsInv'
  <2>1. req[r].target \in Re!Target /\ "topic" \in Re!Target
    BY DEF ReactionsInv, Reaction, Re!Target
  <2>2. req[r].target \in RowOf /\ "topic" \in RowOf /\ Re!Of(req[r].target) \in RowOf
    BY <2>1 DEF RowOf
  <2>3. /\ UNCHANGED <<reactions, log, events, deleted, frozen, asked, hasty, late>>
        /\ \/ req[r].pc = "target" /\ Re!Take(r, req[r].target, "lastmod")
           \/ req[r].pc = "lastmod" /\ Re!Take(r, "topic", "event")
           \/ req[r].pc = "event" /\ Re!Take(r, Re!Of(req[r].target), "commit")
    BY <1>2 DEF Re!WriteTarget, Re!WriteTopic, Re!WriteAuthor, Re!Rows
  <2> QED BY <2>2, <2>3, TakeKeeps
<1>3. ASSUME NEW r \in Req, Re!Abort(r) PROVE ReactionsInv'
  BY <1>3, DoneKeeps DEF Re!Abort
<1>4. ASSUME NEW from, NEW x, NEW to, Re!PurgeStep(from, x, to) PROVE ReactionsInv'
  <2>1. UNCHANGED <<reactions, log, events, deleted, frozen, req, asked, hasty, late>>
    BY <1>4 DEF Re!PurgeStep
  <2>2. Re!UnreadStands'
    BY <2>1 DEF ReactionsInv, Re!UnreadStands
  <2> QED BY <2>1, <2>2, OthersKeep DEF ReactionsInv
<1>5. CASE Re!PurgeAborts
  <2>1. UNCHANGED <<reactions, log, events, deleted, frozen, req, asked, hasty, late>>
    BY <1>5 DEF Re!PurgeAborts
  <2>2. Re!UnreadStands'
    BY <2>1 DEF ReactionsInv, Re!UnreadStands
  <2> QED BY <2>1, <2>2, OthersKeep DEF ReactionsInv
<1>6. CASE Re!PurgeCommit
  <2>1. /\ events' = [events EXCEPT !["comment"] = [u \in User |-> "none"]]
        /\ deleted' = TRUE
        /\ UNCHANGED <<reactions, log, frozen, req, asked, hasty, late>>
    BY <1>6 DEF Re!PurgeCommit
  <2>2. events' \in [Re!Target -> [User -> EventState]]
    BY <2>1 DEF ReactionsInv, EventState
  <2>3. \A v \in User : events'["comment"][v] = "none" /\ events'["topic"] = events["topic"]
    BY <2>1 DEF ReactionsInv, Re!Target
  <2>4. Re!UnreadStands'
    BY <2>1, <2>3 DEF ReactionsInv, Re!UnreadStands, Re!Target
  <2> QED BY <2>1, <2>2, <2>4, OthersKeep DEF ReactionsInv
<1>7. ASSUME NEW t \in Re!Target, Re!ReadEvents(t) PROVE ReactionsInv'
  <2>1. /\ events' = [events EXCEPT ![t] =
                        [u \in User |-> IF @[u] = "unread" THEN "read" ELSE @[u]]]
        /\ UNCHANGED <<reactions, log, deleted, frozen, req, asked, hasty, late>>
    BY <1>7 DEF Re!ReadEvents
  <2>2. events' \in [Re!Target -> [User -> EventState]]
    BY <2>1 DEF ReactionsInv, EventState
  <2>3. \A y \in Re!Target, v \in User : events'[y][v] = "unread" => events[y][v] = "unread"
    BY <2>1 DEF ReactionsInv
  <2>4. Re!UnreadStands'
    BY <2>1, <2>3 DEF ReactionsInv, Re!UnreadStands
  <2> QED BY <2>1, <2>2, <2>4, OthersKeep DEF ReactionsInv
<1>8. ASSUME NEW u \in User, Re!Freeze(u) PROVE ReactionsInv'
  <2>1. /\ frozen' = frozen \cup {u}
        /\ UNCHANGED <<reactions, log, events, deleted, req, asked, hasty, late>>
    BY <1>8 DEF Re!Freeze
  <2>2. Re!UnreadStands'
    BY <2>1 DEF ReactionsInv, Re!UnreadStands
  <2> QED BY <2>1, <2>2, OthersKeep DEF ReactionsInv
<1> QED BY <1>1, <1>2, <1>3, <1>4, <1>5, <1>6, <1>7, <1>8, AskKeeps, CountKeeps, CommitKeeps,
           TenMinutesKeep DEF Re!Next

\* All requests take their rows in one order: target, topic, author.
LEMMA OneOrder == ASSUME Re!ReactionConstants, ReactionsInv PROVE Re!NoCircle
<1> SUFFICES ASSUME NEW r \in Req, NEW q \in Req, r # q,
                    Re!Needs(r) \in req[q].rows, Re!Needs(q) \in req[r].rows
             PROVE  FALSE
  BY DEF Re!NoCircle
<1>1. ASSUME NEW x \in Req
      PROVE  /\ req[x].target \in Re!Target /\ req[x].rows \in SUBSET RowOf
             /\ Nobody \notin req[x].rows
             /\ req[x].pc \in {"idle", "count", "target", "lastmod", "event", "commit"}
  BY DEF ReactionsInv, ReactionsTyped, Reaction, Running, RowOf, Re!ReactionConstants
<1>2. /\ req[r].rows \cap req[q].rows = {}
      /\ \A x \in Req : /\ req[x].pc \in {"idle", "count", "target"} => req[x].rows = {}
                        /\ req[x].pc = "lastmod" => req[x].rows = {req[x].target}
                        /\ req[x].pc = "event" => req[x].rows = {req[x].target, "topic"}
  BY DEF ReactionsInv, RowsApart, RowsHeld
<1>3. \A x \in Req : Re!Needs(x) =
        IF req[x].pc = "target" THEN req[x].target
        ELSE IF req[x].pc = "lastmod" THEN "topic"
        ELSE IF req[x].pc = "event" THEN Re!Of(req[x].target) ELSE Nobody
  BY DEF Re!Needs, Re!Rows
<1>4. \A x \in Req : Re!Of(req[x].target) \notin Re!Target
  BY <1>1 DEF Re!ReactionConstants
<1>5. req[r].pc \in {"lastmod", "event"} /\ req[q].pc \in {"lastmod", "event"}
  <2>1. Re!Needs(r) # Nobody /\ Re!Needs(q) # Nobody
    BY <1>1
  <2>2. req[r].rows # {} /\ req[q].rows # {}
    OBVIOUS
  <2> QED BY <1>2, <1>3, <2>1, <2>2
<1>6. req[r].rows \subseteq Re!Target /\ req[q].rows \subseteq Re!Target
  BY <1>1, <1>2, <1>5 DEF Re!Target
<1>7. Re!Needs(r) \in Re!Target /\ Re!Needs(q) \in Re!Target
  BY <1>6
<1>8. req[r].pc = "lastmod" /\ req[q].pc = "lastmod"
  BY <1>3, <1>4, <1>5, <1>7
<1> QED BY <1>2, <1>3, <1>8

\* However reactions, their withdrawals, the deletion of the comment and the
\* reading of notifications interleave: the column that is shown and the log
\* that is counted name the same users, an unread event tells of a reaction that
\* stands, the limit is passed only by requests under way together, and no two
\* requests wait for each other's rows (do_set_reaction).
THEOREM ReactionsStayConsistent ==
    ASSUME Re!ReactionConstants
    PROVE  Re!Spec => []ReactionsConsistent
<1>1. Re!Init => ReactionsInv
  BY InitReactions
<1>2. ReactionsInv /\ [Re!Next]_Re!vars => ReactionsInv'
  BY StepReactions
<1>3. ReactionsInv => ReactionsConsistent
  <2> SUFFICES ASSUME ReactionsInv PROVE ReactionsConsistent
    OBVIOUS
  <2>1. ReactionsTyped /\ NotOwn
    BY DEF ReactionsInv
  <2>2. Re!ReactionsTypeOK
    BY <2>1 DEF ReactionsTyped, NotOwn, LogState, EventState, Re!ReactionsTypeOK
  <2> QED BY <2>2, OneOrder DEF ReactionsInv, ReactionsConsistent, Re!ReactionsConsistent
<1> QED BY <1>1, <1>2, <1>3, PTL DEF Re!Spec

-----------------------------------------------------------------------------
(* Warnings *)

Argument == [id : 0 .. MaxWarnings, author : Author \cup {Nobody}, rule : BOOLEAN]
Held == [by : Req \cup {Nobody}, count : 0 .. Cardinality(Author), missed : BOOLEAN]
WarningsTyped ==
    /\ warnings \in SUBSET Warning /\ last \in 0 .. MaxWarnings
    /\ recent \in [Author -> Nat]
    /\ open_warnings \in 0 .. Cardinality(Author) /\ missed \in BOOLEAN
    /\ pc \in [Req -> {"idle", "insert", "close", "count", "write", "commit"}]
    /\ arg \in [Req -> Argument]
    /\ seen \in [Req -> 0 .. Cardinality(Author)]
    /\ row \in Held
    /\ job \in [counted : BOOLEAN, count : 0 .. Cardinality(Author), out : SUBSET (1 .. MaxWarnings)]
    /\ left \in SUBSET (1 .. MaxWarnings)

Writing == {"count", "write", "commit"}
Inserts(r) == pc[r] \in Writing /\ arg[r].author # Nobody
Closes(r)  == pc[r] \in Writing \cup {"close"} /\ arg[r].author = Nobody

\* An id is one warning's, committed or about to be; what is closed is there.
Identified ==
    /\ \A v, w \in warnings : v.id = w.id => v = w
    /\ \A w \in warnings : w.id <= last
    /\ \A r \in Req : Inserts(r) =>
         /\ arg[r].id \in 1 .. last
         /\ \A w \in warnings : w.id # arg[r].id
         /\ \A q \in Req \ {r} : Inserts(q) => arg[q].id # arg[r].id
    /\ \A r \in Req : Closes(r) =>
         \E w \in warnings : w.id = arg[r].id /\ w.rule = arg[r].rule
    /\ \A r \in Req : /\ pc[r] = "insert" => arg[r].author # Nobody
                      /\ pc[r] = "close" => arg[r].author = Nobody

\* The row of the topic is held until the commit, by whoever changes complaints
\* and by nobody else, and the number in it is right or noted to be early.
RowTold ==
    /\ row.by # Nobody => pc[row.by] = "commit"
    /\ \A r \in Req : row.by = r => row.missed \/ row.count = Count(After(r))
    /\ \A r \in Req : pc[r] = "commit" /\ arg[r].rule => row.by = r

\* Those that count to the limit of an author: of the last hour, and under way.
IdsOf(a)   == {w.id : w \in {v \in warnings : v.author = a}}
Pending(a) == {r \in Req : pc[r] \in Writing \cup {"insert"} /\ arg[r].author = a}
Limited ==
    \A a \in Author :
        /\ recent[a] <= Cardinality(IdsOf(a))
        /\ recent[a] + Cardinality(Pending(a)) <= Hourly - 1 + Cardinality(Req)

WarningsInv == WarningsTyped /\ Identified /\ RowTold /\ Limited /\ OpenWarningsExact

Complaints(rows) == {v \in rows : v.open /\ v.rule}

LEMMA CountIs ==
    ASSUME NEW rows, rows \subseteq Warning
    PROVE  /\ Count(rows) = Cardinality({w.author : w \in Complaints(rows)})
           /\ Count(rows) \in 0 .. Cardinality(Author)
<1>1. Count(rows) = Cardinality({w.author : w \in Complaints(rows)})
  BY DEF Count, Complaints
<1>2. {w.author : w \in Complaints(rows)} \subseteq Author
  BY DEF Complaints, Warning
<1>3. IsFiniteSet(Author)
  BY WarningAssumption
<1>4. /\ IsFiniteSet({w.author : w \in Complaints(rows)})
      /\ Cardinality({w.author : w \in Complaints(rows)}) <= Cardinality(Author)
  BY <1>2, <1>3, FS_Subset
<1>5. /\ Cardinality({w.author : w \in Complaints(rows)}) \in Nat
      /\ Cardinality(Author) \in Nat
  BY <1>3, <1>4, FS_CardinalityType
<1> QED BY <1>1, <1>4, <1>5

\* The row that the request of a new warning is about to commit.
Written(r) == [id |-> arg[r].id, author |-> arg[r].author, rule |-> arg[r].rule, open |-> TRUE]

\* What a transaction sees: the rows, with one more or with one closed.
LEMMA AfterIs ==
    ASSUME WarningsTyped, Identified, NEW r \in Req, pc[r] \in Writing
    PROVE  /\ After(r) \in SUBSET Warning
           /\ arg[r].author # Nobody => After(r) = warnings \cup {Written(r)}
           /\ arg[r].author = Nobody =>
                /\ \A w \in warnings : \E v \in After(r) :
                     /\ v.id = w.id /\ v.author = w.author /\ v.rule = w.rule
                     /\ v.open <=> w.open /\ w.id # arg[r].id
                /\ \A v \in After(r) : \E w \in warnings :
                     /\ v.id = w.id /\ v.author = w.author /\ v.rule = w.rule
                     /\ v.open <=> w.open /\ w.id # arg[r].id
<1>1. warnings \in SUBSET Warning /\ arg[r] \in Argument
  BY DEF WarningsTyped
<1>2. CASE arg[r].author # Nobody
  <2>1. After(r) = warnings \cup {Written(r)}
    BY <1>2 DEF After, Written
  <2>2. arg[r].id \in 1 .. last /\ last \in 0 .. MaxWarnings
    BY <1>2 DEF Identified, Inserts, WarningsTyped
  <2>3. Written(r) \in Warning
    BY <1>1, <1>2, <2>2, WarningAssumption DEF Written, Warning, Argument
  <2> QED BY <1>1, <1>2, <2>1, <2>3
<1>3. CASE arg[r].author = Nobody
  <2> DEFINE AsClosed(w) == [w EXCEPT !.open = w.open /\ w.id # arg[r].id]
  <2>1. After(r) = {AsClosed(w) : w \in warnings}
    BY <1>3 DEF After
  <2>2. ASSUME NEW w \in warnings
        PROVE  /\ AsClosed(w) \in Warning
               /\ AsClosed(w).id = w.id /\ AsClosed(w).author = w.author /\ AsClosed(w).rule = w.rule
               /\ AsClosed(w).open <=> w.open /\ w.id # arg[r].id
    BY <1>1 DEF Warning
  <2> HIDE DEF AsClosed
  <2> QED BY <1>3, <2>1, <2>2
<1> QED BY <1>2, <1>3

\* What a hint or its end does not change is who complains.
LEMMA QuietCount ==
    ASSUME WarningsTyped, Identified, NEW r \in Req, pc[r] \in Writing, ~arg[r].rule
    PROVE  /\ Complaints(After(r)) = Complaints(warnings)
           /\ Count(After(r)) = Count(warnings)
<1>1. warnings \in SUBSET Warning /\ After(r) \in SUBSET Warning
  BY AfterIs DEF WarningsTyped
<1>2. ASSUME arg[r].author # Nobody
      PROVE  Complaints(After(r)) = Complaints(warnings)
  <2>1. After(r) = warnings \cup {Written(r)} /\ ~Written(r).rule
    BY <1>2, AfterIs DEF Written
  <2> HIDE DEF Written
  <2> QED BY <2>1 DEF Complaints
<1>3. ASSUME arg[r].author = Nobody
      PROVE  Complaints(After(r)) = Complaints(warnings)
  <2>1. Closes(r)
    BY <1>3 DEF Closes
  <2>2. PICK x \in warnings : x.id = arg[r].id /\ ~x.rule
    BY <2>1 DEF Identified
  <2>3. \A w \in warnings : w.rule => w.id # arg[r].id
    BY <2>2 DEF Identified
  <2>4. After(r) = {[w EXCEPT !.open = w.open /\ w.id # arg[r].id] : w \in warnings}
    BY <1>3 DEF After
  <2>5. ASSUME NEW w \in warnings, w.open, w.rule
        PROVE  [w EXCEPT !.open = w.open /\ w.id # arg[r].id] = w
    <3>1. w.id # arg[r].id /\ w \in Warning
      BY <1>1, <2>3, <2>5
    <3> QED BY <2>5, <3>1 DEF Warning
  <2>6. Complaints(warnings) \subseteq Complaints(After(r))
    BY <2>4, <2>5 DEF Complaints
  <2>7. Complaints(After(r)) \subseteq Complaints(warnings)
    <3> SUFFICES ASSUME NEW v \in After(r), v.open, v.rule PROVE v \in Complaints(warnings)
      BY DEF Complaints
    <3>1. PICK w \in warnings : v = [w EXCEPT !.open = w.open /\ w.id # arg[r].id]
      BY <2>4
    <3>2. w.open /\ w.rule
      BY <1>1, <3>1 DEF Warning
    <3>3. v = w
      BY <2>5, <3>1, <3>2
    <3> QED BY <3>2, <3>3 DEF Complaints
  <2> QED BY <2>6, <2>7
<1>4. Complaints(After(r)) = Complaints(warnings)
  BY <1>2, <1>3
<1>5. /\ Count(After(r)) = Cardinality({w.author : w \in Complaints(After(r))})
      /\ Count(warnings) = Cardinality({w.author : w \in Complaints(warnings)})
  BY <1>1, CountIs
<1> QED BY <1>4, <1>5

LEMMA InitWarnings == Init => WarningsInv
<1> SUFFICES ASSUME Init PROVE WarningsInv
  OBVIOUS
<1>1. IsFiniteSet({}) /\ Cardinality({}) = 0
  BY FS_EmptySet
<1>2. Cardinality(Author) \in Nat /\ Cardinality(Req) \in Nat
  BY WarningAssumption, FS_CardinalityType
<1>3. NoArg \in Argument /\ Free \in Held
  BY <1>2, WarningAssumption DEF NoArg, Argument, Free, Held
<1>4. WarningsTyped
  <2>1. 0 \in 0 .. MaxWarnings /\ 0 \in 0 .. Cardinality(Author)
    BY <1>2, WarningAssumption
  <2> QED BY <1>3, <2>1 DEF Init, WarningsTyped, NoJob
<1>5. Identified
  BY DEF Init, Identified, Inserts, Closes, Writing
<1>6. RowTold
  BY WarningAssumption DEF Init, RowTold, Free
<1>7. OpenWarningsExact
  <2>1. {w.author : w \in {v \in Kept(warnings, left) : v.open /\ v.rule}} = {}
    BY DEF Init, Kept
  <2> QED BY <1>1, <2>1 DEF Init, OpenWarningsExact, Count
<1>8. Limited
  <2> SUFFICES ASSUME NEW a \in Author
               PROVE  /\ 0 <= Cardinality(IdsOf(a))
                      /\ 0 + Cardinality(Pending(a)) <= Hourly - 1 + Cardinality(Req)
    BY DEF Init, Limited
  <2>1. IdsOf(a) = {} /\ Pending(a) = {}
    BY DEF Init, IdsOf, Pending, Writing
  <2> QED BY <1>1, <1>2, <2>1, WarningAssumption
<1> QED BY <1>4, <1>5, <1>6, <1>7, <1>8 DEF WarningsInv

\* The rows that a transaction with the argument a sees on top of ws, and the
\* complaints among them, which hang on the complaints of ws only.
Rows(ws, a) ==
    IF a.author = Nobody
    THEN {[w EXCEPT !.open = w.open /\ w.id # a.id] : w \in ws}
    ELSE ws \cup {[id |-> a.id, author |-> a.author, rule |-> a.rule, open |-> TRUE]}

LEMMA ComplaintsOf ==
    ASSUME NEW ws \in SUBSET Warning, NEW a
    PROVE  Complaints(Rows(ws, a)) =
             IF a.author = Nobody THEN {w \in Complaints(ws) : w.id # a.id}
             ELSE Complaints(ws) \cup
                    {w \in {[id |-> a.id, author |-> a.author, rule |-> a.rule, open |-> TRUE]} :
                       a.rule}
<1>1. CASE a.author # Nobody
  <2> DEFINE x == [id |-> a.id, author |-> a.author, rule |-> a.rule, open |-> TRUE]
  <2>1. Rows(ws, a) = ws \cup {x} /\ x.open /\ x.rule = a.rule
    BY <1>1 DEF Rows
  <2> HIDE DEF x
  <2>2. Complaints(Rows(ws, a)) = Complaints(ws) \cup {w \in {x} : a.rule}
    BY <2>1 DEF Complaints
  <2> QED BY <1>1, <2>2 DEF x
<1>2. CASE a.author = Nobody
  <2> DEFINE AsClosed(w) == [w EXCEPT !.open = w.open /\ w.id # a.id]
  <2>1. Rows(ws, a) = {AsClosed(w) : w \in ws}
    BY <1>2 DEF Rows
  <2>2. ASSUME NEW w \in ws
        PROVE  /\ AsClosed(w).open <=> w.open /\ w.id # a.id
               /\ AsClosed(w).rule = w.rule
               /\ w.open /\ w.id # a.id => AsClosed(w) = w
    BY DEF Warning
  <2> HIDE DEF AsClosed
  <2>3. Complaints(Rows(ws, a)) = {w \in Complaints(ws) : w.id # a.id}
    BY <2>1, <2>2 DEF Complaints
  <2> QED BY <1>2, <2>3
<1> QED BY <1>1, <1>2

\* Of the requests only r goes on.
Only(r) == \A q \in Req \ {r} : pc'[q] = pc[q] /\ arg'[q] = arg[q]

\* Who does not touch the row of the topic, and has nothing to tell it.
LEMMA RowKept ==
    ASSUME WarningsInv, NEW r \in Req, Only(r), pc[r] # "commit",
           UNCHANGED <<warnings, row>>, pc'[r] = "commit" => ~arg'[r].rule
    PROVE  RowTold'
<1>1. row.by \in Req \cup {Nobody} /\ Nobody \notin Req /\ row' = row
  BY WarningAssumption DEF WarningsInv, WarningsTyped, Held
<1>2. RowTold
  BY DEF WarningsInv
<1>3. row.by # Nobody => row.by \in Req \ {r}
  BY <1>1, <1>2 DEF RowTold
<1>4. ASSUME NEW q \in Req \ {r} PROVE After(q)' = After(q)
  <2>1. arg'[q] = arg[q] /\ warnings' = warnings
    BY DEF Only
  <2> QED BY <2>1 DEF After
<1> QED BY <1>1, <1>2, <1>3, <1>4 DEF RowTold, Only, Count

\* Who neither writes nor warns anew.
LEMMA IdsKept ==
    ASSUME WarningsInv, UNCHANGED <<warnings, last>>,
           \A q \in Req : /\ Inserts(q)' => Inserts(q) /\ arg'[q] = arg[q]
                          /\ Closes(q)' => Closes(q) /\ arg'[q] = arg[q]
                          /\ pc'[q] = "insert" => arg'[q].author # Nobody
                          /\ pc'[q] = "close" => arg'[q].author = Nobody
    PROVE  Identified'
BY DEF WarningsInv, Identified

\* Those under way are of the requests, and become fewer.
LEMMA PendingIs ==
    /\ Cardinality(Req) \in Nat
    /\ \A S \in SUBSET Req : /\ IsFiniteSet(S) /\ Cardinality(S) \in Nat
                             /\ Cardinality(S) <= Cardinality(Req)
                             /\ \A T \in SUBSET S : Cardinality(T) <= Cardinality(S)
<1>1. IsFiniteSet(Req)
  BY WarningAssumption
<1>2. ASSUME NEW S \in SUBSET Req
      PROVE  IsFiniteSet(S) /\ Cardinality(S) <= Cardinality(Req)
  BY <1>1, FS_Subset
<1>3. ASSUME NEW S \in SUBSET Req, NEW T \in SUBSET S
      PROVE  Cardinality(T) <= Cardinality(S)
  BY <1>2, FS_Subset
<1>4. ASSUME NEW S \in SUBSET Req PROVE Cardinality(S) \in Nat
  BY <1>2, FS_CardinalityType
<1> QED BY <1>1, <1>2, <1>3, <1>4, FS_CardinalityType

LEMMA LimitKept ==
    ASSUME WarningsInv, UNCHANGED <<warnings, recent>>,
           \A a \in Author : Pending(a)' \in SUBSET Pending(a)
    PROVE  Limited'
<1> SUFFICES ASSUME NEW a \in Author
             PROVE  /\ recent'[a] <= Cardinality(IdsOf(a)')
                    /\ recent'[a] + Cardinality(Pending(a)') <= Hourly - 1 + Cardinality(Req)
  BY DEF Limited
<1>1. Limited /\ recent[a] \in Nat /\ IdsOf(a)' = IdsOf(a) /\ recent' = recent
  BY DEF WarningsInv, WarningsTyped, IdsOf
<1>2. Pending(a) \in SUBSET Req
  BY DEF Pending
<1>3. /\ Cardinality(Pending(a)) \in Nat /\ Cardinality(Pending(a)') \in Nat
      /\ Cardinality(Pending(a)') <= Cardinality(Pending(a)) /\ Cardinality(Req) \in Nat
  BY <1>2, PendingIs
<1> QED BY <1>1, <1>3, WarningAssumption DEF Limited

LEMMA CheckKeeps ==
    ASSUME WarningsInv, NEW r \in Req, NEW a \in Author, NEW rule \in BOOLEAN, Check(r, a, rule)
    PROVE  WarningsInv'
<1> DEFINE x == [id |-> 0, author |-> a, rule |-> rule]
<1>1. /\ pc[r] = "idle" /\ recent[a] < Hourly
      /\ pc' = [pc EXCEPT ![r] = "insert"] /\ arg' = [arg EXCEPT ![r] = x]
      /\ UNCHANGED <<warnings, open_warnings, recent, last, row, seen, job, missed, left>>
  BY DEF Check, Goto
<1>2. x \in Argument /\ x.author = a /\ a # Nobody
  BY WarningAssumption DEF Argument
<1> HIDE DEF x
<1>3. WarningsTyped'
  BY <1>1, <1>2 DEF WarningsInv, WarningsTyped
<1>4. /\ Only(r) /\ pc'[r] = "insert" /\ arg'[r] = x
      /\ \A q \in Req : q # r => pc'[q] = pc[q] /\ arg'[q] = arg[q]
  BY <1>1 DEF WarningsInv, WarningsTyped, Only
<1>5. RowTold' /\ OpenWarningsExact'
  BY <1>1, <1>4, RowKept DEF WarningsInv, OpenWarningsExact
<1>6. Identified'
  <2>1. \A q \in Req : /\ Inserts(q)' => Inserts(q) /\ arg'[q] = arg[q]
                       /\ Closes(q)' => Closes(q) /\ arg'[q] = arg[q]
                       /\ pc'[q] = "insert" => arg'[q].author # Nobody
                       /\ pc'[q] = "close" => arg'[q].author = Nobody
    BY <1>2, <1>4 DEF Inserts, Closes, Writing, WarningsInv, Identified
  <2> QED BY <1>1, <2>1, IdsKept
<1>7. Limited'
  <2> SUFFICES ASSUME NEW b \in Author
               PROVE  /\ recent'[b] <= Cardinality(IdsOf(b)')
                      /\ recent'[b] + Cardinality(Pending(b)') <= Hourly - 1 + Cardinality(Req)
    BY DEF Limited
  <2>1. Limited /\ recent[b] \in Nat /\ IdsOf(b)' = IdsOf(b) /\ recent' = recent
    BY <1>1 DEF WarningsInv, WarningsTyped, IdsOf
  <2>2. CASE b = a
    <3>1. Pending(b)' \in SUBSET Req
      BY DEF Pending
    <3>2. /\ Cardinality(Pending(b)') \in Nat /\ Cardinality(Req) \in Nat
          /\ Cardinality(Pending(b)') <= Cardinality(Req)
      BY <3>1, PendingIs
    <3> QED BY <1>1, <2>1, <2>2, <3>2, WarningAssumption DEF Limited
  <2>3. CASE b # a
    <3>1. Pending(b)' = Pending(b)
      BY <1>1, <1>2, <1>4, <2>3 DEF Pending, Writing
    <3> QED BY <2>1, <3>1 DEF Limited
  <2> QED BY <2>2, <2>3
<1> QED BY <1>3, <1>5, <1>6, <1>7 DEF WarningsInv

LEMMA InsertKeeps ==
    ASSUME WarningsInv, NEW r \in Req, Insert(r)
    PROVE  WarningsInv'
<1> DEFINE x == [arg[r] EXCEPT !.id = last + 1]
<1>0. PICK step \in {"count", "commit"} :
        /\ pc' = [pc EXCEPT ![r] = step]
        /\ step = "commit" => ~arg[r].rule
  BY DEF Insert, Goto
<1>1. /\ pc[r] = "insert" /\ last < MaxWarnings /\ last' = last + 1
      /\ arg' = [arg EXCEPT ![r] = x]
      /\ UNCHANGED <<warnings, open_warnings, recent, row, seen, job, missed, left>>
  <2>1. arg' = [arg EXCEPT ![r].id = last + 1]
    BY DEF Insert
  <2> QED BY <2>1 DEF Insert
<1>2. /\ last \in 0 .. MaxWarnings /\ last + 1 \in 0 .. MaxWarnings
      /\ arg[r] \in Argument /\ arg[r].author # Nobody
  BY <1>1, WarningAssumption DEF WarningsInv, WarningsTyped, Identified
<1>3. x \in Argument /\ x.author = arg[r].author /\ x.rule = arg[r].rule /\ x.id = last + 1
  BY <1>2 DEF Argument
<1> HIDE DEF x
<1>4. WarningsTyped'
  BY <1>0, <1>1, <1>2, <1>3 DEF WarningsInv, WarningsTyped
<1>5. /\ Only(r) /\ pc'[r] = step /\ arg'[r] = x
      /\ \A q \in Req : q # r => pc'[q] = pc[q] /\ arg'[q] = arg[q]
  BY <1>0, <1>1 DEF WarningsInv, WarningsTyped, Only
<1>6. RowTold' /\ OpenWarningsExact'
  BY <1>0, <1>1, <1>3, <1>5, RowKept DEF WarningsInv, OpenWarningsExact
<1>7. Identified'
  <2>1. Identified /\ warnings' = warnings /\ last' = last + 1 /\ last \in Nat
    BY <1>1, <1>2 DEF WarningsInv
  <2>2. \A w \in warnings : w.id \in 1 .. last
    BY <1>2 DEF WarningsInv, WarningsTyped, Identified, Warning
  <2>3. /\ ~Closes(r)' /\ pc'[r] # "insert"
        /\ \A q \in Req : q # r => /\ Inserts(q)' = Inserts(q) /\ Closes(q)' = Closes(q)
    BY <1>2, <1>3, <1>5 DEF Inserts, Closes
  <2>4. arg'[r].id = last + 1
    BY <1>3, <1>5
  <2>5. \A q \in Req : q # r /\ Inserts(q) => arg[q].id \in 1 .. last
    BY <2>1 DEF Identified
  <2>6. \A v, w \in warnings' : v.id = w.id => v = w
    BY <2>1 DEF Identified
  <2>7. \A w \in warnings' : w.id <= last'
    BY <2>1, <2>2
  <2>8. ASSUME NEW q \in Req, Inserts(q)'
        PROVE  /\ arg'[q].id \in 1 .. last'
               /\ \A w \in warnings' : w.id # arg'[q].id
               /\ \A y \in Req \ {q} : Inserts(y)' => arg'[y].id # arg'[q].id
    <3>1. CASE q = r
      BY <1>5, <2>1, <2>2, <2>3, <2>4, <2>5, <3>1
    <3>2. CASE q # r
      <4>1. Inserts(q) /\ arg'[q] = arg[q] /\ arg[q].id \in 1 .. last
        BY <1>5, <2>3, <2>5, <2>8, <3>2
      <4>2. \A w \in warnings' : w.id # arg'[q].id
        BY <2>1, <4>1 DEF Identified
      <4>3. ASSUME NEW y \in Req \ {q}, Inserts(y)' PROVE arg'[y].id # arg'[q].id
        <5>1. CASE y = r
          BY <2>1, <2>4, <4>1, <5>1
        <5>2. CASE y # r
          BY <1>5, <2>1, <2>3, <4>1, <4>3, <5>2 DEF Identified
        <5> QED BY <5>1, <5>2
      <4> QED BY <2>1, <4>1, <4>2, <4>3
    <3> QED BY <3>1, <3>2
  <2>9. \A q \in Req : Closes(q)' =>
          \E w \in warnings' : w.id = arg'[q].id /\ w.rule = arg'[q].rule
    BY <1>5, <2>1, <2>3 DEF Identified
  <2>10. \A q \in Req : /\ pc'[q] = "insert" => arg'[q].author # Nobody
                        /\ pc'[q] = "close" => arg'[q].author = Nobody
    BY <1>0, <1>5, <2>1, <2>3 DEF Identified
  <2> QED BY <2>6, <2>7, <2>8, <2>9, <2>10 DEF Identified
<1>8. Limited'
  <2>1. \A a \in Author : Pending(a)' \in SUBSET Pending(a)
    BY <1>1, <1>3, <1>5 DEF Pending
  <2> QED BY <1>1, <2>1, LimitKept
<1> QED BY <1>4, <1>6, <1>7, <1>8 DEF WarningsInv

LEMMA ClearCheckKeeps ==
    ASSUME WarningsInv, NEW r \in Req, NEW w \in warnings, ClearCheck(r, w)
    PROVE  WarningsInv'
<1> DEFINE x == [id |-> w.id, author |-> Nobody, rule |-> w.rule]
<1>1. /\ pc[r] = "idle"
      /\ pc' = [pc EXCEPT ![r] = "close"] /\ arg' = [arg EXCEPT ![r] = x]
      /\ UNCHANGED <<warnings, open_warnings, recent, last, row, seen, job, missed, left>>
  BY DEF ClearCheck, Goto
<1>2. x \in Argument /\ x.author = Nobody /\ x.id = w.id /\ x.rule = w.rule
  BY WarningAssumption DEF WarningsInv, WarningsTyped, Warning, Argument
<1> HIDE DEF x
<1>3. WarningsTyped'
  BY <1>1, <1>2 DEF WarningsInv, WarningsTyped
<1>4. /\ Only(r) /\ pc'[r] = "close" /\ arg'[r] = x
      /\ \A q \in Req : q # r => pc'[q] = pc[q] /\ arg'[q] = arg[q]
  BY <1>1 DEF WarningsInv, WarningsTyped, Only
<1>5. RowTold' /\ OpenWarningsExact'
  BY <1>1, <1>4, RowKept DEF WarningsInv, OpenWarningsExact
<1>6. Identified'
  <2>1. Identified /\ warnings' = warnings /\ last' = last
    BY <1>1 DEF WarningsInv
  <2>2. \A q \in Req : /\ Inserts(q)' => q # r /\ Inserts(q)
                       /\ q # r => Closes(q)' = Closes(q)
    BY <1>2, <1>4 DEF Inserts, Closes, Writing
  <2>3. \A q \in Req : /\ pc'[q] = "insert" => arg'[q].author # Nobody
                       /\ pc'[q] = "close" => arg'[q].author = Nobody
    BY <1>2, <1>4, <2>1 DEF Identified
  <2>4. \A q \in Req : Closes(q)' =>
          \E v \in warnings' : v.id = arg'[q].id /\ v.rule = arg'[q].rule
    BY <1>2, <1>4, <2>1, <2>2 DEF Identified
  <2>5. \A q \in Req : Inserts(q)' =>
         /\ arg'[q].id \in 1 .. last'
         /\ \A v \in warnings' : v.id # arg'[q].id
         /\ \A y \in Req \ {q} : Inserts(y)' => arg'[y].id # arg'[q].id
    BY <1>4, <2>1, <2>2 DEF Identified
  <2> QED BY <2>1, <2>3, <2>4, <2>5 DEF Identified
<1>7. Limited'
  <2>1. \A a \in Author : Pending(a)' \in SUBSET Pending(a)
    BY <1>2, <1>4 DEF Pending, Writing
  <2> QED BY <1>1, <2>1, LimitKept
<1> QED BY <1>3, <1>5, <1>6, <1>7 DEF WarningsInv

LEMMA CloseKeeps ==
    ASSUME WarningsInv, NEW r \in Req, Close(r)
    PROVE  WarningsInv'
<1>1. PICK step \in {"count", "commit"} :
        /\ pc' = [pc EXCEPT ![r] = step]
        /\ step = "commit" => ~arg[r].rule
  BY DEF Close, Goto
<1>2. /\ pc[r] = "close"
      /\ UNCHANGED <<warnings, open_warnings, recent, last, row, arg, seen, job, missed, left>>
  BY DEF Close
<1>3. WarningsTyped'
  BY <1>1, <1>2 DEF WarningsInv, WarningsTyped
<1>4. /\ Only(r) /\ pc'[r] = step
      /\ \A q \in Req : q # r => pc'[q] = pc[q]
  BY <1>1, <1>2 DEF WarningsInv, WarningsTyped, Only
<1>5. RowTold' /\ OpenWarningsExact'
  BY <1>1, <1>2, <1>4, RowKept DEF WarningsInv, OpenWarningsExact
<1>6. Identified'
  <2>1. \A q \in Req : /\ Inserts(q)' => Inserts(q) /\ arg'[q] = arg[q]
                       /\ Closes(q)' => Closes(q) /\ arg'[q] = arg[q]
                       /\ pc'[q] = "insert" => arg'[q].author # Nobody
                       /\ pc'[q] = "close" => arg'[q].author = Nobody
    BY <1>2, <1>4 DEF Inserts, Closes, Writing, WarningsInv, Identified
  <2> QED BY <1>2, <2>1, IdsKept
<1>7. Limited'
  <2>1. arg[r].author = Nobody /\ Nobody \notin Author
    BY <1>2, WarningAssumption DEF WarningsInv, Identified
  <2>2. \A a \in Author : Pending(a)' \in SUBSET Pending(a)
    BY <1>2, <1>4, <2>1 DEF Pending, Writing
  <2> QED BY <1>2, <2>2, LimitKept
<1> QED BY <1>3, <1>5, <1>6, <1>7 DEF WarningsInv

LEMMA RecountKeeps ==
    ASSUME WarningsInv, NEW r \in Req, Recount(r)
    PROVE  WarningsInv'
<1>1. /\ pc[r] = "count" /\ pc' = [pc EXCEPT ![r] = "write"]
      /\ seen' = [seen EXCEPT ![r] = Count(After(r))]
      /\ UNCHANGED <<warnings, open_warnings, recent, last, row, arg, job, missed, left>>
  BY DEF Recount, Goto
<1>2. After(r) \in SUBSET Warning
  BY <1>1, AfterIs DEF WarningsInv, Writing
<1>3. Count(After(r)) \in 0 .. Cardinality(Author)
  BY <1>2, CountIs
<1>4. WarningsTyped'
  BY <1>1, <1>3 DEF WarningsInv, WarningsTyped
<1>5. /\ Only(r) /\ pc'[r] = "write"
      /\ \A q \in Req : q # r => pc'[q] = pc[q]
  BY <1>1 DEF WarningsInv, WarningsTyped, Only
<1>6. RowTold' /\ OpenWarningsExact'
  BY <1>1, <1>5, RowKept DEF WarningsInv, OpenWarningsExact
<1>7. Identified'
  <2>1. \A q \in Req : /\ Inserts(q)' => Inserts(q) /\ arg'[q] = arg[q]
                       /\ Closes(q)' => Closes(q) /\ arg'[q] = arg[q]
                       /\ pc'[q] = "insert" => arg'[q].author # Nobody
                       /\ pc'[q] = "close" => arg'[q].author = Nobody
    BY <1>1, <1>5 DEF Inserts, Closes, Writing, WarningsInv, Identified
  <2> QED BY <1>1, <2>1, IdsKept
<1>8. Limited'
  <2>1. \A a \in Author : Pending(a)' \in SUBSET Pending(a)
    BY <1>1, <1>5 DEF Pending, Writing
  <2> QED BY <1>1, <2>1, LimitKept
<1> QED BY <1>4, <1>6, <1>7, <1>8 DEF WarningsInv

LEMMA WriteCountKeeps ==
    ASSUME WarningsInv, NEW r \in Req, WriteCount(r)
    PROVE  WarningsInv'
<1>1. /\ pc[r] = "write" /\ row.by = Nobody /\ pc' = [pc EXCEPT ![r] = "commit"]
      /\ row' = [by |-> r, count |-> seen[r], missed |-> seen[r] # Count(After(r))]
      /\ UNCHANGED <<warnings, open_warnings, recent, last, arg, seen, job, missed, left>>
  BY DEF WriteCount, Goto
<1>2. row' \in Held
  BY <1>1 DEF Held, WarningsInv, WarningsTyped
<1>3. WarningsTyped'
  BY <1>1, <1>2 DEF WarningsInv, WarningsTyped
<1>4. /\ pc'[r] = "commit"
      /\ \A q \in Req : q # r => pc'[q] = pc[q]
  BY <1>1 DEF WarningsInv, WarningsTyped
<1>5. RowTold'
  <2>1. row'.by = r /\ (row'.missed \/ row'.count = Count(After(r)))
    BY <1>1
  <2>2. After(r)' = After(r)
    BY <1>1 DEF After
  <2>3. Count(After(r)') = Count(After(r))
    BY <2>2
  <2>4. \A q \in Req : q # r => (pc'[q] = "commit" => ~arg'[q].rule)
    BY <1>1, <1>4, WarningAssumption DEF WarningsInv, RowTold
  <2> QED BY <1>4, <2>1, <2>3, <2>4, WarningAssumption DEF RowTold, Count
<1>6. OpenWarningsExact'
  BY <1>1 DEF WarningsInv, OpenWarningsExact
<1>7. Identified'
  <2>1. \A q \in Req : /\ Inserts(q)' => Inserts(q) /\ arg'[q] = arg[q]
                       /\ Closes(q)' => Closes(q) /\ arg'[q] = arg[q]
                       /\ pc'[q] = "insert" => arg'[q].author # Nobody
                       /\ pc'[q] = "close" => arg'[q].author = Nobody
    BY <1>1, <1>4 DEF Inserts, Closes, Writing, WarningsInv, Identified
  <2> QED BY <1>1, <2>1, IdsKept
<1>8. Limited'
  <2>1. \A a \in Author : Pending(a)' \in SUBSET Pending(a)
    BY <1>1, <1>4 DEF Pending, Writing
  <2> QED BY <1>1, <2>1, LimitKept
<1> QED BY <1>3, <1>5, <1>6, <1>7, <1>8 DEF WarningsInv

LEMMA AbortKeeps ==
    ASSUME WarningsInv, NEW r \in Req, Abort(r)
    PROVE  WarningsInv'
<1>1. /\ pc' = [pc EXCEPT ![r] = "idle"] /\ arg' = [arg EXCEPT ![r] = NoArg]
      /\ seen' = [seen EXCEPT ![r] = 0]
      /\ row' = IF row.by = r THEN Free ELSE row
      /\ UNCHANGED <<warnings, open_warnings, recent, last, job, missed, left>>
  BY DEF Abort, Forgets, Goto
<1>2. Cardinality(Author) \in Nat
  BY WarningAssumption, FS_CardinalityType
<1>3. NoArg \in Argument /\ Free \in Held /\ Free.by = Nobody
  BY <1>2, WarningAssumption DEF NoArg, Argument, Free, Held
<1> HIDE DEF Free
<1>4. WarningsTyped'
  <2>1. row' \in Held
    BY <1>1, <1>3 DEF WarningsInv, WarningsTyped
  <2>2. 0 \in 0 .. Cardinality(Author)
    BY <1>2
  <2> QED BY <1>1, <1>3, <2>1, <2>2 DEF WarningsInv, WarningsTyped
<1>5. /\ pc'[r] = "idle" /\ arg'[r] = NoArg
      /\ \A q \in Req : q # r => pc'[q] = pc[q] /\ arg'[q] = arg[q]
  BY <1>1 DEF WarningsInv, WarningsTyped
<1>6. RowTold'
  <2>1. \A q \in Req : q # r => After(q)' = After(q)
    BY <1>1, <1>5 DEF After
  <2>2. \A q \in Req : q # r => Count(After(q)') = Count(After(q))
    BY <2>1
  <2>3. row'.by # Nobody => row'.by # r /\ row' = row
    BY <1>1, <1>3
  <2>4. RowTold /\ row.by \in Req \cup {Nobody} /\ row'.by \in Req \cup {Nobody}
    BY <1>4 DEF WarningsInv, WarningsTyped, Held
  <2>5. row'.by # Nobody => pc'[row'.by] = "commit"
    BY <1>5, <2>3, <2>4 DEF RowTold
  <2>6. \A q \in Req : row'.by = q => row'.missed \/ row'.count = Count(After(q)')
    BY <2>2, <2>3, <2>4, WarningAssumption DEF RowTold
  <2>7. \A q \in Req : pc'[q] = "commit" /\ arg'[q].rule => row'.by = q
    BY <1>1, <1>5, <2>4 DEF RowTold
  <2> QED BY <2>5, <2>6, <2>7 DEF RowTold, Count
<1>7. OpenWarningsExact'
  BY <1>1 DEF WarningsInv, OpenWarningsExact
<1>8. Identified'
  <2>1. \A q \in Req : /\ Inserts(q)' => Inserts(q) /\ arg'[q] = arg[q]
                       /\ Closes(q)' => Closes(q) /\ arg'[q] = arg[q]
                       /\ pc'[q] = "insert" => arg'[q].author # Nobody
                       /\ pc'[q] = "close" => arg'[q].author = Nobody
    BY <1>5 DEF Inserts, Closes, Writing, WarningsInv, Identified
  <2> QED BY <1>1, <2>1, IdsKept
<1>9. Limited'
  <2>1. \A a \in Author : Pending(a)' \in SUBSET Pending(a)
    BY <1>5 DEF Pending, Writing
  <2> QED BY <1>1, <2>1, LimitKept
<1> QED BY <1>4, <1>6, <1>7, <1>8, <1>9 DEF WarningsInv

LEMMA PublishKeeps ==
    ASSUME WarningsInv, NEW r \in Req, Commit(r)
    PROVE  WarningsInv'
<1>1. /\ pc[r] = "commit" /\ pc[r] \in Writing
      /\ warnings' = After(r)
      /\ recent' = IF arg[r].author = Nobody THEN recent
                   ELSE [recent EXCEPT ![arg[r].author] = recent[arg[r].author] + 1]
      /\ row.by = r => open_warnings' = row.count /\ missed' = row.missed /\ row' = Free
                       /\ left' = {}
      /\ row.by # r => UNCHANGED <<open_warnings, missed, left, row>>
      /\ pc' = [pc EXCEPT ![r] = "idle"] /\ arg' = [arg EXCEPT ![r] = NoArg]
      /\ seen' = [seen EXCEPT ![r] = 0] /\ UNCHANGED <<last, job>>
  BY DEF Commit, Forgets, Goto, Writing
<1>2. WarningsTyped /\ Identified /\ RowTold /\ Limited /\ OpenWarningsExact
  BY DEF WarningsInv
<1>3. Cardinality(Author) \in Nat
  BY WarningAssumption, FS_CardinalityType
<1>4. NoArg \in Argument /\ Free \in Held /\ Free.by = Nobody
  BY <1>3, WarningAssumption DEF NoArg, Argument, Free, Held
<1> HIDE DEF Free
<1>5. /\ After(r) \in SUBSET Warning /\ warnings \in SUBSET Warning
      /\ row \in Held /\ arg[r] \in Argument /\ last \in 0 .. MaxWarnings
  BY <1>1, <1>2, AfterIs DEF WarningsTyped
<1>6. /\ pc'[r] = "idle" /\ arg'[r] = NoArg
      /\ \A q \in Req : q # r => pc'[q] = pc[q] /\ arg'[q] = arg[q]
  BY <1>1, <1>2 DEF WarningsTyped
<1>7. WarningsTyped'
  <2>1. row' \in Held /\ open_warnings' \in 0 .. Cardinality(Author) /\ missed' \in BOOLEAN
    BY <1>1, <1>2, <1>4, <1>5 DEF WarningsTyped, Held
  <2>2. recent' \in [Author -> Nat]
    BY <1>1, <1>2, <1>5 DEF WarningsTyped, Argument
  <2>3. 0 \in 0 .. Cardinality(Author)
    BY <1>3
  <2> QED BY <1>1, <1>2, <1>4, <1>5, <2>1, <2>2, <2>3 DEF WarningsTyped
<1>8. ~arg[r].rule => /\ Complaints(warnings') = Complaints(warnings)
                      /\ Count(warnings') = Count(warnings)
  BY <1>1, <1>2, QuietCount
<1>9. OpenWarningsExact'
  <2>1. CASE row.by = r
    <3>1. missed' \/ open_warnings' = Count(After(r))
      BY <1>1, <1>2, <2>1 DEF RowTold
    <3>2. Kept(After(r), {}) = After(r)
      BY DEF Kept
    <3> QED BY <1>1, <2>1, <3>1, <3>2 DEF OpenWarningsExact, Count, Kept
  <2>2. CASE row.by # r
    <3>1. ~arg[r].rule
      BY <1>1, <1>2, <2>2 DEF RowTold
    <3>2. Complaints(Kept(warnings', left)) = Complaints(Kept(warnings, left))
      <4>1. /\ Complaints(Kept(warnings', left)) = {w \in Complaints(warnings') : w.id \notin left}
            /\ Complaints(Kept(warnings, left)) = {w \in Complaints(warnings) : w.id \notin left}
        BY DEF Complaints, Kept
      <4> QED BY <1>8, <3>1, <4>1
    <3>3. Count(Kept(warnings', left)) = Count(Kept(warnings, left))
      BY <3>2 DEF Count, Complaints
    <3>4. missed' \/ open_warnings' = Count(Kept(warnings', left'))
      BY <1>1, <1>2, <2>2, <3>3 DEF OpenWarningsExact
    <3> QED BY <3>4 DEF OpenWarningsExact, Count, Kept
  <2> QED BY <2>1, <2>2
<1>10. RowTold'
  <2>1. row.by \in Req \cup {Nobody} /\ row'.by \in Req \cup {Nobody} /\ Nobody \notin Req
    BY <1>2, <1>7, WarningAssumption DEF WarningsTyped, Held
  <2>2. row'.by # Nobody => row'.by # r /\ row' = row /\ ~arg[r].rule
    BY <1>1, <1>2, <1>4, <2>1 DEF RowTold
  <2>3. row'.by # Nobody => pc'[row'.by] = "commit"
    BY <1>2, <1>6, <2>1, <2>2 DEF RowTold
  <2>4. ASSUME NEW q \in Req, row'.by = q
        PROVE  row'.missed \/ row'.count = Count(After(q)')
    <3>1. q # r /\ row.by = q /\ row' = row /\ ~arg[r].rule /\ arg'[q] = arg[q]
      BY <1>6, <2>1, <2>2, <2>4
    <3>2. After(q) = Rows(warnings, arg[q]) /\ After(q)' = Rows(warnings', arg[q])
      BY <3>1 DEF After, Rows
    <3>3. Complaints(warnings') = Complaints(warnings)
      BY <1>8, <3>1
    <3>4. Complaints(After(q)') = Complaints(After(q))
      <4>1. warnings \in SUBSET Warning /\ warnings' \in SUBSET Warning
        BY <1>1, <1>5
      <4>2. Complaints(Rows(warnings', arg[q])) = Complaints(Rows(warnings, arg[q]))
        BY <3>3, <4>1, ComplaintsOf
      <4> QED BY <3>2, <4>2
    <3>5. pc[q] \in Writing /\ pc'[q] \in Writing
      BY <1>2, <1>6, <2>1, <3>1 DEF RowTold, Writing
    <3>6. Count(After(q)) = Count(After(q)')
      BY <3>4 DEF Count, Complaints
    <3> QED BY <1>2, <3>1, <3>6 DEF RowTold
  <2>5. ASSUME NEW q \in Req, pc'[q] = "commit", arg'[q].rule PROVE row'.by = q
    <3>1. q # r
      BY <1>6, <2>5
    <3> QED BY <1>1, <1>2, <1>6, <2>5, <3>1 DEF RowTold
  <2> QED BY <2>3, <2>4, <2>5 DEF RowTold, Count
<1>11. CASE arg[r].author # Nobody
  <2> DEFINE x == Written(r)
  <2>1. /\ warnings' = warnings \cup {x} /\ x.id = arg[r].id /\ x.author = arg[r].author
        /\ x.rule = arg[r].rule /\ Inserts(r)
    BY <1>1, <1>2, <1>11, AfterIs DEF Written, Inserts
  <2> HIDE DEF x
  <2>2. /\ x.id \in 1 .. last /\ \A w \in warnings : w.id # x.id
        /\ \A q \in Req : q # r /\ Inserts(q) => arg[q].id # x.id
    BY <1>2, <2>1 DEF Identified
  <2>3. Identified'
    <3>1. \A q \in Req : /\ Inserts(q)' => q # r /\ Inserts(q)
                         /\ Closes(q)' => q # r /\ Closes(q)
      BY <1>6 DEF Inserts, Closes, Writing
    <3>2. \A v, w \in warnings' : v.id = w.id => v = w
      BY <1>2, <2>1, <2>2 DEF Identified
    <3>3. \A w \in warnings' : w.id <= last'
      BY <1>1, <1>2, <2>1, <2>2 DEF Identified
    <3>4. \A q \in Req : Inserts(q)' =>
            /\ arg'[q].id \in 1 .. last'
            /\ \A w \in warnings' : w.id # arg'[q].id
            /\ \A y \in Req \ {q} : Inserts(y)' => arg'[y].id # arg'[q].id
      BY <1>1, <1>2, <1>6, <2>1, <2>2, <3>1 DEF Identified
    <3>5. \A q \in Req : Closes(q)' =>
            \E w \in warnings' : w.id = arg'[q].id /\ w.rule = arg'[q].rule
      BY <1>2, <1>6, <2>1, <3>1 DEF Identified
    <3>6. \A q \in Req : /\ pc'[q] = "insert" => arg'[q].author # Nobody
                         /\ pc'[q] = "close" => arg'[q].author = Nobody
      BY <1>2, <1>6 DEF Identified
    <3> QED BY <3>2, <3>3, <3>4, <3>5, <3>6 DEF Identified
  <2>4. Limited'
    <3> SUFFICES ASSUME NEW b \in Author
                 PROVE  /\ recent'[b] <= Cardinality(IdsOf(b)')
                        /\ recent'[b] + Cardinality(Pending(b)') <= Hourly - 1 + Cardinality(Req)
      BY DEF Limited
    <3>1. /\ recent[b] \in Nat /\ recent[b] <= Cardinality(IdsOf(b))
          /\ recent[b] + Cardinality(Pending(b)) <= Hourly - 1 + Cardinality(Req)
      BY <1>2 DEF Limited, WarningsTyped
    <3>2. Pending(b)' = Pending(b) \ {r}
      BY <1>1, <1>4, <1>6, WarningAssumption DEF Pending, NoArg, Writing
    <3>3. IdsOf(b) \subseteq 1 .. MaxWarnings
      BY <1>5 DEF IdsOf, Warning
    <3>4. IsFiniteSet(1 .. MaxWarnings)
      BY WarningAssumption, FS_Interval
    <3>5. IsFiniteSet(IdsOf(b))
      BY <3>3, <3>4, FS_Subset
    <3>6. Pending(b) \in SUBSET Req /\ IsFiniteSet(Pending(b))
      <4>1. Pending(b) \in SUBSET Req
        BY DEF Pending
      <4> QED BY <4>1, PendingIs
    <3>7. /\ Cardinality(Pending(b)) \in Nat /\ Cardinality(Req) \in Nat
          /\ Cardinality(IdsOf(b)) \in Nat
      BY <3>5, <3>6, PendingIs, FS_CardinalityType
    <3>8. CASE b = arg[r].author
      <4>1. IdsOf(b)' = IdsOf(b) \cup {x.id} /\ x.id \notin IdsOf(b)
        BY <2>1, <2>2, <3>8 DEF IdsOf
      <4>2. Cardinality(IdsOf(b)') = Cardinality(IdsOf(b)) + 1
        BY <3>5, <4>1, FS_AddElement
      <4>3. r \in Pending(b)
        BY <1>1, <3>8 DEF Pending
      <4>4. Cardinality(Pending(b)') = Cardinality(Pending(b)) - 1
        BY <3>2, <3>6, <4>3, FS_RemoveElement
      <4>5. recent'[b] = recent[b] + 1
        BY <1>1, <1>2, <1>11, <3>8 DEF WarningsTyped
      <4> QED BY <3>1, <3>7, <4>2, <4>4, <4>5, WarningAssumption
    <3>9. CASE b # arg[r].author
      <4>1. IdsOf(b)' = IdsOf(b)
        BY <2>1, <3>9 DEF IdsOf
      <4>2. Pending(b)' = Pending(b)
        BY <3>2, <3>9 DEF Pending
      <4>3. recent'[b] = recent[b]
        BY <1>1, <1>2, <1>11, <3>9 DEF WarningsTyped
      <4> QED BY <3>1, <4>1, <4>2, <4>3
    <3> QED BY <3>8, <3>9
  <2> QED BY <1>7, <1>9, <1>10, <2>3, <2>4 DEF WarningsInv
<1>12. CASE arg[r].author = Nobody
  <2>1. \A w \in warnings : \E v \in warnings' :
           v.id = w.id /\ v.author = w.author /\ v.rule = w.rule
    BY <1>1, <1>2, <1>12, AfterIs
  <2>2. \A v \in warnings' : \E w \in warnings :
           v.id = w.id /\ v.author = w.author /\ v.rule = w.rule
    BY <1>1, <1>2, <1>12, AfterIs
  <2>3. Identified'
    <3>1. \A q \in Req : /\ Inserts(q)' => q # r /\ Inserts(q)
                         /\ Closes(q)' => q # r /\ Closes(q)
      BY <1>6 DEF Inserts, Closes, Writing
    <3>2. \A v, w \in warnings' : v.id = w.id => v = w
      <4>1. warnings' = {[w EXCEPT !.open = w.open /\ w.id # arg[r].id] : w \in warnings}
        BY <1>1, <1>12 DEF After
      <4>2. \A w \in warnings :
               [w EXCEPT !.open = w.open /\ w.id # arg[r].id].id = w.id
        BY <1>5 DEF Warning
      <4> SUFFICES ASSUME NEW v \in warnings', NEW w \in warnings', v.id = w.id PROVE v = w
        OBVIOUS
      <4>3. PICK a \in warnings : v = [a EXCEPT !.open = a.open /\ a.id # arg[r].id]
        BY <4>1
      <4>4. PICK b \in warnings : w = [b EXCEPT !.open = b.open /\ b.id # arg[r].id]
        BY <4>1
      <4>5. a = b
        BY <1>2, <4>2, <4>3, <4>4 DEF Identified
      <4> QED BY <4>3, <4>4, <4>5
    <3>3. \A w \in warnings' : w.id <= last'
      BY <1>1, <1>2, <2>2 DEF Identified
    <3>4. \A q \in Req : Inserts(q)' =>
            /\ arg'[q].id \in 1 .. last'
            /\ \A w \in warnings' : w.id # arg'[q].id
            /\ \A y \in Req \ {q} : Inserts(y)' => arg'[y].id # arg'[q].id
      BY <1>1, <1>2, <1>6, <2>2, <3>1 DEF Identified
    <3>5. \A q \in Req : Closes(q)' =>
            \E w \in warnings' : w.id = arg'[q].id /\ w.rule = arg'[q].rule
      BY <1>2, <1>6, <2>1, <3>1 DEF Identified
    <3>6. \A q \in Req : /\ pc'[q] = "insert" => arg'[q].author # Nobody
                         /\ pc'[q] = "close" => arg'[q].author = Nobody
      BY <1>2, <1>6 DEF Identified
    <3> QED BY <3>2, <3>3, <3>4, <3>5, <3>6 DEF Identified
  <2>4. Limited'
    <3>1. ASSUME NEW b \in Author
          PROVE  IdsOf(b)' = IdsOf(b) /\ Pending(b)' = Pending(b)
      <4>1. IdsOf(b)' = IdsOf(b)
        BY <2>1, <2>2 DEF IdsOf
      <4>2. Pending(b)' = Pending(b)
        BY <1>4, <1>6, <1>12, WarningAssumption DEF Pending, NoArg, Writing
      <4> QED BY <4>1, <4>2
    <3>2. recent' = recent
      BY <1>1, <1>12
    <3> QED BY <1>2, <3>1, <3>2 DEF Limited
  <2> QED BY <1>7, <1>9, <1>10, <2>3, <2>4 DEF WarningsInv
<1> QED BY <1>11, <1>12

LEMMA HourPassesKeeps ==
    ASSUME WarningsInv, NEW a \in Author, HourPasses(a)
    PROVE  WarningsInv'
<1>1. /\ recent[a] > 0 /\ recent' = [recent EXCEPT ![a] = recent[a] - 1]
      /\ UNCHANGED <<warnings, open_warnings, last, row, pc, arg, seen, job, missed, left>>
  BY DEF HourPasses
<1>2. recent \in [Author -> Nat]
  BY DEF WarningsInv, WarningsTyped
<1>3. recent' \in [Author -> Nat] /\ \A b \in Author : recent'[b] <= recent[b]
  BY <1>1, <1>2
<1>4. WarningsTyped'
  BY <1>1, <1>3 DEF WarningsInv, WarningsTyped
<1>5. Identified'
  BY <1>1 DEF WarningsInv, Identified, Inserts, Closes
<1>6. RowTold' /\ OpenWarningsExact'
  <2>1. \A q \in Req : After(q)' = After(q)
    BY <1>1 DEF After
  <2>2. \A q \in Req : Count(After(q)') = Count(After(q))
    BY <2>1
  <2> QED BY <1>1, <2>2 DEF WarningsInv, RowTold, OpenWarningsExact, Count, Kept
<1>7. Limited'
  <2> SUFFICES ASSUME NEW b \in Author
               PROVE  /\ recent'[b] <= Cardinality(IdsOf(b)')
                      /\ recent'[b] + Cardinality(Pending(b)') <= Hourly - 1 + Cardinality(Req)
    BY DEF Limited
  <2>1. IdsOf(b)' = IdsOf(b) /\ Pending(b)' = Pending(b)
    BY <1>1 DEF IdsOf, Pending
  <2>2. IdsOf(b) \subseteq 1 .. MaxWarnings
    BY DEF WarningsInv, WarningsTyped, IdsOf, Warning
  <2>3. IsFiniteSet(1 .. MaxWarnings)
    BY WarningAssumption, FS_Interval
  <2>4. IsFiniteSet(IdsOf(b))
    BY <2>2, <2>3, FS_Subset
  <2>5. Pending(b) \in SUBSET Req
    BY DEF Pending
  <2>6. /\ Cardinality(Pending(b)) \in Nat /\ Cardinality(Req) \in Nat
        /\ Cardinality(IdsOf(b)) \in Nat
    BY <2>4, <2>5, PendingIs, FS_CardinalityType
  <2>7. recent'[b] \in Nat /\ recent[b] \in Nat /\ recent'[b] <= recent[b]
    BY <1>2, <1>3
  <2> QED BY <2>1, <2>6, <2>7, WarningAssumption DEF WarningsInv, Limited
<1> QED BY <1>4, <1>5, <1>6, <1>7 DEF WarningsInv

\* Who changes nothing that the transactions of requests see or keep.
LEMMA RequestsKept ==
    ASSUME WarningsInv, UNCHANGED <<warnings, recent, last, row, pc, arg, seen>>
    PROVE  Identified' /\ RowTold' /\ Limited'
<1>1. Identified'
  BY DEF WarningsInv, Identified, Inserts, Closes
<1>2. RowTold'
  <2>1. \A q \in Req : After(q)' = After(q)
    BY DEF After
  <2>2. \A q \in Req : Count(After(q)') = Count(After(q))
    BY <2>1
  <2> QED BY <2>2 DEF WarningsInv, RowTold, Count
<1>3. Limited'
  <2>1. \A a \in Author : Pending(a)' \in SUBSET Pending(a)
    BY DEF Pending
  <2> QED BY <2>1, LimitKept
<1> QED BY <1>1, <1>2, <1>3

\* The job counts authors, and so has a number that fits the column.
LEMMA JobCountKeeps ==
    ASSUME WarningsInv, NEW out \in SUBSET {w.id : w \in {v \in warnings : v.open /\ v.rule}},
           JobCount(out)
    PROVE  WarningsInv'
<1>1. /\ job' = [counted |-> TRUE, count |-> Count(Kept(warnings, out)), out |-> out]
      /\ UNCHANGED <<warnings, open_warnings, recent, last, row, pc, arg, seen, missed, left>>
  BY DEF JobCount
<1>2. /\ Kept(warnings, out) \subseteq Warning
      /\ out \in SUBSET (1 .. MaxWarnings)
  BY DEF WarningsInv, WarningsTyped, Kept, Warning
<1>3. Count(Kept(warnings, out)) \in 0 .. Cardinality(Author)
  BY <1>2, CountIs
<1>4. WarningsTyped'
  BY <1>1, <1>2, <1>3 DEF WarningsInv, WarningsTyped
<1>5. OpenWarningsExact'
  BY <1>1 DEF WarningsInv, OpenWarningsExact, Count, Kept
<1> QED BY <1>1, <1>4, <1>5, RequestsKept DEF WarningsInv

\* What the job writes is right, or told to be early.
LEMMA JobWriteKeeps ==
    ASSUME WarningsInv, JobWrite
    PROVE  WarningsInv'
<1>1. /\ \/ /\ open_warnings' = job.count /\ left' = job.out
            /\ missed' = (job.count # Count(Kept(warnings, job.out)))
         \/ UNCHANGED <<open_warnings, missed, left>>
      /\ job' = NoJob
      /\ UNCHANGED <<warnings, recent, last, row, pc, arg, seen>>
  BY DEF JobWrite
<1>2. WarningsTyped
  BY DEF WarningsInv
<1>3. 0 \in 0 .. Cardinality(Author)
  BY WarningAssumption, FS_CardinalityType
<1>4. WarningsTyped'
  BY <1>1, <1>2, <1>3 DEF WarningsTyped, NoJob
<1>5. OpenWarningsExact'
  <2>1. CASE UNCHANGED <<open_warnings, missed, left>>
    BY <1>1, <2>1 DEF WarningsInv, OpenWarningsExact, Count, Kept
  <2>2. CASE /\ open_warnings' = job.count /\ left' = job.out
             /\ missed' = (job.count # Count(Kept(warnings, job.out)))
    <3>1. missed' \/ open_warnings' = Count(Kept(warnings', left'))
      BY <1>1, <2>2
    <3> QED BY <3>1 DEF OpenWarningsExact, Count, Kept
  <2> QED BY <1>1, <2>1, <2>2
<1> QED BY <1>1, <1>4, <1>5, RequestsKept DEF WarningsInv

LEMMA JobFailsKeeps ==
    ASSUME WarningsInv, JobFails
    PROVE  WarningsInv'
<1>1. /\ job' = NoJob
      /\ UNCHANGED <<warnings, open_warnings, recent, last, row, pc, arg, seen, missed, left>>
  BY DEF JobFails
<1>2. 0 \in 0 .. Cardinality(Author)
  BY WarningAssumption, FS_CardinalityType
<1>3. WarningsTyped'
  BY <1>1, <1>2 DEF WarningsInv, WarningsTyped, NoJob
<1>4. OpenWarningsExact'
  BY <1>1 DEF WarningsInv, OpenWarningsExact, Count, Kept
<1> QED BY <1>1, <1>3, <1>4, RequestsKept DEF WarningsInv

LEMMA StepWarnings ==
    ASSUME WarningsInv, [Next]_vars
    PROVE  WarningsInv'
<1>1. CASE UNCHANGED vars
  <2>1. UNCHANGED <<warnings, open_warnings, recent, last, row, pc, arg, seen, job, missed, left>>
    BY <1>1 DEF vars
  <2>2. \A q \in Req : After(q)' = After(q)
    BY <2>1 DEF After
  <2>3. \A q \in Req : Count(After(q)') = Count(After(q))
    BY <2>2
  <2>4. \A a \in Author : IdsOf(a)' = IdsOf(a) /\ Pending(a)' = Pending(a)
    BY <2>1 DEF IdsOf, Pending
  <2> QED BY <2>1, <2>3, <2>4 DEF WarningsInv, WarningsTyped, Identified, Inserts, Closes, RowTold,
             Limited, OpenWarningsExact, Count, Kept
<1>2. CASE Next
  BY <1>2, CheckKeeps, InsertKeeps, ClearCheckKeeps, CloseKeeps, RecountKeeps, WriteCountKeeps,
     PublishKeeps, AbortKeeps, HourPassesKeeps, JobCountKeeps, JobWriteKeeps, JobFailsKeeps DEF Next
<1> QED BY <1>1, <1>2

\* However warnings, their ends, the hour and the statistics job interleave: the
\* number that hides the topic counts the authors with an open complaint, but for
\* what the job has left out since a request counted last and unless the last
\* recount waited for another transaction; and the hourly limit is exceeded by
\* fewer warnings than there are requests under way together (post_warning,
\* clear_warning, vUpdateStatistics).
THEOREM WarningsStayConsistent == Spec => []WarningsConsistent
<1>1. Init => WarningsInv
  BY InitWarnings
<1>2. WarningsInv /\ [Next]_vars => WarningsInv'
  BY StepWarnings
<1>3. WarningsInv => WarningsConsistent
  <2> SUFFICES ASSUME WarningsInv PROVE WarningsConsistent
    OBVIOUS
  <2>1. WarningsTyped /\ RowTold /\ Limited /\ OpenWarningsExact
    BY DEF WarningsInv
  <2>2. ASSUME NEW a \in Author
        PROVE  /\ recent[a] \in 0 .. MaxWarnings
               /\ recent[a] <= Hourly - 1 + Cardinality(Req)
    <3>1. IdsOf(a) \subseteq 1 .. MaxWarnings
      BY <2>1 DEF WarningsTyped, IdsOf, Warning
    <3>2. IsFiniteSet(1 .. MaxWarnings) /\ Cardinality(1 .. MaxWarnings) = MaxWarnings
      BY WarningAssumption, FS_Interval
    <3>3. IsFiniteSet(IdsOf(a)) /\ Cardinality(IdsOf(a)) <= MaxWarnings
      BY <3>1, <3>2, FS_Subset
    <3>4. Pending(a) \in SUBSET Req
      BY DEF Pending
    <3>5. /\ Cardinality(Pending(a)) \in Nat /\ Cardinality(Req) \in Nat
          /\ Cardinality(IdsOf(a)) \in Nat
      BY <3>3, <3>4, PendingIs, FS_CardinalityType
    <3>6. recent[a] \in Nat
      BY <2>1 DEF WarningsTyped
    <3> QED BY <2>1, <3>3, <3>5, <3>6, WarningAssumption DEF Limited
  <2>3. recent \in [Author -> 0 .. MaxWarnings]
    BY <2>1, <2>2 DEF WarningsTyped
  <2> QED BY <2>1, <2>2, <2>3 DEF WarningsTyped, RowTold, WarningsTypeOK, HourlyHolds,
             WarningsConsistent
<1> QED BY <1>1, <1>2, <1>3, PTL DEF Spec

-----------------------------------------------------------------------------
(* Deleting everything of one user or address *)

LEMMA PuCardinality == \A S : Pu!Cardinality(S) = Cardinality(S)
BY Zenon DEF Cardinality, Pu!Cardinality

CommentRow == [state : {"none", "live", "deleted"}, topic : Topic, parent : 0 .. MaxComments,
               own : BOOLEAN, late : BOOLEAN]
PostRow == [pc : {"idle", "parent", "insert", "commit"}, own : BOOLEAN, topic : Topic,
            parent : 0 .. MaxComments, prior : BOOLEAN, id : 0 .. MaxComments]
PurgeRow == [pc : {"idle", "topics", "comments", "lock", "delete"}, kind : {"user", "address"},
             work : SUBSET Pu!Id, rows : SUBSET Pu!Id, takes : SUBSET Topic,
             gone : SUBSET Pu!Id, shut : SUBSET Topic, down : [Topic -> Nat]]
PurgeTyped ==
    /\ comments \in [Pu!Id -> CommentRow]
    /\ topics \in [Topic -> [deleted : BOOLEAN, stat1 : Int]]
    /\ drawn \in 0 .. MaxComments /\ banned \in SUBSET {"user", "address"}
    /\ post \in [Poster -> PostRow] /\ purging \in [Mod -> PurgeRow]
    /\ spared \in SUBSET Pu!Id /\ closed \in BOOLEAN /\ purged \in BOOLEAN

\* Ids are drawn once, and an answer is younger than what it answers.
DrawnOnce ==
    /\ \A c \in Pu!Id :
         /\ c > drawn => comments[c].state = "none"
         /\ comments[c].parent < c
         /\ comments[c].parent # 0 => comments[comments[c].parent].state # "none"
    /\ \A p \in Poster :
         /\ post[p].parent <= drawn
         /\ post[p].parent # 0 => comments[post[p].parent].state # "none"
         /\ post[p].pc = "commit" =>
              /\ post[p].id \in 1 .. drawn /\ post[p].parent < post[p].id
              /\ comments[post[p].id].state = "none"
              /\ \A q \in Poster \ {p} : post[q].pc = "commit" => post[q].id # post[p].id

\* The rows of topics and of comments: one transaction holds each, or several
\* share a parent that no purge then holds, and that is live.
HeldApart ==
    /\ \A p \in Poster : post[p].pc = "commit" =>
         /\ \A q \in Poster \ {p} : post[q].pc = "commit" => post[q].topic # post[p].topic
         /\ \A m \in Mod : post[p].topic \notin purging[m].takes
    /\ \A m \in Mod, n \in Mod : m # n =>
         /\ purging[m].takes \cap purging[n].takes = {}
         /\ purging[m].rows \cap purging[n].rows = {}
    /\ \A p \in Poster : post[p].pc \in {"insert", "commit"} /\ post[p].parent # 0 =>
         /\ post[p].parent \in Pu!Live
         /\ \A m \in Mod : post[p].parent \notin purging[m].rows

\* What a purge holds, what it has still to lock or to delete, and what it
\* will delete: comments of the culprit only.
Staged(m) ==
    LET r == purging[m] IN
    /\ r.pc \in {"idle", "topics"} => r.takes = {}
    /\ r.pc \in {"idle", "topics", "comments"} => r.work = {} /\ r.rows = {}
    /\ r.pc # "delete" => r.gone = {}
    /\ r.pc = "delete" => r.work \subseteq r.rows \ r.gone
    /\ r.gone \subseteq r.rows /\ r.rows \subseteq Pu!Live
    /\ \A c \in r.work \cup r.rows : comments[c].own /\ comments[c].state # "none"

\* It lowers each counter by what it deletes, and deletes answers first.
Counted(m) ==
    LET r == purging[m] IN
    /\ \A t \in Topic : r.down[t] = Cardinality({c \in r.gone : comments[c].topic = t})
    /\ \A a \in Pu!Live : comments[a].parent \in r.gone => a \in r.gone

\* It has found every comment of the culprit that it could see, with an answer
\* also what is answered, and passed by a comment for an answer that stays.
Found(m) ==
    LET r == purging[m] IN
    /\ r.pc \in {"lock", "delete"} =>
         \A c \in Pu!Live : comments[c].own /\ ~comments[c].late => c \in r.work \cup r.rows
    /\ \A a \in r.work \cup r.rows : LET c == comments[a].parent IN
         c \in Pu!Live /\ comments[c].own => c \in r.work \cup r.rows
    /\ r.pc = "delete" =>
         \A c \in r.rows \ (r.gone \cup r.work) :
            \E a \in Pu!Live \ (r.gone \cup r.work) : comments[a].parent = c

\* A ban is noted, and a request of the culprit had passed before it.
Barred ==
    /\ closed <=> banned # {}
    /\ purged => closed
    /\ \A p \in Poster : post[p].own => post[p].prior

PurgeInv ==
    /\ PurgeTyped /\ DrawnOnce /\ HeldApart /\ Barred
    /\ \A m \in Mod : Staged(m) /\ Counted(m) /\ Found(m)
    /\ Pu!NoReplyToPurged /\ Pu!StatExact /\ Pu!Survivors

\* Sets of comments are finite.
LEMMA Comments ==
    ASSUME Pu!PurgeConstants
    PROVE  /\ \A S \in SUBSET Pu!Id : IsFiniteSet(S) /\ Cardinality(S) \in 0 .. MaxComments
           /\ \A S \in SUBSET Pu!Id, T \in SUBSET Pu!Id :
                T \subseteq S => Cardinality(T) <= Cardinality(S)
           /\ \A S \in SUBSET Pu!Id, x \in Pu!Id :
                x \notin S => Cardinality(S \cup {x}) = Cardinality(S) + 1
           /\ \A S \in SUBSET Pu!Id, T \in SUBSET Pu!Id :
                T \subseteq S => Cardinality(S \ T) = Cardinality(S) - Cardinality(T)
           /\ Cardinality({}) = 0
<1>1. IsFiniteSet(Pu!Id) /\ Cardinality(Pu!Id) = MaxComments
  BY FS_Interval DEF Pu!Id, Pu!PurgeConstants
<1>2. ASSUME NEW S \in SUBSET Pu!Id
      PROVE  IsFiniteSet(S) /\ Cardinality(S) <= MaxComments
  BY <1>1, FS_Subset
<1>3. ASSUME NEW S \in SUBSET Pu!Id PROVE Cardinality(S) \in 0 .. MaxComments
  BY <1>2, FS_CardinalityType DEF Pu!PurgeConstants
<1>4. ASSUME NEW S \in SUBSET Pu!Id, NEW T \in SUBSET S
      PROVE  Cardinality(T) <= Cardinality(S)
  BY <1>2, FS_Subset
<1>5. ASSUME NEW S \in SUBSET Pu!Id, NEW x \in Pu!Id, x \notin S
      PROVE  Cardinality(S \cup {x}) = Cardinality(S) + 1
  BY <1>2, <1>5, FS_AddElement
<1>6. ASSUME NEW S \in SUBSET Pu!Id, NEW T \in SUBSET S
      PROVE  Cardinality(S \ T) = Cardinality(S) - Cardinality(T)
  <2>1. S \cap T = T
    BY <1>6
  <2> QED BY <1>2, <2>1, FS_Difference
<1> QED BY <1>2, <1>3, <1>4, <1>5, <1>6, FS_EmptySet

\* Of some comments one is the newest.
LEMMA Newest ==
    ASSUME Pu!PurgeConstants, NEW S \in SUBSET Pu!Id, S # {}
    PROVE  Pu!Max(S) \in S /\ \A x \in S : x <= Pu!Max(S)
<1> DEFINE T == {MaxComments - x : x \in S}
<1>1. S \subseteq 1 .. MaxComments /\ MaxComments \in Nat
  BY DEF Pu!Id, Pu!PurgeConstants
<1>2. T \subseteq Nat /\ T # {}
  <2>1. \A x \in S : MaxComments - x \in Nat
    BY <1>1
  <2> QED BY <2>1
<1>3. PICK x \in T : \A y \in T : ~(<<y, x>> \in OpToRel(<, Nat))
  <2> HIDE DEF T
  <2> QED BY <1>2, WFMin, NatLessThanWellFounded
<1>4. \A y \in T : ~(y < x)
  BY <1>2, <1>3 DEF OpToRel
<1>5. PICK n \in S : x = MaxComments - n
  OBVIOUS
<1>6. \A y \in S : n >= y
  <2> TAKE y \in S
  <2>1. MaxComments - y \in T
    OBVIOUS
  <2>2. ~(MaxComments - y < x)
    BY <1>4, <2>1
  <2> QED BY <1>1, <1>5, <2>2
<1>7. \E z \in S : \A y \in S : z >= y
  BY <1>6
<1>8. Pu!Max(S) = CHOOSE z \in S : \A y \in S : z >= y
  BY DEF Pu!Max
<1>9. Pu!Max(S) \in S /\ \A y \in S : Pu!Max(S) >= y
  BY <1>7, <1>8
<1> QED BY <1>1, <1>9

LEMMA NoRows ==
    ASSUME Pu!PurgeConstants
    PROVE  /\ Pu!NoComment \in CommentRow /\ Pu!NoPost \in PostRow /\ Pu!NoPurge \in PurgeRow
           /\ (CHOOSE t \in Topic : TRUE) \in Topic
<1>1. (CHOOSE t \in Topic : TRUE) \in Topic
  BY DEF Pu!PurgeConstants
<1> QED
  BY <1>1 DEF Pu!PurgeConstants, Pu!NoComment, Pu!NoPost, Pu!NoPurge, CommentRow, PostRow, PurgeRow

LEMMA InitPurge ==
    ASSUME Pu!PurgeConstants PROVE Pu!Init => PurgeInv
<1> SUFFICES ASSUME Pu!Init PROVE PurgeInv
  OBVIOUS
<1> USE DEF Pu!Init
<1>1. PurgeTyped
  <2>1. /\ comments \in [Pu!Id -> CommentRow] /\ post \in [Poster -> PostRow]
        /\ purging \in [Mod -> PurgeRow]
    BY NoRows
  <2>2. topics \in [Topic -> [deleted : BOOLEAN, stat1 : Int]] /\ drawn \in 0 .. MaxComments
    BY DEF Pu!PurgeConstants
  <2> QED BY <2>1, <2>2 DEF PurgeTyped
<1>2. Pu!Live = {}
  BY DEF Pu!Live, Pu!NoComment
<1>3. DrawnOnce
  BY DEF DrawnOnce, Pu!NoComment, Pu!NoPost, Pu!Id
<1>4. HeldApart
  BY DEF HeldApart, Pu!NoPost, Pu!NoPurge
<1>5. Barred
  BY DEF Barred, Pu!NoPost
<1>6. ASSUME NEW m \in Mod PROVE Staged(m) /\ Counted(m) /\ Found(m)
  <2>1. purging[m] = Pu!NoPurge
    OBVIOUS
  <2>2. /\ Pu!NoPurge.pc = "idle" /\ Pu!NoPurge.work = {} /\ Pu!NoPurge.rows = {}
        /\ Pu!NoPurge.takes = {} /\ Pu!NoPurge.gone = {}
        /\ \A t \in Topic : Pu!NoPurge.down[t] = 0
    BY DEF Pu!NoPurge
  <2>3. Staged(m)
    BY <2>1, <2>2 DEF Staged
  <2>4. Found(m)
    BY <2>1, <2>2 DEF Found
  <2>5. Counted(m)
    <3>1. \A t \in Topic : {c \in purging[m].gone : comments[c].topic = t} = {}
      BY <2>1, <2>2
    <3> QED BY <1>2, <2>1, <2>2, <3>1, Comments DEF Counted
  <2> QED BY <2>3, <2>4, <2>5
<1>7. Pu!StatExact
  <2>1. \A t \in Topic : {c \in Pu!Live : comments[c].topic = t} = {}
    BY <1>2
  <2>2. \A t \in Topic : topics[t].stat1 = 0
    OBVIOUS
  <2> QED BY <2>1, <2>2, PuCardinality, Comments DEF Pu!StatExact
<1>8. Pu!NoReplyToPurged /\ Pu!Survivors
  BY <1>2 DEF Pu!NoReplyToPurged, Pu!Survivors
<1> QED BY <1>1, <1>3, <1>4, <1>5, <1>6, <1>7, <1>8 DEF PurgeInv

\* What neither the comments nor the purges decide.
LEMMA PurgesStand ==
    ASSUME PurgeInv, UNCHANGED <<comments, topics, purging, spared, purged>>
    PROVE  /\ \A m \in Mod : Staged(m)' /\ Counted(m)' /\ Found(m)'
           /\ Pu!NoReplyToPurged' /\ Pu!StatExact' /\ Pu!Survivors'
<1>1. Pu!Live' = Pu!Live
  BY DEF Pu!Live
<1>2. ASSUME NEW m \in Mod PROVE Staged(m)' /\ Counted(m)' /\ Found(m)'
  <2>1. Staged(m) /\ Counted(m) /\ Found(m)
    BY DEF PurgeInv
  <2>2. Staged(m)'
    BY <1>1, <2>1 DEF Staged
  <2>3. Counted(m)'
    BY <1>1, <2>1 DEF Counted
  <2>4. Found(m)'
    BY <1>1, <2>1 DEF Found
  <2> QED BY <2>2, <2>3, <2>4
<1>3. Pu!NoReplyToPurged' /\ Pu!Survivors'
  BY <1>1 DEF PurgeInv, Pu!NoReplyToPurged, Pu!Survivors
<1>4. Pu!StatExact'
  BY <1>1 DEF PurgeInv, Pu!StatExact
<1> QED BY <1>2, <1>3, <1>4

\* The request of one poster goes on and commits nothing yet.
Posts(p) ==
    /\ post' \in [Poster -> PostRow]
    /\ \A q \in Poster : q # p => post'[q] = post[q]
    /\ UNCHANGED <<comments, topics, banned, purging, spared, closed, purged>>
    /\ drawn' \in 0 .. MaxComments /\ drawn <= drawn'

LEMMA PostsKeep ==
    ASSUME Pu!PurgeConstants, PurgeInv, NEW p \in Poster, Posts(p),
           post'[p].parent = 0 \/ post'[p].parent \in Pu!Live,
           post'[p].pc \in {"insert", "commit"} /\ post'[p].parent # 0 =>
              \A m \in Mod : post'[p].parent \notin purging[m].rows,
           post'[p].own => post'[p].prior,
           post'[p].pc = "commit" =>
              /\ post'[p].id = drawn + 1 /\ drawn' = drawn + 1
              /\ ~Pu!TopicHeld(post'[p].topic)
    PROVE  PurgeInv'
<1>1. PurgeTyped /\ DrawnOnce /\ HeldApart /\ Barred
  BY DEF PurgeInv
<1>2. /\ comments' = comments /\ drawn \in 0 .. MaxComments /\ drawn' \in 0 .. MaxComments
      /\ drawn <= drawn' /\ Pu!Live' = Pu!Live /\ purging' = purging
      /\ \A q \in Poster : q # p => post'[q] = post[q]
      /\ \A q \in Poster : post[q] \in PostRow /\ post'[q] \in PostRow
      /\ \A c \in Pu!Id : comments[c] \in CommentRow
  BY <1>1 DEF Posts, PurgeTyped, Pu!Live
<1>3. PurgeTyped'
  BY <1>1 DEF Posts, PurgeTyped
<1>4. \A c \in Pu!Id : comments[c].state # "none" => c <= drawn
  BY <1>1, <1>2 DEF DrawnOnce, Pu!Id, Pu!PurgeConstants
<1>5. /\ post'[p].parent \in Nat /\ post'[p].parent <= drawn
      /\ post'[p].parent # 0 => comments[post'[p].parent].state # "none"
  BY <1>2, <1>4 DEF Pu!Live, Pu!Id, PostRow
<1>6. DrawnOnce'
  <2>1. ASSUME NEW c \in Pu!Id
        PROVE  /\ c > drawn' => comments'[c].state = "none"
               /\ comments'[c].parent < c
               /\ comments'[c].parent # 0 => comments'[comments'[c].parent].state # "none"
    BY <1>1, <1>2, <1>4 DEF DrawnOnce, Pu!Id, Pu!PurgeConstants
  <2>2. ASSUME NEW q \in Poster
        PROVE  /\ post'[q].parent <= drawn'
               /\ post'[q].parent # 0 => comments'[post'[q].parent].state # "none"
    <3>1. CASE q = p
      BY <1>2, <1>5, <3>1
    <3>2. CASE q # p
      <4>1. post[q].parent <= drawn /\ post[q].parent \in Nat
        BY <1>1, <1>2 DEF DrawnOnce, PostRow
      <4> QED BY <1>1, <1>2, <3>2, <4>1 DEF DrawnOnce
    <3> QED BY <3>1, <3>2
  <2>3. ASSUME NEW q \in Poster, post'[q].pc = "commit"
        PROVE  /\ post'[q].id \in 1 .. drawn' /\ post'[q].parent < post'[q].id
               /\ comments'[post'[q].id].state = "none"
               /\ \A x \in Poster \ {q} : post'[x].pc = "commit" => post'[x].id # post'[q].id
    <3>1. \A x \in Poster : x # p /\ post'[x].pc = "commit" =>
            /\ post'[x].id \in 1 .. drawn /\ post'[x].parent < post'[x].id
            /\ comments[post'[x].id].state = "none"
      BY <1>1, <1>2 DEF DrawnOnce
    <3>2. CASE q = p
      <4>1. drawn + 1 \in Pu!Id /\ comments[drawn + 1].state = "none"
        BY <1>1, <1>2, <2>3, <3>2 DEF DrawnOnce, Pu!Id
      <4> QED BY <1>2, <1>5, <2>3, <3>1, <3>2, <4>1
    <3>3. CASE q # p
      <4>1. \A x \in Poster \ {q} : x # p => (post'[x].pc = "commit" => post'[x].id # post'[q].id)
        BY <1>1, <1>2, <2>3, <3>3 DEF DrawnOnce
      <4>2. post'[p].pc = "commit" => post'[p].id # post'[q].id
        BY <1>2, <2>3, <3>1, <3>3
      <4> QED BY <1>2, <2>3, <3>1, <3>3, <4>1, <4>2
    <3> QED BY <3>2, <3>3
  <2> QED BY <2>1, <2>2, <2>3 DEF DrawnOnce
<1>7. HeldApart'
  <2>1. post'[p].pc = "commit" =>
          /\ \A q \in Poster : q # p /\ post[q].pc = "commit" => post[q].topic # post'[p].topic
          /\ \A m \in Mod : post'[p].topic \notin purging[m].takes
    BY DEF Pu!TopicHeld
  <2>2. \A q \in Poster : post'[q].pc = "commit" =>
          /\ \A x \in Poster \ {q} : post'[x].pc = "commit" => post'[x].topic # post'[q].topic
          /\ \A m \in Mod : post'[q].topic \notin purging'[m].takes
    BY <1>1, <1>2, <2>1 DEF HeldApart
  <2>3. \A m \in Mod, n \in Mod : m # n =>
          /\ purging'[m].takes \cap purging'[n].takes = {}
          /\ purging'[m].rows \cap purging'[n].rows = {}
    BY <1>1, <1>2 DEF HeldApart
  <2>4. \A q \in Poster : post'[q].pc \in {"insert", "commit"} /\ post'[q].parent # 0 =>
          /\ post'[q].parent \in Pu!Live'
          /\ \A m \in Mod : post'[q].parent \notin purging'[m].rows
    BY <1>1, <1>2 DEF HeldApart
  <2> QED BY <2>2, <2>3, <2>4 DEF HeldApart
<1>8. Barred'
  BY <1>1, <1>2 DEF Posts, Barred
<1> QED BY <1>3, <1>6, <1>7, <1>8, PurgesStand DEF Posts, PurgeInv

LEMMA PostCheckKeeps ==
    ASSUME Pu!PurgeConstants, PurgeInv, NEW p \in Poster, NEW o \in BOOLEAN, NEW t \in Topic,
           NEW c \in Pu!Id \cup {0}, Pu!Check(p, o, t, c)
    PROVE  PurgeInv'
<1> DEFINE x == [pc |-> IF c = 0 THEN "insert" ELSE "parent", own |-> o, topic |-> t,
                 parent |-> c, prior |-> ~closed, id |-> 0]
<1>1. /\ post' = [post EXCEPT ![p] = x]
      /\ o => banned = {}
      /\ c # 0 => comments[c].state = "live"
      /\ UNCHANGED <<comments, topics, drawn, banned, purging, purges, spared, closed, purged>>
  BY DEF Pu!Check, Pu!Allowed, Pu!Answerable
<1>2. PurgeTyped /\ Barred
  BY DEF PurgeInv
<1>3. x \in PostRow
  BY <1>2 DEF PostRow, PurgeTyped, Pu!Id, Pu!PurgeConstants
<1>4. /\ x.parent = c /\ x.pc \in {"insert", "parent"} /\ (x.pc = "insert" => c = 0)
      /\ x.own = o /\ x.prior = ~closed
  OBVIOUS
<1> HIDE DEF x
<1>5. post'[p] = x
  BY <1>1, <1>2 DEF PurgeTyped
<1>6. Posts(p)
  BY <1>1, <1>2, <1>3 DEF Posts, PurgeTyped, Pu!PurgeConstants
<1>7. c = 0 \/ c \in Pu!Live
  BY <1>1 DEF Pu!Live
<1>8. o => ~closed
  BY <1>1, <1>2 DEF Barred
<1>9. /\ post'[p].pc # "commit" /\ (post'[p].pc = "insert" => post'[p].parent = 0)
      /\ (post'[p].parent = 0 \/ post'[p].parent \in Pu!Live)
      /\ (post'[p].own => post'[p].prior)
  <2>1. post'[p].own = o /\ post'[p].prior = ~closed /\ post'[p].parent = c
    BY <1>4, <1>5
  <2>2. post'[p].own => post'[p].prior
    BY Zenon, <1>8, <2>1
  <2>3. post'[p].pc \in {"insert", "parent"} /\ (post'[p].pc = "insert" => c = 0)
    BY <1>4, <1>5
  <2> QED BY <1>7, <2>1, <2>2, <2>3
<1>10. post'[p].pc \in {"insert", "commit"} /\ post'[p].parent # 0 =>
         \A m \in Mod : post'[p].parent \notin purging[m].rows
  BY <1>9
<1> QED BY <1>6, <1>9, <1>10, PostsKeep

LEMMA ShareParentKeeps ==
    ASSUME Pu!PurgeConstants, PurgeInv, NEW p \in Poster, Pu!ShareParent(p)
    PROVE  PurgeInv'
<1> DEFINE c == post[p].parent
           x == IF comments[c].state = "live" THEN [post[p] EXCEPT !.pc = "insert"] ELSE Pu!NoPost
<1>1. /\ post' = [post EXCEPT ![p] = x] /\ ~Pu!RowHeld(c)
      /\ UNCHANGED <<comments, topics, drawn, banned, purging, purges, spared, closed, purged>>
  BY DEF Pu!ShareParent
<1>2. PurgeTyped /\ Barred /\ post[p] \in PostRow
  BY DEF PurgeInv, PurgeTyped
<1>3. c \in 0 .. MaxComments
  BY <1>2 DEF PostRow
<1>4. Pu!NoPost \in PostRow /\ Pu!NoPost.parent = 0 /\ ~Pu!NoPost.own /\ Pu!NoPost.pc = "idle"
  BY NoRows DEF Pu!NoPost
<1>5. \/ x = Pu!NoPost
      \/ /\ x \in PostRow /\ x.parent = c /\ x.own = post[p].own /\ x.prior = post[p].prior
         /\ x.pc = "insert" /\ comments[c].state = "live"
  BY <1>2 DEF PostRow
<1> HIDE DEF x
<1>6. post'[p] = x
  BY <1>1, <1>2 DEF PurgeTyped
<1>7. Posts(p)
  BY <1>1, <1>2, <1>4, <1>5 DEF Posts, PurgeTyped, Pu!PurgeConstants
<1>8. x.parent = 0 \/ x.parent \in Pu!Live
  BY <1>3, <1>4, <1>5 DEF Pu!Live, Pu!Id, Pu!PurgeConstants
<1>9. \A m \in Mod : c \notin purging[m].rows
  BY <1>1 DEF Pu!RowHeld
<1>10. x.own => x.prior
  BY <1>2, <1>4, <1>5 DEF Barred
<1> HIDE DEF c
<1> QED BY <1>4, <1>5, <1>6, <1>7, <1>8, <1>9, <1>10, PostsKeep

LEMMA PostInsertKeeps ==
    ASSUME Pu!PurgeConstants, PurgeInv, NEW p \in Poster, Pu!Insert(p)
    PROVE  PurgeInv'
<1> DEFINE x == [post[p] EXCEPT !.id = drawn + 1, !.pc = "commit"]
<1>1. /\ post[p].pc = "insert" /\ ~Pu!TopicHeld(post[p].topic) /\ drawn < MaxComments
      /\ drawn' = drawn + 1 /\ post' = [post EXCEPT ![p].id = drawn + 1, ![p].pc = "commit"]
      /\ UNCHANGED <<comments, topics, banned, purging, purges, spared, closed, purged>>
  BY DEF Pu!Insert
<1>2. /\ PurgeTyped /\ Barred /\ HeldApart /\ post[p] \in PostRow /\ drawn \in 0 .. MaxComments
      /\ post \in [Poster -> PostRow]
  BY DEF PurgeInv, PurgeTyped
<1>3. drawn + 1 \in 0 .. MaxComments
  BY <1>1, <1>2 DEF Pu!PurgeConstants
<1>4. /\ x \in PostRow /\ x.parent = post[p].parent /\ x.own = post[p].own
      /\ x.prior = post[p].prior /\ x.pc = "commit" /\ x.id = drawn + 1
      /\ x.topic = post[p].topic
  BY <1>2, <1>3 DEF PostRow
<1>5. post' = [post EXCEPT ![p] = x]
  BY <1>1, <1>2 DEF PostRow
<1> HIDE DEF x
<1>6. post'[p] = x
  BY <1>2, <1>5
<1>7. Posts(p)
  <2>1. post' \in [Poster -> PostRow] /\ \A q \in Poster : q # p => post'[q] = post[q]
    BY <1>2, <1>4, <1>5
  <2>2. drawn <= drawn + 1
    BY <1>2 DEF Pu!PurgeConstants
  <2> QED BY <1>1, <1>3, <2>1, <2>2 DEF Posts
<1>8. /\ x.parent = 0 \/ x.parent \in Pu!Live
      /\ x.parent # 0 => \A m \in Mod : x.parent \notin purging[m].rows
      /\ x.own => x.prior
  BY <1>1, <1>2, <1>4 DEF HeldApart, Barred
<1> QED BY <1>1, <1>4, <1>6, <1>7, <1>8, PostsKeep

LEMMA AbortPostKeeps ==
    ASSUME Pu!PurgeConstants, PurgeInv, NEW p \in Poster, Pu!AbortPost(p)
    PROVE  PurgeInv'
<1>1. /\ post' = [post EXCEPT ![p] = Pu!NoPost]
      /\ UNCHANGED <<comments, topics, drawn, banned, purging, purges, spared, closed, purged>>
  BY DEF Pu!AbortPost
<1>2. PurgeTyped
  BY DEF PurgeInv
<1>3. Pu!NoPost \in PostRow /\ Pu!NoPost.parent = 0 /\ ~Pu!NoPost.own /\ Pu!NoPost.pc = "idle"
  BY NoRows DEF Pu!NoPost
<1>4. post'[p] = Pu!NoPost
  BY <1>1, <1>2 DEF PurgeTyped
<1>5. Posts(p)
  BY <1>1, <1>2, <1>3 DEF Posts, PurgeTyped, Pu!PurgeConstants
<1> QED BY <1>3, <1>4, <1>5, PostsKeep

\* One purge goes on and commits nothing yet.
Purges(m) ==
    /\ purging' \in [Mod -> PurgeRow]
    /\ \A n \in Mod : n # m => purging'[n] = purging[n]
    /\ UNCHANGED <<comments, topics, drawn, post, spared, purged>>

LEMMA PurgesKeep ==
    ASSUME PurgeInv, NEW m \in Mod, Purges(m),
           Staged(m)', Counted(m)', Found(m)',
           banned' \in SUBSET {"user", "address"}, closed' \in BOOLEAN, Barred',
           \A t \in purging'[m].takes : t \in purging[m].takes \/ ~Pu!TopicHeld(t),
           \A c \in purging'[m].rows :
              c \in purging[m].rows \/ (~Pu!RowHeld(c) /\ Pu!Shares(c) = {})
    PROVE  PurgeInv'
<1>1. PurgeTyped /\ DrawnOnce /\ HeldApart
  BY DEF PurgeInv
<1>2. /\ UNCHANGED <<comments, topics, drawn, post, spared, purged>>
      /\ \A n \in Mod : n # m => purging'[n] = purging[n]
      /\ Pu!Live' = Pu!Live
  BY DEF Purges, Pu!Live
<1>3. PurgeTyped'
  BY <1>1 DEF Purges, PurgeTyped
<1>4. DrawnOnce'
  BY <1>1, <1>2 DEF DrawnOnce
<1>5. ASSUME NEW n \in Mod PROVE Staged(n)' /\ Counted(n)' /\ Found(n)'
  <2>1. CASE n = m
    BY <2>1
  <2>2. CASE n # m
    <3>1. Staged(n) /\ Counted(n) /\ Found(n) /\ purging'[n] = purging[n]
      BY <1>2, <2>2 DEF PurgeInv
    <3>2. Staged(n)'
      BY <1>2, <3>1 DEF Staged
    <3>3. Counted(n)'
      BY <1>2, <3>1 DEF Counted
    <3>4. Found(n)'
      BY <1>2, <3>1 DEF Found
    <3> QED BY <3>2, <3>3, <3>4
  <2> QED BY <2>1, <2>2
<1>6. HeldApart'
  <2>1. \A t \in purging'[m].takes : t \notin purging[m].takes =>
          /\ \A p \in Poster : post[p].pc = "commit" => post[p].topic # t
          /\ \A n \in Mod : t \notin purging[n].takes
    BY DEF Pu!TopicHeld
  <2>2. \A c \in purging'[m].rows : c \notin purging[m].rows =>
          /\ \A p \in Poster : post[p].pc \in {"insert", "commit"} => post[p].parent # c
          /\ \A n \in Mod : c \notin purging[n].rows
    BY DEF Pu!RowHeld, Pu!Shares
  <2>3. \A p \in Poster : post[p].pc = "commit" =>
          /\ \A q \in Poster \ {p} : post[q].pc = "commit" => post[q].topic # post[p].topic
          /\ \A n \in Mod : post[p].topic \notin purging'[n].takes
    BY <1>1, <1>2, <2>1 DEF HeldApart
  <2>4. ASSUME NEW n \in Mod, n # m
        PROVE  /\ purging'[m].takes \cap purging'[n].takes = {}
               /\ purging'[m].rows \cap purging'[n].rows = {}
    <3>1. /\ purging[m].takes \cap purging[n].takes = {}
          /\ purging[m].rows \cap purging[n].rows = {}
      BY <1>1, <2>4 DEF HeldApart
    <3> QED BY <1>2, <2>1, <2>2, <2>4, <3>1
  <2>5. \A k \in Mod, n \in Mod : k # n =>
          /\ purging'[k].takes \cap purging'[n].takes = {}
          /\ purging'[k].rows \cap purging'[n].rows = {}
    BY <1>1, <1>2, <2>4 DEF HeldApart
  <2>6. \A p \in Poster : post[p].pc \in {"insert", "commit"} /\ post[p].parent # 0 =>
          /\ post[p].parent \in Pu!Live
          /\ \A n \in Mod : post[p].parent \notin purging'[n].rows
    BY <1>1, <1>2, <2>2 DEF HeldApart
  <2> QED BY <1>2, <2>3, <2>5, <2>6 DEF HeldApart
<1>7. Pu!NoReplyToPurged' /\ Pu!Survivors'
  BY <1>2 DEF PurgeInv, Pu!NoReplyToPurged, Pu!Survivors
<1>8. Pu!StatExact'
  BY <1>2 DEF PurgeInv, Pu!StatExact
<1> QED BY <1>3, <1>4, <1>5, <1>6, <1>7, <1>8 DEF PurgeInv

\* A purge that has not begun, or has ended.
LEMMA AtRest ==
    ASSUME Pu!PurgeConstants, NEW m \in Mod,
           purging'[m].pc \in {"idle", "topics"}, purging'[m].work = {}, purging'[m].rows = {},
           purging'[m].takes = {}, purging'[m].gone = {},
           \A t \in Topic : purging'[m].down[t] = 0
    PROVE  Staged(m)' /\ Counted(m)' /\ Found(m)'
<1>1. Staged(m)'
  BY DEF Staged
<1>2. Found(m)'
  BY DEF Found
<1>3. \A t \in Topic : {c \in purging'[m].gone : comments'[c].topic = t} = {}
  OBVIOUS
<1>4. Counted(m)'
  BY <1>3, Comments DEF Counted
<1> QED BY <1>1, <1>2, <1>4

LEMMA StartKeeps ==
    ASSUME Pu!PurgeConstants, PurgeInv, NEW m \in Mod, NEW kind \in {"user", "address"},
           Pu!Start(m, kind)
    PROVE  PurgeInv'
<1> DEFINE x == [Pu!NoPurge EXCEPT !.pc = "topics", !.kind = kind]
<1>1. /\ purging' = [purging EXCEPT ![m] = x]
      /\ IF kind = "address" THEN banned' = banned \cup {kind} /\ closed' = TRUE
         ELSE UNCHANGED <<banned, closed>>
      /\ UNCHANGED <<comments, topics, drawn, post, spared, purged>>
  BY DEF Pu!Start
<1>2. PurgeTyped /\ Barred
  BY DEF PurgeInv
<1>3. /\ x \in PurgeRow /\ x.pc = "topics" /\ x.work = {} /\ x.rows = {} /\ x.takes = {}
      /\ x.gone = {} /\ \A t \in Topic : x.down[t] = 0
  BY NoRows DEF Pu!NoPurge, PurgeRow
<1> HIDE DEF x
<1>4. purging'[m] = x
  BY <1>1, <1>2 DEF PurgeTyped
<1>5. Purges(m)
  BY <1>1, <1>2, <1>3 DEF Purges, PurgeTyped
<1>6. Staged(m)' /\ Counted(m)' /\ Found(m)'
  BY <1>3, <1>4, AtRest
<1>7. banned' \in SUBSET {"user", "address"} /\ closed' \in BOOLEAN
  BY <1>1, <1>2 DEF PurgeTyped
<1>8. Barred'
  BY <1>1, <1>2 DEF Barred
<1> QED BY <1>3, <1>4, <1>5, <1>6, <1>7, <1>8, PurgesKeep

LEMMA AbortPurgeKeeps ==
    ASSUME Pu!PurgeConstants, PurgeInv, NEW m \in Mod, Pu!AbortPurge(m)
    PROVE  PurgeInv'
<1> DEFINE x == Pu!NoPurge
<1>1. /\ purging' = [purging EXCEPT ![m] = x]
      /\ UNCHANGED <<comments, topics, drawn, banned, post, spared, closed, purged>>
  BY DEF Pu!AbortPurge
<1>2. PurgeTyped /\ Barred
  BY DEF PurgeInv
<1>3. /\ x \in PurgeRow /\ x.pc = "idle" /\ x.work = {} /\ x.rows = {} /\ x.takes = {}
      /\ x.gone = {} /\ \A t \in Topic : x.down[t] = 0
  BY NoRows DEF Pu!NoPurge
<1> HIDE DEF x
<1>4. purging'[m] = x
  BY <1>1, <1>2 DEF PurgeTyped
<1>5. Purges(m)
  BY <1>1, <1>2, <1>3 DEF Purges, PurgeTyped
<1>6. Staged(m)' /\ Counted(m)' /\ Found(m)'
  BY <1>3, <1>4, AtRest
<1>7. banned' \in SUBSET {"user", "address"} /\ closed' \in BOOLEAN
  BY <1>1, <1>2 DEF PurgeTyped
<1>8. Barred'
  BY <1>1, <1>2 DEF Barred
<1> QED BY <1>3, <1>4, <1>5, <1>6, <1>7, <1>8, PurgesKeep

LEMMA LockTopicsKeeps ==
    ASSUME Pu!PurgeConstants, PurgeInv, NEW m \in Mod, Pu!LockTopics(m)
    PROVE  PurgeInv'
<1> DEFINE mine == {t \in Own : ~topics[t].deleted}
           x == [purging[m] EXCEPT !.takes = mine, !.shut = mine, !.pc = "comments"]
<1>1. /\ purging[m].pc = "topics" /\ \A t \in mine : ~Pu!TopicHeld(t)
      /\ purging' = [purging EXCEPT ![m].takes = mine, ![m].shut = mine, ![m].pc = "comments"]
      /\ UNCHANGED <<comments, topics, drawn, banned, post, spared, closed, purged>>
  BY DEF Pu!LockTopics
<1>2. /\ PurgeTyped /\ Barred /\ Staged(m) /\ Counted(m) /\ Found(m)
      /\ purging \in [Mod -> PurgeRow] /\ purging[m] \in PurgeRow
  BY DEF PurgeInv, PurgeTyped
<1>3. mine \in SUBSET Topic
  BY DEF Pu!PurgeConstants
<1>4. purging' = [purging EXCEPT ![m] = x]
  BY <1>1, <1>2 DEF PurgeRow
<1>5. /\ x \in PurgeRow /\ x.pc = "comments" /\ x.takes = mine
      /\ x.work = purging[m].work /\ x.rows = purging[m].rows /\ x.gone = purging[m].gone
      /\ x.down = purging[m].down
  BY <1>2, <1>3 DEF PurgeRow
<1> HIDE DEF x
<1>6. purging'[m] = x /\ Pu!Live' = Pu!Live /\ comments' = comments
  BY <1>1, <1>2, <1>4 DEF Pu!Live
<1>7. Purges(m)
  BY <1>1, <1>2, <1>4, <1>5 DEF Purges
<1>8. purging[m].work = {} /\ purging[m].rows = {} /\ purging[m].gone = {}
  BY <1>1, <1>2 DEF Staged
<1>9. Staged(m)'
  BY <1>5, <1>6, <1>8 DEF Staged
<1>10. Counted(m)'
  BY <1>2, <1>5, <1>6 DEF Counted
<1>11. Found(m)'
  BY <1>5, <1>6, <1>8 DEF Found
<1>12. banned' \in SUBSET {"user", "address"} /\ closed' \in BOOLEAN /\ Barred'
  BY <1>1, <1>2 DEF PurgeTyped, Barred
<1> HIDE DEF mine
<1> QED BY <1>1, <1>5, <1>6, <1>7, <1>9, <1>10, <1>11, <1>12, PurgesKeep

LEMMA FindCommentsKeeps ==
    ASSUME Pu!PurgeConstants, PurgeInv, NEW m \in Mod, Pu!FindComments(m)
    PROVE  PurgeInv'
<1> DEFINE found == {c \in Pu!Live : comments[c].own}
           x == [purging[m] EXCEPT !.work = found, !.pc = "lock"]
<1>1. /\ purging[m].pc = "comments"
      /\ purging' = [purging EXCEPT ![m].work = found, ![m].pc = "lock"]
      /\ UNCHANGED <<comments, topics, drawn, banned, post, spared, closed, purged>>
  BY DEF Pu!FindComments
<1>2. /\ PurgeTyped /\ Barred /\ Staged(m) /\ Counted(m) /\ Found(m)
      /\ purging \in [Mod -> PurgeRow] /\ purging[m] \in PurgeRow
  BY DEF PurgeInv, PurgeTyped
<1>3. found \in SUBSET Pu!Id
  BY DEF Pu!Live
<1>4. purging' = [purging EXCEPT ![m] = x]
  BY <1>1, <1>2 DEF PurgeRow
<1>5. /\ x \in PurgeRow /\ x.pc = "lock" /\ x.takes = purging[m].takes
      /\ x.work = found /\ x.rows = purging[m].rows /\ x.gone = purging[m].gone
      /\ x.down = purging[m].down
  BY <1>2, <1>3 DEF PurgeRow
<1> HIDE DEF x
<1>6. purging'[m] = x /\ Pu!Live' = Pu!Live /\ comments' = comments
  BY <1>1, <1>2, <1>4 DEF Pu!Live
<1>7. Purges(m)
  BY <1>1, <1>2, <1>4, <1>5 DEF Purges
<1>8. purging[m].rows = {} /\ purging[m].gone = {}
  BY <1>1, <1>2 DEF Staged
<1>9. Staged(m)'
  BY <1>5, <1>6, <1>8 DEF Staged, Pu!Live
<1>10. Counted(m)'
  BY <1>2, <1>5, <1>6 DEF Counted
<1>11. Found(m)'
  BY <1>5, <1>6, <1>8 DEF Found
<1>12. banned' \in SUBSET {"user", "address"} /\ closed' \in BOOLEAN /\ Barred'
  BY <1>1, <1>2 DEF PurgeTyped, Barred
<1> HIDE DEF found
<1> QED BY <1>1, <1>5, <1>6, <1>7, <1>8, <1>9, <1>10, <1>11, <1>12, PurgesKeep

LEMMA LockCommentKeeps ==
    ASSUME Pu!PurgeConstants, PurgeInv, NEW m \in Mod, Pu!LockComment(m)
    PROVE  PurgeInv'
<1> DEFINE r == purging[m]
           c == Pu!Max(r.work)
<1>1. /\ r.pc = "lock"
      /\ UNCHANGED <<comments, topics, drawn, banned, post, spared, closed, purged>>
  BY DEF Pu!LockComment
<1>2. /\ PurgeTyped /\ Barred /\ Staged(m) /\ Counted(m) /\ Found(m)
      /\ purging \in [Mod -> PurgeRow] /\ r \in PurgeRow
  BY DEF PurgeInv, PurgeTyped
<1>3. Pu!Live' = Pu!Live /\ comments' = comments
  BY <1>1 DEF Pu!Live
<1>4. banned' \in SUBSET {"user", "address"} /\ closed' \in BOOLEAN /\ Barred'
  BY <1>1, <1>2 DEF PurgeTyped, Barred
<1>5. CASE r.work = {}
  <2> DEFINE x == [r EXCEPT !.pc = "delete", !.work = r.rows]
  <2>1. purging' = [purging EXCEPT ![m].pc = "delete", ![m].work = purging[m].rows]
    BY <1>5 DEF Pu!LockComment
  <2>2. purging' = [purging EXCEPT ![m] = x]
    BY <1>2, <2>1 DEF PurgeRow
  <2>3. /\ x \in PurgeRow /\ x.pc = "delete" /\ x.takes = r.takes /\ x.work = r.rows
        /\ x.rows = r.rows /\ x.gone = r.gone /\ x.down = r.down
    BY <1>2 DEF PurgeRow
  <2> HIDE DEF x
  <2>4. purging'[m] = x
    BY <1>2, <2>2
  <2>5. Purges(m)
    BY <1>1, <1>2, <2>2, <2>3 DEF Purges
  <2>6. r.gone = {}
    BY <1>1, <1>2 DEF Staged
  <2>7. Staged(m)'
    BY <1>2, <1>3, <2>3, <2>4, <2>6 DEF Staged
  <2>8. Counted(m)'
    BY <1>2, <1>3, <2>3, <2>4 DEF Counted
  <2>9. Found(m)'
    BY <1>1, <1>2, <1>3, <1>5, <2>3, <2>4 DEF Found
  <2> QED BY <1>4, <2>3, <2>4, <2>5, <2>7, <2>8, <2>9, PurgesKeep
<1>6. CASE r.work # {}
  <2> DEFINE x == [r EXCEPT !.work = r.work \ {c}, !.rows = r.rows \cup ({c} \cap Pu!Live)]
  <2>1. /\ ~Pu!RowHeld(c) /\ Pu!Shares(c) = {}
        /\ purging' = [purging EXCEPT ![m].work = @ \ {c}, ![m].rows = @ \cup ({c} \cap Pu!Live)]
    BY <1>6 DEF Pu!LockComment
  <2>2. c \in r.work
    <3>1. r.work \in SUBSET Pu!Id
      BY <1>2 DEF PurgeRow
    <3> QED BY <1>6, <3>1, Newest
  <2> HIDE DEF c
  <2>3. purging' = [purging EXCEPT ![m] = x]
    BY <1>2, <2>1 DEF PurgeRow
  <2>4. /\ x \in PurgeRow /\ x.pc = r.pc /\ x.takes = r.takes /\ x.work = r.work \ {c}
        /\ x.rows = r.rows \cup ({c} \cap Pu!Live) /\ x.gone = r.gone /\ x.down = r.down
    <3>1. r.work \in SUBSET Pu!Id /\ r.rows \in SUBSET Pu!Id
      BY <1>2 DEF PurgeRow
    <3>2. r.work \ {c} \in SUBSET Pu!Id /\ r.rows \cup ({c} \cap Pu!Live) \in SUBSET Pu!Id
      BY <2>2, <3>1
    <3> QED BY <1>2, <3>2 DEF PurgeRow
  <2> HIDE DEF x
  <2>5. purging'[m] = x
    BY <1>2, <2>3
  <2>6. Purges(m)
    BY <1>1, <1>2, <2>3, <2>4 DEF Purges
  <2>7. r.gone = {} /\ r.rows \subseteq Pu!Live
    BY <1>1, <1>2 DEF Staged
  <2>8. x.work \cup x.rows \subseteq r.work \cup r.rows
    BY <2>2, <2>4
  <2>9. \A d \in Pu!Live : d \in r.work \cup r.rows => d \in x.work \cup x.rows
    BY <2>4
  <2>10. Staged(m)'
    BY <1>1, <1>2, <1>3, <2>4, <2>5, <2>7, <2>8 DEF Staged
  <2>11. Counted(m)'
    BY <1>2, <1>3, <2>4, <2>5 DEF Counted
  <2>12. Found(m)'
    BY <1>1, <1>2, <1>3, <2>4, <2>5, <2>8, <2>9 DEF Found
  <2>13. /\ \A t \in purging'[m].takes : t \in purging[m].takes
         /\ \A d \in purging'[m].rows :
              d \in purging[m].rows \/ (~Pu!RowHeld(d) /\ Pu!Shares(d) = {})
    BY <2>1, <2>4, <2>5
  <2> QED BY <1>4, <2>6, <2>10, <2>11, <2>12, <2>13, PurgesKeep
<1> QED BY <1>5, <1>6

LEMMA DeleteCommentKeeps ==
    ASSUME Pu!PurgeConstants, PurgeInv, NEW m \in Mod, Pu!DeleteComment(m)
    PROVE  PurgeInv'
<1> DEFINE r == purging[m]
           c == Pu!Max(r.work)
           t == comments[c].topic
<1>1. /\ r.pc = "delete" /\ r.work # {}
      /\ UNCHANGED <<comments, topics, drawn, banned, post, spared, closed, purged>>
  BY DEF Pu!DeleteComment
<1>2. /\ PurgeTyped /\ DrawnOnce /\ Barred /\ Staged(m) /\ Counted(m) /\ Found(m)
      /\ purging \in [Mod -> PurgeRow] /\ r \in PurgeRow
      /\ comments \in [Pu!Id -> CommentRow]
  BY DEF PurgeInv, PurgeTyped
<1>3. Pu!Live' = Pu!Live /\ comments' = comments
  BY <1>1 DEF Pu!Live
<1>4. banned' \in SUBSET {"user", "address"} /\ closed' \in BOOLEAN /\ Barred'
  BY <1>1, <1>2 DEF PurgeTyped, Barred
<1>5. /\ r.work \in SUBSET Pu!Id /\ r.rows \in SUBSET Pu!Id /\ r.gone \in SUBSET Pu!Id
      /\ r.down \in [Topic -> Nat]
  BY <1>2 DEF PurgeRow
<1>6. c \in r.work /\ \A x \in r.work : x <= c
  BY <1>1, <1>5, Newest
<1>7. /\ r.work \subseteq r.rows \ r.gone /\ r.gone \subseteq r.rows /\ r.rows \subseteq Pu!Live
      /\ \A x \in r.work \cup r.rows : comments[x].own /\ comments[x].state # "none"
  BY <1>1, <1>2 DEF Staged
<1>8. c \in Pu!Id /\ c \in r.rows /\ c \in Pu!Live /\ c \notin r.gone /\ t \in Topic
  BY <1>2, <1>5, <1>6, <1>7 DEF CommentRow
<1>9. ASSUME \E a \in Pu!Live \ r.gone : comments[a].parent = c
      PROVE  purging' = [purging EXCEPT ![m].work = purging[m].work \ {c}]
  BY <1>9 DEF Pu!DeleteComment, Pu!NextVictim
<1>9a. ASSUME ~(\E a \in Pu!Live \ r.gone : comments[a].parent = c)
       PROVE  /\ t \in r.takes \/ ~Pu!TopicHeld(t)
              /\ purging' = [purging EXCEPT ![m].work = @ \ {c}, ![m].gone = @ \cup {c},
                                            ![m].takes = @ \cup {t}, ![m].down[t] = @ + 1]
  BY <1>9a DEF Pu!DeleteComment, Pu!NextVictim
<1> HIDE DEF c
<1>10. CASE \E a \in Pu!Live \ r.gone : comments[a].parent = c
  <2> DEFINE x == [r EXCEPT !.work = r.work \ {c}]
  <2>1. purging' = [purging EXCEPT ![m] = x]
    <3>1. purging' = [purging EXCEPT ![m].work = purging[m].work \ {c}]
      BY <1>9, <1>10
    <3> QED BY <1>2, <3>1 DEF PurgeRow
  <2>2. /\ x \in PurgeRow /\ x.pc = r.pc /\ x.takes = r.takes /\ x.work = r.work \ {c}
        /\ x.rows = r.rows /\ x.gone = r.gone /\ x.down = r.down
    BY <1>2, <1>5 DEF PurgeRow
  <2> HIDE DEF x
  <2>3. purging'[m] = x
    BY <1>2, <2>1
  <2>4. Purges(m)
    BY <1>1, <1>2, <2>1, <2>2 DEF Purges
  <2>5. Staged(m)'
    BY <1>1, <1>3, <1>7, <2>2, <2>3 DEF Staged
  <2>6. Counted(m)'
    BY <1>2, <1>3, <2>2, <2>3 DEF Counted
  <2>7. Found(m)'
    <3>1. x.work \cup x.rows = r.work \cup r.rows
      BY <1>7, <2>2
    <3>2. ASSUME NEW d \in r.rows \ (r.gone \cup x.work)
          PROVE  \E a \in Pu!Live \ (r.gone \cup x.work) : comments[a].parent = d
      <4>1. CASE d = c
        <5>1. PICK a \in Pu!Live \ r.gone : comments[a].parent = c
          BY <1>10
        <5>2. a \in Pu!Id /\ c < a
          BY <1>2, <5>1 DEF DrawnOnce, Pu!Live
        <5>3. a \notin r.work
          BY <1>6, <1>8, <5>2 DEF Pu!Id
        <5> QED BY <2>2, <4>1, <5>1, <5>3
      <4>2. CASE d # c
        <5>1. d \in r.rows \ (r.gone \cup r.work)
          BY <2>2, <4>2
        <5>2. PICK a \in Pu!Live \ (r.gone \cup r.work) : comments[a].parent = d
          BY <1>1, <1>2, <5>1 DEF Found
        <5> QED BY <2>2, <5>2
      <4> QED BY <4>1, <4>2
    <3>3. \A a \in r.work \cup r.rows :
            comments[a].parent \in Pu!Live /\ comments[comments[a].parent].own
            => comments[a].parent \in r.work \cup r.rows
      BY <1>2 DEF Found
    <3>4. \A d \in Pu!Live : comments[d].own /\ ~comments[d].late => d \in r.work \cup r.rows
      BY <1>1, <1>2 DEF Found
    <3> QED BY <1>3, <2>2, <2>3, <3>1, <3>2, <3>3, <3>4 DEF Found
  <2> QED BY <1>4, <2>2, <2>3, <2>4, <2>5, <2>6, <2>7, PurgesKeep
<1>11. CASE ~(\E a \in Pu!Live \ r.gone : comments[a].parent = c)
  <2> DEFINE x == [r EXCEPT !.work = r.work \ {c}, !.gone = r.gone \cup {c},
                            !.takes = r.takes \cup {t}, !.down = [r.down EXCEPT ![t] = r.down[t] + 1]]
  <2>1. purging' = [purging EXCEPT ![m] = x]
    <3>1. purging' = [purging EXCEPT ![m].work = @ \ {c}, ![m].gone = @ \cup {c},
                                     ![m].takes = @ \cup {t}, ![m].down[t] = @ + 1]
      BY <1>9a, <1>11
    <3> HIDE DEF t
    <3> QED BY <1>2, <3>1 DEF PurgeRow
  <2>2. /\ x.pc = r.pc /\ x.kind = r.kind /\ x.takes = r.takes \cup {t}
        /\ x.work = r.work \ {c} /\ x.rows = r.rows /\ x.gone = r.gone \cup {c}
        /\ x.shut = r.shut /\ x.down = [r.down EXCEPT ![t] = r.down[t] + 1]
    <3> HIDE DEF t
    <3> QED BY <1>2 DEF PurgeRow
  <2>3. x \in PurgeRow
    <3> HIDE DEF t
    <3>1. x.down \in [Topic -> Nat] /\ x.takes \in SUBSET Topic /\ x.gone \in SUBSET Pu!Id
          /\ x.work \in SUBSET Pu!Id
      BY <1>2, <1>5, <1>8, <2>2 DEF PurgeRow
    <3> QED BY <1>2, <2>2, <3>1 DEF PurgeRow
  <2> HIDE DEF x
  <2>4. purging'[m] = x
    BY <1>2, <2>1
  <2>5. Purges(m)
    BY <1>1, <1>2, <2>1, <2>3 DEF Purges
  <2>6. Staged(m)'
    BY <1>1, <1>3, <1>6, <1>7, <1>8, <2>2, <2>4 DEF Staged
  <2>7. Counted(m)'
    <3>1. \A a \in Pu!Live : comments[a].parent \in x.gone => a \in x.gone
      BY <1>2, <1>11, <2>2 DEF Counted
    <3>2. ASSUME NEW y \in Topic
          PROVE  x.down[y] = Cardinality({d \in x.gone : comments[d].topic = y})
      <4> DEFINE before == {d \in r.gone : comments[d].topic = y}
                 after == {d \in x.gone : comments[d].topic = y}
      <4>1. r.down[y] = Cardinality(before) /\ before \in SUBSET Pu!Id
        BY <1>2, <1>5 DEF Counted
      <4>2. y = t => after = before \cup {c}
        BY <2>2
      <4>3. y # t => after = before
        BY <2>2
      <4>4. c \notin before
        BY <1>8
      <4> HIDE DEF before, after, t
      <4>5. y = t => Cardinality(after) = Cardinality(before) + 1
        BY <1>8, <4>1, <4>2, <4>4, Comments
      <4>6. x.down[y] = IF y = t THEN r.down[y] + 1 ELSE r.down[y]
        BY <1>5, <1>8, <2>2
      <4>7. x.down[y] = Cardinality(after)
        BY <4>1, <4>3, <4>5, <4>6
      <4> QED BY <4>7 DEF after
    <3> QED BY <1>3, <2>4, <3>1, <3>2 DEF Counted
  <2>8. Found(m)'
    <3>1. x.work \cup x.rows = r.work \cup r.rows /\ x.gone \cup x.work = r.gone \cup r.work
      BY <1>6, <1>7, <2>2
    <3> QED BY <1>1, <1>2, <1>3, <2>2, <2>4, <3>1 DEF Found
  <2>9. /\ \A y \in purging'[m].takes : y \in purging[m].takes \/ ~Pu!TopicHeld(y)
        /\ \A d \in purging'[m].rows : d \in purging[m].rows
    BY <1>9a, <1>11, <2>2, <2>4
  <2> QED BY <1>4, <2>5, <2>6, <2>7, <2>8, <2>9, PurgesKeep
<1> QED BY <1>10, <1>11

LEMMA CommitPostKeeps ==
    ASSUME Pu!PurgeConstants, PurgeInv, NEW p \in Poster, Pu!CommitPost(p)
    PROVE  PurgeInv'
<1> DEFINE r == post[p]
           i == post[p].id
           l == IF ~closed THEN \E m \in Mod : purging[m].pc \in {"lock", "delete"} ELSE r.prior
           y == [state |-> "live", topic |-> r.topic, parent |-> r.parent, own |-> r.own,
                 late |-> l]
<1>1. /\ r.pc = "commit" /\ comments' = [comments EXCEPT ![i] = y]
      /\ topics' = [topics EXCEPT ![r.topic].stat1 = @ + 1]
      /\ post' = [post EXCEPT ![p] = Pu!NoPost]
      /\ UNCHANGED <<drawn, banned, purging, spared, closed, purged>>
  BY DEF Pu!CommitPost
<1>2. /\ PurgeTyped /\ DrawnOnce /\ HeldApart /\ Barred
      /\ Pu!NoReplyToPurged /\ Pu!StatExact /\ Pu!Survivors
      /\ \A m \in Mod : Staged(m) /\ Counted(m) /\ Found(m)
  BY DEF PurgeInv
<1>3. /\ r \in PostRow /\ comments \in [Pu!Id -> CommentRow] /\ post \in [Poster -> PostRow]
      /\ topics \in [Topic -> [deleted : BOOLEAN, stat1 : Int]]
      /\ drawn \in 0 .. MaxComments /\ \A m \in Mod : purging[m] \in PurgeRow
  BY <1>2 DEF PurgeTyped
<1>4. /\ i \in 1 .. drawn /\ r.parent < i /\ comments[i].state = "none"
      /\ r.parent # 0 => comments[r.parent].state # "none"
      /\ \A q \in Poster : q # p /\ post[q].pc = "commit" => post[q].id # i
  BY <1>1, <1>2 DEF DrawnOnce
<1>5. i \in Pu!Id /\ i \notin Pu!Live /\ i <= drawn /\ 0 \notin Pu!Id /\ Pu!Live \subseteq Pu!Id
  BY <1>3, <1>4 DEF Pu!Id, Pu!Live, Pu!PurgeConstants
<1>6. l \in BOOLEAN
  BY <1>3 DEF PostRow
<1>7. /\ y \in CommentRow /\ y.state = "live" /\ y.topic = r.topic /\ y.parent = r.parent
      /\ y.own = r.own /\ y.late = l
  <2> HIDE DEF l
  <2> QED BY <1>3, <1>6 DEF PostRow, CommentRow
<1>8. /\ closed /\ r.own => l
      /\ \A m \in Mod : purging[m].pc \in {"lock", "delete"} /\ r.own => l
  BY <1>2 DEF Barred
<1>9. /\ r.parent # 0 => r.parent \in Pu!Live
      /\ r.parent # 0 => \A m \in Mod : r.parent \notin purging[m].rows
  BY <1>1, <1>2 DEF HeldApart
<1> HIDE DEF y, l
<1>10. /\ comments'[i] = y /\ comments' \in [Pu!Id -> CommentRow]
       /\ \A c \in Pu!Id : c # i => comments'[c] = comments[c]
  BY <1>1, <1>3, <1>5, <1>7
<1>11. Pu!Live' = Pu!Live \cup {i}
  BY <1>5, <1>7, <1>10 DEF Pu!Live
<1>12. /\ post'[p].pc = "idle" /\ post'[p].parent = 0 /\ ~post'[p].own
       /\ \A q \in Poster : q # p => post'[q] = post[q]
       /\ post' \in [Poster -> PostRow]
  BY <1>1, <1>3, NoRows DEF Pu!NoPost
<1>13. PurgeTyped'
  <2>1. topics' \in [Topic -> [deleted : BOOLEAN, stat1 : Int]]
    BY <1>1, <1>3 DEF PostRow
  <2> QED BY <1>1, <1>2, <1>10, <1>12, <2>1 DEF PurgeTyped
<1>14. DrawnOnce'
  <2>1. \A c \in Pu!Id \cup {0} : c # 0 /\ comments[c].state # "none" => comments'[c].state # "none"
    BY <1>4, <1>10
  <2>2. ASSUME NEW c \in Pu!Id
        PROVE  /\ c > drawn => comments'[c].state = "none"
               /\ comments'[c].parent < c
               /\ comments'[c].parent # 0 => comments'[comments'[c].parent].state # "none"
    <3>1. CASE c = i
      <4>1. r.parent # 0 => r.parent \in Pu!Id /\ r.parent # i
        BY <1>5, <1>9
      <4>2. r.parent # 0 => comments'[r.parent].state # "none"
        BY <1>4, <2>1, <4>1
      <4>3. ~(c > drawn)
        BY <1>3, <1>4, <3>1
      <4> QED BY <1>4, <1>7, <1>10, <3>1, <4>2, <4>3
    <3>2. CASE c # i
      <4>1. comments'[c] = comments[c] /\ comments[c].parent \in 0 .. MaxComments
        BY <1>3, <1>10, <3>2 DEF CommentRow
      <4>2. comments[c].parent # 0 => comments[c].parent \in Pu!Id
        BY <4>1 DEF Pu!Id, Pu!PurgeConstants
      <4>3. /\ c > drawn => comments[c].state = "none"
            /\ comments[c].parent < c
            /\ comments[c].parent # 0 => comments[comments[c].parent].state # "none"
        BY <1>2 DEF DrawnOnce
      <4> QED BY <2>1, <4>1, <4>2, <4>3
    <3> QED BY <3>1, <3>2
  <2>3. ASSUME NEW q \in Poster
        PROVE  /\ post'[q].parent <= drawn
               /\ post'[q].parent # 0 => comments'[post'[q].parent].state # "none"
               /\ post'[q].pc = "commit" =>
                    /\ post'[q].id \in 1 .. drawn /\ post'[q].parent < post'[q].id
                    /\ comments'[post'[q].id].state = "none"
                    /\ \A x \in Poster \ {q} : post'[x].pc = "commit" => post'[x].id # post'[q].id
    <3>1. CASE q = p
      BY <1>3, <1>12, <3>1
    <3>2. CASE q # p
      <4>1. post'[q] = post[q] /\ post[q].parent \in 0 .. MaxComments
        BY <1>3, <1>12, <3>2 DEF PostRow
      <4>2. post[q].parent # 0 => post[q].parent \in Pu!Id
        BY <4>1 DEF Pu!Id, Pu!PurgeConstants
      <4>3. post[q].parent <= drawn
            /\ (post[q].parent # 0 => comments'[post[q].parent].state # "none")
        BY <1>2, <2>1, <4>2 DEF DrawnOnce
      <4>4. ASSUME post[q].pc = "commit"
            PROVE  /\ post[q].id \in 1 .. drawn /\ post[q].parent < post[q].id
                   /\ comments'[post[q].id].state = "none"
                   /\ \A x \in Poster \ {q} : post'[x].pc = "commit" => post'[x].id # post[q].id
        <5>1. /\ post[q].id \in 1 .. drawn /\ post[q].parent < post[q].id
              /\ comments[post[q].id].state = "none"
              /\ \A x \in Poster \ {q} : post[x].pc = "commit" => post[x].id # post[q].id
          BY <1>2, <4>4 DEF DrawnOnce
        <5>2. post[q].id # i /\ post[q].id \in Pu!Id
          BY <1>3, <1>4, <3>2, <4>4, <5>1 DEF Pu!Id, Pu!PurgeConstants
        <5> QED BY <1>10, <1>12, <5>1, <5>2
      <4> QED BY <4>1, <4>3, <4>4
    <3> QED BY <3>1, <3>2
  <2> QED BY <1>1, <2>2, <2>3 DEF DrawnOnce
<1>15. HeldApart'
  BY <1>1, <1>2, <1>11, <1>12 DEF HeldApart
<1>16. Barred'
  BY <1>1, <1>2, <1>12 DEF Barred
<1>17. ASSUME NEW m \in Mod PROVE Staged(m)' /\ Counted(m)' /\ Found(m)'
  <2>1. /\ Staged(m) /\ Counted(m) /\ Found(m) /\ purging'[m] = purging[m]
        /\ purging[m] \in PurgeRow
    BY <1>1, <1>2, <1>3
  <2>2. \A c \in purging[m].work \cup purging[m].rows : c \in Pu!Id /\ c # i
    BY <1>4, <2>1 DEF Staged, PurgeRow
  <2>3. purging[m].gone \subseteq purging[m].rows /\ purging[m].rows \subseteq Pu!Live
    BY <2>1 DEF Staged
  <2>4. Staged(m)'
    BY <1>10, <1>11, <2>1, <2>2 DEF Staged
  <2>5. Counted(m)'
    <3>1. \A a \in Pu!Live' : comments'[a].parent \in purging[m].gone => a \in purging[m].gone
      <4>1. r.parent \notin purging[m].gone
        BY <1>5, <1>9, <2>3
      <4> QED BY <1>5, <1>7, <1>10, <1>11, <2>1, <4>1 DEF Counted
    <3>2. \A t \in Topic : {c \in purging[m].gone : comments'[c].topic = t}
                             = {c \in purging[m].gone : comments[c].topic = t}
      BY <1>10, <2>2, <2>3
    <3> QED BY <2>1, <3>1, <3>2 DEF Counted
  <2>6. Found(m)'
    <3>1. purging[m].pc \in {"lock", "delete"} =>
            \A c \in Pu!Live' : comments'[c].own /\ ~comments'[c].late
                                => c \in purging[m].work \cup purging[m].rows
      BY <1>5, <1>7, <1>8, <1>10, <1>11, <2>1 DEF Found
    <3>2. ASSUME NEW a \in purging[m].work \cup purging[m].rows,
                 comments'[a].parent \in Pu!Live', comments'[comments'[a].parent].own
          PROVE  comments'[a].parent \in purging[m].work \cup purging[m].rows
      <4>1. comments'[a] = comments[a] /\ a \in Pu!Id
        BY <1>10, <2>2
      <4>2. comments[a].parent \in Pu!Id /\ comments[a].parent # 0
        BY <1>5, <1>11, <3>2, <4>1
      <4>3. comments[a].parent # i
        BY <1>2, <1>4, <4>1, <4>2 DEF DrawnOnce
      <4>4. comments[a].parent \in Pu!Live /\ comments[comments[a].parent].own
        BY <1>10, <1>11, <3>2, <4>1, <4>2, <4>3
      <4> QED BY <2>1, <4>1, <4>4 DEF Found
    <3>3. purging[m].pc = "delete" =>
            \A c \in purging[m].rows \ (purging[m].gone \cup purging[m].work) :
               \E a \in Pu!Live' \ (purging[m].gone \cup purging[m].work) : comments'[a].parent = c
      BY <1>5, <1>10, <1>11, <2>1 DEF Found
    <3> QED BY <2>1, <3>1, <3>2, <3>3 DEF Found
  <2> QED BY <2>4, <2>5, <2>6
<1>18. Pu!NoReplyToPurged'
  BY <1>2, <1>5, <1>7, <1>9, <1>10, <1>11 DEF Pu!NoReplyToPurged
<1>19. Pu!StatExact'
  <2> SUFFICES ASSUME NEW t \in Topic
               PROVE  topics'[t].stat1 = Cardinality({c \in Pu!Live' : comments'[c].topic = t})
    BY PuCardinality DEF Pu!StatExact
  <2> DEFINE before == {c \in Pu!Live : comments[c].topic = t}
             after == {c \in Pu!Live' : comments'[c].topic = t}
  <2>1. topics[t].stat1 = Cardinality(before) /\ before \in SUBSET Pu!Id /\ i \notin before
    BY <1>2, <1>5, PuCardinality DEF Pu!StatExact
  <2>2. after = IF t = r.topic THEN before \cup {i} ELSE before
    BY <1>5, <1>7, <1>10, <1>11
  <2>3. topics'[t].stat1 = IF t = r.topic THEN topics[t].stat1 + 1 ELSE topics[t].stat1
    BY <1>1, <1>3
  <2> HIDE DEF before, after
  <2>4. Cardinality(before \cup {i}) = Cardinality(before) + 1
    BY <1>5, <2>1, Comments
  <2>5. topics'[t].stat1 = Cardinality(after)
    BY <2>1, <2>2, <2>3, <2>4
  <2> QED BY <2>5 DEF after
<1>20. Pu!Survivors'
  BY <1>1, <1>2, <1>5, <1>7, <1>8, <1>10, <1>11 DEF Pu!Survivors, Barred
<1> QED BY <1>13, <1>14, <1>15, <1>16, <1>17, <1>18, <1>19, <1>20 DEF PurgeInv

\* What the commit of a purge leaves of the comments.
LEMMA PurgedIs ==
    ASSUME Pu!PurgeConstants, PurgeInv, NEW m \in Mod, Pu!CommitPurge(m)
    PROVE  /\ purging[m].pc = "delete" /\ purging[m].work = {}
           /\ comments' \in [Pu!Id -> CommentRow]
           /\ \A c \in Pu!Id : /\ comments'[c].topic = comments[c].topic
                               /\ comments'[c].parent = comments[c].parent
                               /\ comments'[c].own = comments[c].own
                               /\ comments'[c].late = comments[c].late
                               /\ comments'[c].state = IF c \in purging[m].gone THEN "deleted"
                                                       ELSE comments[c].state
           /\ Pu!Live' = Pu!Live \ purging[m].gone
<1> DEFINE g == purging[m].gone
<1>1. /\ purging[m].pc = "delete" /\ purging[m].work = {}
      /\ comments' = [c \in Pu!Id |-> IF c \in g THEN [comments[c] EXCEPT !.state = "deleted"]
                                      ELSE comments[c]]
  BY DEF Pu!CommitPurge
<1>2. comments \in [Pu!Id -> CommentRow]
  BY DEF PurgeInv, PurgeTyped
<1>3. ASSUME NEW c \in Pu!Id
      PROVE  /\ comments'[c] \in CommentRow
             /\ comments'[c].topic = comments[c].topic
             /\ comments'[c].parent = comments[c].parent
             /\ comments'[c].own = comments[c].own
             /\ comments'[c].late = comments[c].late
             /\ comments'[c].state = IF c \in g THEN "deleted" ELSE comments[c].state
  <2>1. comments[c] \in CommentRow
    BY <1>2
  <2>2. comments'[c] = IF c \in g THEN [comments[c] EXCEPT !.state = "deleted"] ELSE comments[c]
    BY <1>1
  <2> QED BY <2>1, <2>2 DEF CommentRow
<1>4. comments' \in [Pu!Id -> CommentRow]
  BY <1>1, <1>3
<1>5. Pu!Live' = Pu!Live \ g
  BY <1>3 DEF Pu!Live
<1> QED BY <1>1, <1>3, <1>4, <1>5

LEMMA CommitPurgeKeeps ==
    ASSUME Pu!PurgeConstants, PurgeInv, NEW m \in Mod, Pu!CommitPurge(m)
    PROVE  PurgeInv'
<1> DEFINE r == purging[m]
           g == purging[m].gone
<1>1. /\ \A t \in Topic : topics'[t].stat1 = topics[t].stat1 - r.down[t]
      /\ topics' \in [Topic -> [deleted : BOOLEAN, stat1 : Int]]
      /\ banned' = banned \cup {r.kind} /\ closed' = TRUE /\ purged' = TRUE
      /\ spared' = spared \cup (r.rows \ g)
      /\ purging' = [purging EXCEPT ![m] = Pu!NoPurge]
      /\ UNCHANGED <<drawn, post>>
  <2>1. topics' = [t \in Topic |-> [deleted |-> topics[t].deleted \/ t \in r.shut,
                                    stat1 |-> topics[t].stat1 - r.down[t]]]
    BY DEF Pu!CommitPurge, Pu!Lowered
  <2>2. \A t \in Topic : topics[t].stat1 - r.down[t] \in Int
    BY DEF PurgeInv, PurgeTyped, PurgeRow
  <2>3. topics' \in [Topic -> [deleted : BOOLEAN, stat1 : Int]]
    BY <2>1, <2>2
  <2> QED BY <2>1, <2>3 DEF Pu!CommitPurge
<1>2. /\ PurgeTyped /\ DrawnOnce /\ HeldApart /\ Barred
      /\ Pu!NoReplyToPurged /\ Pu!StatExact /\ Pu!Survivors
      /\ \A n \in Mod : Staged(n) /\ Counted(n) /\ Found(n)
  BY DEF PurgeInv
<1>3. /\ comments \in [Pu!Id -> CommentRow] /\ post \in [Poster -> PostRow]
      /\ purging \in [Mod -> PurgeRow] /\ r \in PurgeRow /\ drawn \in 0 .. MaxComments
  BY <1>2 DEF PurgeTyped
<1>4. /\ r.pc = "delete" /\ r.work = {}
      /\ comments' \in [Pu!Id -> CommentRow]
      /\ \A c \in Pu!Id : /\ comments'[c].topic = comments[c].topic
                          /\ comments'[c].parent = comments[c].parent
                          /\ comments'[c].own = comments[c].own
                          /\ comments'[c].late = comments[c].late
                          /\ comments'[c].state = IF c \in g THEN "deleted"
                                                  ELSE comments[c].state
      /\ Pu!Live' = Pu!Live \ g
  BY PurgedIs
<1>5. /\ g \subseteq r.rows /\ r.rows \subseteq Pu!Live /\ Pu!Live \subseteq Pu!Id
      /\ g \in SUBSET Pu!Id /\ 0 \notin Pu!Id
  BY <1>2, <1>3 DEF Staged, Pu!Live, Pu!Id
<1>6. \A c \in Pu!Id : comments'[c].state = "none" <=> comments[c].state = "none"
  BY <1>4, <1>5 DEF Pu!Live
<1>7. /\ Pu!NoPurge \in PurgeRow /\ Pu!NoPurge.pc = "idle" /\ Pu!NoPurge.work = {}
      /\ Pu!NoPurge.rows = {} /\ Pu!NoPurge.takes = {} /\ Pu!NoPurge.gone = {}
      /\ \A t \in Topic : Pu!NoPurge.down[t] = 0
  BY NoRows DEF Pu!NoPurge
<1>8. /\ purging'[m] = Pu!NoPurge /\ purging' \in [Mod -> PurgeRow]
      /\ \A n \in Mod : n # m => purging'[n] = purging[n]
  BY <1>1, <1>3, <1>7
<1>9. PurgeTyped'
  BY <1>1, <1>2, <1>3, <1>4, <1>5, <1>8 DEF PurgeTyped, PurgeRow
<1>10. DrawnOnce'
  <2>1. ASSUME NEW c \in Pu!Id
        PROVE  /\ c > drawn => comments'[c].state = "none"
               /\ comments'[c].parent < c
               /\ comments'[c].parent # 0 => comments'[comments'[c].parent].state # "none"
    <3>1. comments'[c].parent = comments[c].parent /\ comments[c].parent \in 0 .. MaxComments
      BY <1>3, <1>4 DEF CommentRow
    <3>2. comments[c].parent # 0 => comments[c].parent \in Pu!Id
      BY <3>1 DEF Pu!Id, Pu!PurgeConstants
    <3> QED BY <1>2, <1>6, <3>1, <3>2 DEF DrawnOnce
  <2>2. ASSUME NEW p \in Poster
        PROVE  /\ post[p].parent <= drawn
               /\ post[p].parent # 0 => comments'[post[p].parent].state # "none"
    <3>1. post[p].parent \in 0 .. MaxComments
      BY <1>3 DEF PostRow
    <3>2. post[p].parent # 0 => post[p].parent \in Pu!Id
      BY <3>1 DEF Pu!Id, Pu!PurgeConstants
    <3> QED BY <1>2, <1>6, <3>2 DEF DrawnOnce
  <2>3. ASSUME NEW p \in Poster, post[p].pc = "commit"
        PROVE  /\ post[p].id \in 1 .. drawn /\ post[p].parent < post[p].id
               /\ comments'[post[p].id].state = "none"
               /\ \A q \in Poster \ {p} : post[q].pc = "commit" => post[q].id # post[p].id
    <3>1. /\ post[p].id \in 1 .. drawn /\ post[p].parent < post[p].id
          /\ comments[post[p].id].state = "none"
          /\ \A q \in Poster \ {p} : post[q].pc = "commit" => post[q].id # post[p].id
      BY <1>2, <2>3 DEF DrawnOnce
    <3>2. post[p].id \in Pu!Id
      BY <1>3, <3>1 DEF Pu!Id, Pu!PurgeConstants
    <3> QED BY <1>6, <3>1, <3>2
  <2> QED BY <1>1, <2>1, <2>2, <2>3 DEF DrawnOnce
<1>11. HeldApart'
  <2>1. \A p \in Poster : post[p].pc = "commit" =>
          /\ \A q \in Poster \ {p} : post[q].pc = "commit" => post[q].topic # post[p].topic
          /\ \A n \in Mod : post[p].topic \notin purging'[n].takes
    BY <1>2, <1>7, <1>8 DEF HeldApart
  <2>2. \A k \in Mod, n \in Mod : k # n =>
          /\ purging'[k].takes \cap purging'[n].takes = {}
          /\ purging'[k].rows \cap purging'[n].rows = {}
    BY <1>2, <1>7, <1>8 DEF HeldApart
  <2>3. ASSUME NEW p \in Poster, post[p].pc \in {"insert", "commit"}, post[p].parent # 0
        PROVE  /\ post[p].parent \in Pu!Live'
               /\ \A n \in Mod : post[p].parent \notin purging'[n].rows
    <3>1. post[p].parent \in Pu!Live /\ \A n \in Mod : post[p].parent \notin purging[n].rows
      BY <1>2, <2>3 DEF HeldApart
    <3> QED BY <1>4, <1>5, <1>7, <1>8, <3>1
  <2> QED BY <1>1, <2>1, <2>2, <2>3 DEF HeldApart
<1>12. Barred'
  BY <1>1, <1>2 DEF Barred
<1>13. ASSUME NEW n \in Mod PROVE Staged(n)' /\ Counted(n)' /\ Found(n)'
  <2>1. CASE n = m
    BY <1>7, <1>8, <2>1, AtRest
  <2>2. CASE n # m
    <3>1. /\ Staged(n) /\ Counted(n) /\ Found(n) /\ purging'[n] = purging[n]
          /\ purging[n] \in PurgeRow /\ purging[n].rows \cap r.rows = {}
      BY <1>2, <1>3, <1>8, <2>2 DEF HeldApart
    <3>2. /\ \A c \in purging[n].work \cup purging[n].rows :
                c \in Pu!Id /\ comments[c].own /\ comments[c].state # "none"
          /\ purging[n].gone \subseteq purging[n].rows /\ purging[n].rows \subseteq Pu!Live
      BY <3>1 DEF Staged, PurgeRow
    <3>3. Staged(n)'
      <4>1. purging[n].rows \subseteq Pu!Live'
        BY <1>4, <1>5, <3>1, <3>2
      <4> QED BY <1>4, <1>6, <3>1, <3>2, <4>1 DEF Staged
    <3>4. Counted(n)'
      <4>1. \A t \in Topic : {c \in purging[n].gone : comments'[c].topic = t}
                               = {c \in purging[n].gone : comments[c].topic = t}
        BY <1>4, <3>2
      <4>2. \A a \in Pu!Live' : comments'[a].parent \in purging[n].gone => a \in purging[n].gone
        BY <1>4, <1>5, <3>1 DEF Counted
      <4> QED BY <3>1, <4>1, <4>2 DEF Counted
    <3>5. Found(n)'
      <4>1. purging[n].pc \in {"lock", "delete"} =>
              \A c \in Pu!Live' : comments'[c].own /\ ~comments'[c].late
                                  => c \in purging[n].work \cup purging[n].rows
        BY <1>4, <1>5, <3>1 DEF Found
      <4>2. ASSUME NEW a \in purging[n].work \cup purging[n].rows,
                   comments'[a].parent \in Pu!Live', comments'[comments'[a].parent].own
            PROVE  comments'[a].parent \in purging[n].work \cup purging[n].rows
        <5>1. comments'[a].parent = comments[a].parent
          BY <1>4, <3>2
        <5>2. comments[a].parent \in Pu!Live /\ comments[comments[a].parent].own
          BY <1>4, <1>5, <4>2, <5>1
        <5> QED BY <3>1, <5>1, <5>2 DEF Found
      <4>3. ASSUME purging[n].pc = "delete",
                   NEW c \in purging[n].rows \ (purging[n].gone \cup purging[n].work)
            PROVE  \E a \in Pu!Live' \ (purging[n].gone \cup purging[n].work) :
                      comments'[a].parent = c
        <5>1. PICK a \in Pu!Live \ (purging[n].gone \cup purging[n].work) :
                comments[a].parent = c
          BY <3>1, <4>3 DEF Found
        <5>2. c \in Pu!Live /\ comments[c].own
          BY <3>2
        <5>3. a \notin g
          <6> SUFFICES ASSUME a \in g PROVE FALSE
            OBVIOUS
          <6>1. comments[a].parent \in r.work \cup r.rows
            BY <1>2, <1>5, <5>1, <5>2 DEF Found
          <6> QED BY <1>4, <3>1, <5>1, <6>1
        <5> QED BY <1>4, <1>5, <5>1, <5>3
      <4> QED BY <3>1, <4>1, <4>2, <4>3 DEF Found
    <3> QED BY <3>3, <3>4, <3>5
  <2> QED BY <2>1, <2>2
<1>14. Pu!NoReplyToPurged'
  <2>1. \A a \in Pu!Live : comments[a].parent \in g => a \in g
    BY <1>2 DEF Counted
  <2> QED BY <1>2, <1>4, <1>5, <2>1 DEF Pu!NoReplyToPurged
<1>15. Pu!StatExact'
  <2> SUFFICES ASSUME NEW t \in Topic
               PROVE  topics'[t].stat1 = Cardinality({c \in Pu!Live' : comments'[c].topic = t})
    BY PuCardinality DEF Pu!StatExact
  <2> DEFINE before == {c \in Pu!Live : comments[c].topic = t}
             less == {c \in g : comments[c].topic = t}
             after == {c \in Pu!Live' : comments'[c].topic = t}
  <2>1. topics[t].stat1 = Cardinality(before) /\ before \in SUBSET Pu!Id
    BY <1>2, <1>5, PuCardinality DEF Pu!StatExact
  <2>2. r.down[t] = Cardinality(less)
    BY <1>2 DEF Counted
  <2>3. after = before \ less /\ less \subseteq before /\ less \in SUBSET Pu!Id
    BY <1>4, <1>5
  <2> HIDE DEF before, less, after
  <2>4. Cardinality(before \ less) = Cardinality(before) - Cardinality(less)
    BY <2>1, <2>3, Comments
  <2>5. topics'[t].stat1 = Cardinality(after)
    BY <1>1, <2>1, <2>2, <2>3, <2>4
  <2> QED BY <2>5 DEF after
<1>16. Pu!Survivors'
  <2> SUFFICES ASSUME NEW c \in Pu!Live', comments'[c].own, ~comments'[c].late
               PROVE  c \in spared'
    BY DEF Pu!Survivors
  <2>1. c \in Pu!Live /\ c \notin g /\ comments[c].own /\ ~comments[c].late
    BY <1>4, <1>5
  <2>2. c \in r.work \cup r.rows
    BY <1>2, <1>4, <2>1 DEF Found
  <2> QED BY <1>1, <1>4, <2>1, <2>2
<1> QED BY <1>9, <1>10, <1>11, <1>12, <1>13, <1>14, <1>15, <1>16 DEF PurgeInv

LEMMA StepPurge ==
    ASSUME Pu!PurgeConstants, PurgeInv, [Pu!Next]_Pu!vars
    PROVE  PurgeInv'
<1>1. CASE UNCHANGED Pu!vars
  <2>1. UNCHANGED <<comments, topics, drawn, banned, post, purging, spared, closed, purged>>
    BY <1>1 DEF Pu!vars
  <2>2. PurgeTyped' /\ Barred'
    BY <2>1 DEF PurgeInv, PurgeTyped, Barred
  <2>3. DrawnOnce'
    BY <2>1 DEF PurgeInv, DrawnOnce
  <2>4. HeldApart'
    BY <2>1 DEF PurgeInv, HeldApart, Pu!Live
  <2> QED BY <2>1, <2>2, <2>3, <2>4, PurgesStand DEF PurgeInv
<1>2. CASE Pu!Next
  BY <1>2, PostCheckKeeps, ShareParentKeeps, PostInsertKeeps, CommitPostKeeps, AbortPostKeeps,
     StartKeeps, LockTopicsKeeps, FindCommentsKeeps, LockCommentKeeps, DeleteCommentKeeps,
     CommitPurgeKeeps, AbortPurgeKeeps DEF Pu!Next
<1> QED BY <1>1, <1>2

\* What the inductive invariant says of the type invariant of the runs.
LEMMA PurgeTypes ==
    ASSUME Pu!PurgeConstants, PurgeInv PROVE Pu!PurgeTypeOK
<1>1. /\ PurgeTyped /\ HeldApart /\ Pu!StatExact
  BY DEF PurgeInv
<1>2. \A c \in Pu!Id : comments[c].state \in {"none", "live", "deleted"}
  BY <1>1 DEF PurgeTyped, CommentRow
<1>3. ASSUME NEW t \in Topic PROVE topics[t].stat1 \in 0 .. MaxComments
  <2>1. {c \in Pu!Live : comments[c].topic = t} \in SUBSET Pu!Id
    BY DEF Pu!Live
  <2>2. Cardinality({c \in Pu!Live : comments[c].topic = t}) \in 0 .. MaxComments
    BY <2>1, Comments
  <2> QED BY <1>1, <2>2, PuCardinality DEF Pu!StatExact
<1>4. ASSUME NEW S, \A x \in S, y \in S : x = y PROVE Pu!Cardinality(S) <= 1
  <2>1. CASE S = {}
    BY <2>1, FS_EmptySet, PuCardinality
  <2>2. CASE S # {}
    <3>1. PICK x \in S : TRUE
      BY <2>2
    <3>2. S = {x}
      BY <1>4, <3>1
    <3>3. Cardinality({x}) = 1
      BY FS_Singleton
    <3> QED BY <3>2, <3>3, PuCardinality
  <2> QED BY <2>1, <2>2
<1>5. ASSUME NEW t \in Topic
      PROVE  Pu!Cardinality({p \in Poster : post[p].pc = "commit" /\ post[p].topic = t}
                              \cup {m \in Mod : t \in purging[m].takes}) <= 1
  <2> DEFINE S == {p \in Poster : post[p].pc = "commit" /\ post[p].topic = t}
                    \cup {m \in Mod : t \in purging[m].takes}
  <2>1. \A x \in S, y \in S : x = y
    BY <1>1 DEF HeldApart
  <2> HIDE DEF S
  <2>2. Pu!Cardinality(S) <= 1
    BY <1>4, <2>1
  <2> QED BY <2>2 DEF S
<1>6. ASSUME NEW c \in Pu!Id
      PROVE  Pu!Cardinality({m \in Mod : c \in purging[m].rows}) <= 1
  <2> DEFINE S == {m \in Mod : c \in purging[m].rows}
  <2>1. \A x \in S, y \in S : x = y
    BY <1>1 DEF HeldApart
  <2> HIDE DEF S
  <2>2. Pu!Cardinality(S) <= 1
    BY <1>4, <2>1
  <2> QED BY <2>2 DEF S
<1> QED BY <1>1, <1>2, <1>3, <1>5, <1>6 DEF PurgeTyped, Pu!PurgeTypeOK

\* However many purges and however many comments interleave: a deleted comment
\* has no live reply, every counter is the number of live comments, and what is
\* left of the culprit has a reply or could not be seen (stExecute,
\* stDeleteByIp, insert_comment).
THEOREM PurgesStayConsistent ==
    ASSUME Pu!PurgeConstants
    PROVE  Pu!Spec => []PurgeConsistent
<1>1. Pu!Init => PurgeInv
  BY InitPurge
<1>2. PurgeInv /\ [Pu!Next]_Pu!vars => PurgeInv'
  BY StepPurge
<1>3. PurgeInv => PurgeConsistent
  BY PurgeTypes DEF PurgeInv, PurgeConsistent, Pu!PurgeConsistent
<1> QED BY <1>1, <1>2, <1>3, PTL DEF Pu!Spec

-----------------------------------------------------------------------------
(* What was decided *)

LEMMA WarningsAreKept ==
    ASSUME WarningsInv, [Next]_vars
    PROVE  KeepsWarnings
<1>1. CASE warnings' = warnings
  BY <1>1 DEF KeepsWarnings
<1>2. ASSUME NEW r \in Req, Commit(r) PROVE KeepsWarnings
  <2>1. pc[r] \in Writing /\ warnings' = After(r) /\ WarningsTyped /\ Identified
    BY <1>2 DEF Commit, Writing, WarningsInv
  <2>2. CASE arg[r].author # Nobody
    <3>1. warnings \subseteq After(r)
      BY <2>1, <2>2, AfterIs
    <3> QED BY <2>1, <3>1 DEF KeepsWarnings
  <2>3. CASE arg[r].author = Nobody
    <3>1. \A w \in warnings : \E v \in After(r) :
             /\ v.id = w.id /\ v.author = w.author /\ v.rule = w.rule
             /\ v.open <=> w.open /\ w.id # arg[r].id
      BY <2>1, <2>3, AfterIs
    <3>2. \A w \in warnings : \E v \in After(r) : v.id = w.id /\ (v.open => w.open)
      BY <3>1
    <3> QED BY <2>1, <3>2 DEF KeepsWarnings
  <2> QED BY <2>2, <2>3
<1> QED BY <1>1, <1>2
     DEF Next, vars, Check, Insert, ClearCheck, Close, Recount, WriteCount, Abort, HourPasses,
         JobCount, JobWrite, JobFails

LEMMA PurgesSpareTheAnswered ==
    ASSUME Pu!PurgeConstants, PurgeInv, [Pu!Next]_Pu!vars
    PROVE  Pu!SparesTheAnswered
<1>1. CASE spared' = spared
  BY <1>1 DEF Pu!SparesTheAnswered
<1>2. ASSUME NEW m \in Mod, Pu!CommitPurge(m) PROVE Pu!SparesTheAnswered
  <2> SUFFICES ASSUME NEW c \in spared' \ spared
               PROVE  \E a \in Pu!Id : comments'[a].state = "live" /\ comments'[a].parent = c
    BY DEF Pu!SparesTheAnswered
  <2>1. /\ purging[m].pc = "delete" /\ purging[m].work = {} /\ Found(m)
        /\ c \in purging[m].rows \ purging[m].gone
    BY <1>2, PurgedIs DEF PurgeInv, Pu!CommitPurge
  <2>2. PICK a \in Pu!Live \ purging[m].gone : comments[a].parent = c
    BY <2>1 DEF Found
  <2>3. a \in Pu!Id /\ comments[a].state = "live"
    BY <2>2 DEF Pu!Live
  <2> QED BY <1>2, <2>2, <2>3, PurgedIs
<1> QED BY <1>1, <1>2
     DEF Pu!Next, Pu!vars, Pu!Check, Pu!ShareParent, Pu!Insert, Pu!CommitPost, Pu!AbortPost,
         Pu!Start, Pu!LockTopics, Pu!FindComments, Pu!LockComment, Pu!DeleteComment,
         Pu!AbortPurge

LEMMA LateOnesChange ==
    ASSUME EditsInv, [Ce!Next]_Ce!vars
    PROVE  Ce!ChangesUnanswered
<1>1. CASE text' = text
  BY <1>1 DEF Ce!ChangesUnanswered
<1>2. ASSUME NEW r \in Req, Ce!Commit(r) PROVE Ce!ChangesUnanswered
  <2>1. at[r] = "record" /\ at' = [at EXCEPT ![r] = "idle"]
    BY <1>2 DEF Ce!Commit, Ce!Done
  <2>2. at'[r] = "idle"
    BY <2>1 DEF EditsInv, EditsTyped
  <2>3. answered \/ gone => {"answered", "deleted"} \cap since[r] # {}
    BY <2>1 DEF EditsInv, UpToDate
  <2> QED BY <2>1, <2>2, <2>3 DEF Ce!ChangesUnanswered
<1> QED BY <1>1, <1>2
     DEF Ce!Next, Ce!vars, Ce!Read, Ce!Update, Ce!Abort, Ce!Answer, Ce!Delete

\* No step takes back what was decided: a closed warning stays closed and none
\* is lost, what a purge leaves has a live reply also while other purges run,
\* and an answered or deleted comment is changed only by a request that had
\* read it before (vClear, stExecute, edit_comment).
THEOREM WhatWasDecidedStands ==
    ASSUME Pu!PurgeConstants, Ce!EditConstants
    PROVE  Spec /\ Pu!Spec /\ Ce!Spec => DecisionsStand
<1>1. /\ Init => WarningsInv
      /\ WarningsInv /\ [Next]_vars => WarningsInv' /\ KeepsWarnings
  BY InitWarnings, StepWarnings, WarningsAreKept
<1>2. /\ Pu!Init => PurgeInv
      /\ PurgeInv /\ [Pu!Next]_Pu!vars => PurgeInv' /\ Pu!SparesTheAnswered
  BY InitPurge, StepPurge, PurgesSpareTheAnswered
<1>3. /\ Ce!Init => EditsInv
      /\ EditsInv /\ [Ce!Next]_Ce!vars => EditsInv' /\ Ce!ChangesUnanswered
  BY InitEdits, StepEdits, LateOnesChange
<1>4. KeepsWarnings /\ Pu!SparesTheAnswered /\ Ce!ChangesUnanswered
      => [KeepsWarnings /\ Pu!SparesTheAnswered /\ Ce!ChangesUnanswered]_<<vars, puvars, cevars>>
  OBVIOUS
<1> QED BY <1>1, <1>2, <1>3, <1>4, PTL DEF Spec, Pu!Spec, Ce!Spec, DecisionsStand
=============================================================================
