------------------------------- MODULE Images -------------------------------
(***************************************************************************)
(* The pictures of one topic of the gallery: previews that a form stages,  *)
(* directories that a post or an edit makes of them inside its transaction *)
(* and removes again when the transaction fails, rows of images, and the   *)
(* deletion of single pictures.  Files take part in no transaction.        *)
(***************************************************************************)
EXTENDS Integers, FiniteSets

CONSTANTS
    Req,            \* the tasks that serve requests
    Limit,          \* pictures a topic may have: TOPIC_IMAGE_LIMIT
    MaxPreviews,    \* bound: previews ever staged
    MaxImages,      \* bound: ids drawn from the sequence of images
    MaxFaults       \* bound: lost answers and crashes

ImageConstants == {Limit, MaxPreviews, MaxImages} \subseteq Nat

VARIABLES
    posted,      \* the topic exists
    images,      \* row of each image: "none", "live" or "deleted"
    dirs,        \* images/<id>, complete
    parts,       \* the files of each preview
    old,         \* previews staged three days ago
    recorded,    \* pictures that oldaddimages of some row of edit_info names
    drawn,       \* the sequence of images; previews are drawn from staged
    staged,
    pc,          \* what each request does next
    room,        \* how many pictures it may add
    uses, new,   \* its previews; the pictures its transaction made
    target,      \* the picture it deletes
    stale,       \* history: somebody else's commit since it looked
    lost,        \* history: pictures committed without an answer
    leaked,      \* history: directories of a process that stopped
    over, both,  \* history: pictures added, or deleted, on a stale look
    faults       \* failures so far (bound)

files == <<dirs, parts, old, drawn, staged>>
rows == <<posted, images, recorded>>
own == <<pc, room, uses, new, target, stale>>
ghosts == <<lost, leaked, over, both, faults>>
vars == <<rows, files, own, ghosts>>

Image == 1..MaxImages
Preview == 1..MaxPreviews
Whole == {"main", "small"}       \* the original and its derivatives

Init ==
    /\ posted = FALSE
    /\ images = [i \in Image |-> "none"] /\ recorded = {}
    /\ dirs = {} /\ parts = [p \in Preview |-> {}] /\ old = {}
    /\ drawn = 0 /\ staged = 0
    /\ pc = [r \in Req |-> "idle"] /\ room = [r \in Req |-> 0]
    /\ uses = [r \in Req |-> {}] /\ new = [r \in Req |-> {}]
    /\ target = [r \in Req |-> 0] /\ stale = [r \in Req |-> FALSE]
    /\ lost = {} /\ leaked = {} /\ over = 0 /\ both = FALSE /\ faults = 0

\* load_topic_images and optPrepareImageAsset leave out what has no files.
Shown == {i \in dirs : images[i] = "live"}
Goto(r, step) == pc' = [pc EXCEPT ![r] = step]

\* Those at one of these steps looked before this commit.
Editing == {"stage", "save", "commit"}
Noticed(r, steps) == stale' = [q \in Req |-> q # r /\ (stale[q] \/ pc[q] \in steps)]
Forgets(r) ==
    /\ Goto(r, "idle")
    /\ room' = [room EXCEPT ![r] = 0]
    /\ uses' = [uses EXCEPT ![r] = {}] /\ new' = [new EXCEPT ![r] = {}]
    /\ target' = [target EXCEPT ![r] = 0]

(***************************************************************************)
(* Posting and editing                                                     *)
(***************************************************************************)

\* create_topic has a whole limit, edit_topic what the pictures leave of it.
\* A topic is posted by one request.
Look(r) ==
    /\ pc[r] = "idle"
    /\ posted \/ \A q \in Req : pc[q] = "idle"
    /\ Goto(r, "stage")
    /\ room' = [room EXCEPT ![r] = IF Cardinality(Shown) < Limit
                                   THEN Limit - Cardinality(Shown) ELSE 0]
    /\ UNCHANGED <<rows, files, uses, new, target, stale, ghosts>>

\* vecReusableTopicPreviews asks for the main file only.
Reusable == {p \in Preview : "main" \in parts[p]}

\* vecStageTopicPreviews after it.  A form that fails its checks is shown
\* again: its previews stay.  A topic of the gallery needs one picture.
Stage(r) ==
    /\ pc[r] = "stage"
    /\ \E reused \in SUBSET Reusable, uploads \in 0..1 :
        LET fresh == staged+1 .. staged+uploads IN
        /\ Cardinality(reused) + uploads <= room[r] /\ staged + uploads <= MaxPreviews
        /\ staged' = staged + uploads
        /\ parts' = [p \in Preview |-> IF p \in fresh THEN Whole ELSE parts[p]]
        /\ \/ /\ reused \cup fresh # {}
              /\ uses' = [uses EXCEPT ![r] = reused \cup fresh]
              /\ Goto(r, "save")
              /\ UNCHANGED <<room, stale>>
           \/ /\ Goto(r, "idle")
              /\ room' = [room EXCEPT ![r] = 0] /\ stale' = [stale EXCEPT ![r] = FALSE]
              /\ uses' = uses
    /\ UNCHANGED <<rows, dirs, old, drawn, new, target, ghosts>>

\* The guard of the directories is dropped without vCommit.
Rollback(r) ==
    /\ dirs' = dirs \ new[r]
    /\ Forgets(r) /\ stale' = [stale EXCEPT ![r] = FALSE]

\* save_topic_preview and vSavePreviewImageTx for each of them: all the files
\* of all the previews must be there.
Save(r) ==
    LET made == drawn+1 .. drawn+Cardinality(uses[r]) IN
    /\ pc[r] = "save" /\ made \subseteq Image
    /\ \A p \in uses[r] : parts[p] = Whole
    /\ drawn' = drawn + Cardinality(uses[r])
    /\ dirs' = dirs \cup made
    /\ new' = [new EXCEPT ![r] = made]
    /\ Goto(r, "commit")
    /\ UNCHANGED <<rows, parts, old, staged, room, uses, target, stale, ghosts>>

Committed(r) ==
    /\ posted' = TRUE
    /\ images' = [i \in Image |-> IF i \in new[r] THEN "live" ELSE images[i]]
    /\ recorded' = recorded \cup {i \in Image : images[i] = "live"}
    /\ over' = IF stale[r] THEN over + Cardinality(new[r]) ELSE over

\* Mutant: vCommit is forgotten.
CommitArmed(r) ==
    /\ pc[r] = "commit"
    /\ Committed(r) /\ Noticed(r, Editing)
    /\ Goto(r, "forget")
    /\ dirs' = dirs \ new[r]
    /\ UNCHANGED <<parts, old, drawn, staged, room, uses, new, target, lost, leaked, both, faults>>

Commit(r) ==
    /\ pc[r] = "commit"
    /\ Committed(r) /\ Noticed(r, Editing)
    /\ Goto(r, "forget")
    /\ UNCHANGED <<files, room, uses, new, target, lost, leaked, both, faults>>

\* A file is missing, a statement fails, or the client goes away and the handler with it.
Fails(r) ==
    /\ pc[r] \in {"save", "commit"}
    /\ Rollback(r)
    /\ UNCHANGED <<rows, parts, old, drawn, staged, ghosts>>

\* ... while the server carries out the COMMIT it was sent.
CommitUnanswered(r) ==
    /\ pc[r] = "commit" /\ faults < MaxFaults
    /\ faults' = faults + 1
    /\ Committed(r)
    /\ dirs' = dirs \ new[r]
    /\ lost' = lost \cup new[r]
    /\ Noticed(r, Editing) /\ Forgets(r)
    /\ UNCHANGED <<parts, old, drawn, staged, leaked, both>>

\* vDeleteTopicPreview for each of them, file by file.
DropPreview(r) ==
    /\ pc[r] = "forget"
    /\ IF \A p \in uses[r] : parts[p] = {}
       THEN Forgets(r) /\ stale' = [stale EXCEPT ![r] = FALSE] /\ parts' = parts
       ELSE /\ \E p \in uses[r] : /\ parts[p] # {}
                                 /\ parts' = [parts EXCEPT ![p] = IF @ = Whole THEN {"small"} ELSE {}]
            /\ UNCHANGED own
    /\ UNCHANGED <<rows, dirs, old, drawn, staged, ghosts>>

Crash(r) ==
    /\ pc[r] # "idle" /\ faults < MaxFaults
    /\ faults' = faults + 1
    /\ leaked' = leaked \cup (IF pc[r] \in {"save", "commit"} THEN new[r] ELSE {})
    /\ Forgets(r) /\ stale' = [stale EXCEPT ![r] = FALSE]
    /\ UNCHANGED <<rows, files, lost, over, both>>

(***************************************************************************)
(* Deleting one picture                                                    *)
(***************************************************************************)

\* stCheckedTarget: any picture of the topic, also one already deleted.
DeleteCheck(r, i) ==
    /\ pc[r] = "idle" /\ images[i] # "none"
    /\ Cardinality(Shown) > 1
    /\ Goto(r, "delete")
    /\ target' = [target EXCEPT ![r] = i]
    /\ UNCHANGED <<rows, files, room, uses, new, stale, ghosts>>

\* vDelete: the rows of all active pictures are locked first.
Delete(r) ==
    /\ pc[r] = "delete"
    /\ recorded' = recorded \cup {i \in Image : images[i] = "live"}
    /\ images' = [images EXCEPT ![target[r]] = "deleted"]
    /\ both' = (both \/ stale[r])
    /\ Noticed(r, {"delete"}) /\ Forgets(r)
    /\ UNCHANGED <<posted, files, lost, leaked, over, faults>>

(***************************************************************************)
(* vCleanupGalleryPreviews                                                 *)
(***************************************************************************)
Ages(p) ==
    /\ parts[p] # {} /\ p \notin old
    /\ old' = old \cup {p}
    /\ UNCHANGED <<rows, dirs, parts, drawn, staged, own, ghosts>>

\* File by file, in any order; a form may hold the name of a preview still.
Clean ==
    /\ \E p \in old : \E f \in parts[p] : parts' = [parts EXCEPT ![p] = @ \ {f}]
    /\ UNCHANGED <<rows, dirs, old, drawn, staged, own, ghosts>>

TimeAndJob == Clean \/ \E p \in Preview : Ages(p)
Next ==
    \/ \E r \in Req :
        \/ Look(r) \/ Stage(r) \/ Save(r) \/ Commit(r) \/ Fails(r) \/ CommitUnanswered(r)
        \/ DropPreview(r) \/ Crash(r) \/ Delete(r)
        \/ \E i \in Image : DeleteCheck(r, i)
    \/ TimeAndJob

\* Time passes, and the job runs every day.
Fairness == WF_vars(TimeAndJob)
Spec == Init /\ [][Next]_vars /\ Fairness

(***************************************************************************)
(* Properties                                                              *)
(***************************************************************************)

\* Every variable keeps its type.
ImagesTypeOK ==
    /\ posted \in BOOLEAN
    /\ images \in [Image -> {"none", "live", "deleted"}] /\ recorded \subseteq Image
    /\ dirs \subseteq Image /\ parts \in [Preview -> SUBSET Whole] /\ old \subseteq Preview
    /\ drawn \in 0..MaxImages /\ staged \in 0..MaxPreviews
    /\ pc \in [Req -> {"idle", "stage", "save", "commit", "forget", "delete"}]
    /\ room \in [Req -> 0..Limit] /\ stale \in [Req -> BOOLEAN]

\* Whatever fails between the files and the commit, every row has its files,
\* and every directory is somebody's: the exceptions are a COMMIT whose answer
\* was lost and a process that stopped inside its transaction.
RowsHaveFiles == \A i \in Image : images[i] # "none" => i \in dirs \cup lost
NoOrphans ==
    \A i \in dirs : images[i] # "none" \/ i \in leaked \/ \E r \in Req : i \in new[r]

\* A topic of the gallery shows a picture, unless two deletions overlapped,
\* and no more pictures than its limit, unless two edits did.
GalleryKeepsOne == posted => Shown # {} \/ both \/ lost # {}
WithinLimit == Cardinality(Shown) <= Limit + over

\* A picture that was deleted is found in the history: some snapshot has it,
\* also when it is deleted twice.
DeletedIsRecorded == \A i \in Image : images[i] = "deleted" => i \in recorded

\* Rows, files, history and the rules of the gallery agree with each other.
PicturesConsistent ==
    /\ ImagesTypeOK /\ RowsHaveFiles /\ NoOrphans /\ DeletedIsRecorded
    /\ GalleryKeepsOne /\ WithinLimit

\* No preview stays for ever, whatever part of it was removed before.
PreviewsGo == \A p \in Preview : parts[p] # {} ~> parts[p] = {}
=============================================================================
