------------------------------ MODULE Userpics ------------------------------
(***************************************************************************)
(* Userpics are files named in users.photo.  An upload writes the file,    *)
(* then the row; a reset and a deregistration only clear the row; the      *)
(* nightly job removes old files.  It looks at the rows once, then at the  *)
(* directory, then at the log, file by file, and no lock is held on any of *)
(* them.  Names are random numbers, never used twice.                      *)
(***************************************************************************)
EXTENDS Integers, FiniteSets

CONSTANTS
    User, NoPhoto,
    MaxFiles           \* bound: files ever written

UserpicsConstants == MaxFiles \in Nat /\ NoPhoto \notin 1..MaxFiles

VARIABLES
    photo,      \* users.photo
    files,      \* file |-> its age: 0, or 1 after an hour
    logged,     \* files named in user_log within 1095 days
    upload,     \* the file each user's request has written and not set
    names,      \* source of names
    job,        \* how far the nightly job is
    active,     \* the rows as it read them
    batch       \* the files it will remove

vars == <<photo, files, logged, upload, names, job, active, batch>>

File == 1..MaxFiles

Init ==
    /\ photo = [u \in User |-> NoPhoto]
    /\ files = <<>>
    /\ logged = {}
    /\ upload = [u \in User |-> NoPhoto]
    /\ names = 0
    /\ job = "idle" /\ active = {} /\ batch = {}

With(f, age) == [g \in DOMAIN files \cup {f} |-> IF g = f THEN age ELSE files[g]]
Without(F) == [g \in DOMAIN files \ F |-> files[g]]

\* sInstall, one request of a user at a time.
Write(u) ==
    /\ upload[u] = NoPhoto /\ names < MaxFiles
    /\ names' = names + 1
    /\ files' = With(names + 1, 0)
    /\ upload' = [upload EXCEPT ![u] = names + 1]
    /\ UNCHANGED <<photo, logged, job, active, batch>>

\* vSetUserpic: the row, and the log with the old name and the new one.
Set(u) ==
    /\ upload[u] # NoPhoto
    /\ photo' = [photo EXCEPT ![u] = upload[u]]
    /\ logged' = logged \cup ({photo[u], upload[u]} \ {NoPhoto})
    /\ upload' = [upload EXCEPT ![u] = NoPhoto]
    /\ UNCHANGED <<files, names, job, active, batch>>

\* The statement fails and the file is removed; or the process stops before.
SetFails(u) ==
    /\ upload[u] # NoPhoto
    /\ files' = Without({upload[u]}) \/ files' = files
    /\ upload' = [upload EXCEPT ![u] = NoPhoto]
    /\ UNCHANGED <<photo, logged, names, job, active, batch>>

\* ResetUserpic
Reset(u) ==
    /\ photo[u] # NoPhoto
    /\ logged' = logged \cup {photo[u]}
    /\ photo' = [photo EXCEPT ![u] = NoPhoto]
    /\ UNCHANGED <<files, upload, names, job, active, batch>>

\* vDeregister clears the photo and logs nothing about it.
Deregister(u) ==
    /\ photo[u] # NoPhoto
    /\ photo' = [photo EXCEPT ![u] = NoPhoto]
    /\ UNCHANGED <<files, logged, upload, names, job, active, batch>>

(***************************************************************************)
(* vCleanupOldUserpics                                                     *)
(***************************************************************************)
\* Mutant: the log alone decides.
ReadNobody ==
    /\ job = "idle"
    /\ job' = "list"
    /\ UNCHANGED <<photo, files, logged, upload, names, active, batch>>

ReadActive ==
    /\ job = "idle"
    /\ active' = {photo[u] : u \in User} \ {NoPhoto}
    /\ job' = "list"
    /\ UNCHANGED <<photo, files, logged, upload, names, batch>>

List ==
    /\ job = "list"
    /\ batch' = {f \in DOMAIN files \ active : files[f] = 1}
    /\ job' = "log"
    /\ UNCHANGED <<photo, files, logged, upload, names, active>>

ReadLog ==
    /\ job = "log"
    /\ batch' = batch \ logged
    /\ job' = "remove"
    /\ UNCHANGED <<photo, files, logged, upload, names, active>>

RemoveFiles ==
    /\ job = "remove"
    /\ IF batch = {}
       THEN active' = {} /\ job' = "idle" /\ UNCHANGED <<files, batch>>
       ELSE \E f \in batch : /\ files' = Without({f}) /\ batch' = batch \ {f}
                             /\ UNCHANGED <<active, job>>
    /\ UNCHANGED <<photo, logged, upload, names>>

JobStep == ReadActive \/ List \/ ReadLog \/ RemoveFiles

\* An hour passes over a file; a request that wrote one is long done by then.
HourPasses(f) ==
    /\ f \in DOMAIN files /\ files[f] = 0
    /\ \A u \in User : upload[u] # f
    /\ files' = With(f, 1)
    /\ UNCHANGED <<photo, logged, upload, names, job, active, batch>>

\* 1095 days pass over what the log says of a file.
YearsPass(f) ==
    /\ f \in logged /\ files[f] = 1
    /\ job = "idle"
    /\ logged' = logged \ {f}
    /\ UNCHANGED <<photo, files, upload, names, job, active, batch>>

Next ==
    \/ \E u \in User : Write(u) \/ Set(u) \/ SetFails(u) \/ Reset(u) \/ Deregister(u)
    \/ JobStep
    \/ \E f \in File : HourPasses(f) \/ YearsPass(f)

Fairness == WF_vars(JobStep)     \* the job runs every day
Spec == Init /\ [][Next]_vars /\ Fairness

(***************************************************************************)
(* Properties                                                              *)
(***************************************************************************)

\* Every variable keeps its type.
UserpicsTypeOK ==
    /\ photo \in [User -> File \cup {NoPhoto}] /\ upload \in [User -> File \cup {NoPhoto}]
    /\ DOMAIN files \subseteq File /\ \A f \in DOMAIN files : files[f] \in {0, 1}
    /\ logged \subseteq File /\ active \subseteq File /\ batch \subseteq File
    /\ names \in 0..MaxFiles
    /\ job \in {"idle", "list", "log", "remove"}

\* Whoever has a picture has its file, although the job decides from rows it
\* read before the picture was set.
PhotoHasFile == \A u \in User : photo[u] # NoPhoto => photo[u] \in DOMAIN files

\* What the log has named within 1095 days can be looked at: the job removes no
\* such file.
LoggedStays == logged \subseteq DOMAIN files

\* No file that something still names is missing.
PhotosStay == UserpicsTypeOK /\ PhotoHasFile /\ LoggedStays

\* An old file that nobody has and the log does not name is removed.
OldAreRemoved ==
    \A f \in File :
        f \in DOMAIN files /\ files[f] = 1 /\ f \notin logged /\ (\A u \in User : photo[u] # f)
            ~> f \notin DOMAIN files
=============================================================================
