-------------------------------- MODULE Jobs --------------------------------
(***************************************************************************)
(* The background jobs: the scheduler, and the two jobs that work on       *)
(* something outside of the database.  The gate orders the jobs of one     *)
(* process; of Telegram several processes take part, and of Userpics the   *)
(* requests as well.  The three share no variable; what each promises is   *)
(* stated here once, for the runs and for the proofs.                      *)
(***************************************************************************)

CONSTANTS Fixed, Cron, Delay, Instants, Day             \* Scheduler
CONSTANTS Node, Topic, Nobody, MaxSent, MaxFaults       \* Telegram
CONSTANTS User, NoPhoto, MaxFiles                       \* Userpics

VARIABLES clock, phase, left, gate, shutdown, credit
VARIABLES topic, posts, channel, holder, pc, got, sent, forgotten, lastId, faults
VARIABLES photo, files, logged, upload, names, job, active, batch

S == INSTANCE Scheduler
T == INSTANCE Telegram WITH MaxMessages <- MaxSent
P == INSTANCE Userpics

svars == <<clock, phase, left, gate, shutdown, credit>>
tvars == <<topic, posts, channel, holder, pc, got, sent, forgotten, lastId, faults>>
pvars == <<photo, files, logged, upload, names, job, active, batch>>

-----------------------------------------------------------------------------
\* The properties of the instances, which their modules state and explain.
RunsAsScheduled == S!RunsAsScheduled
ChannelConsistent == T!ChannelConsistent
PhotosStay == P!PhotosStay
=============================================================================
