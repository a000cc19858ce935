------------------------------- MODULE Process --------------------------------
(***************************************************************************)
(* What a server process does beside its requests: it mails what went      *)
(* wrong, and moves the counts of advertisements into the database.  The   *)
(* two share no variable; what each promises is stated here once, for the  *)
(* run and for the proofs.                                                 *)
(***************************************************************************)
EXTENDS ExceptionReporter

CONSTANTS Server, Path, MaxCounts, MaxFailures          \* AdvCounter

VARIABLES memory, taken, todo, worker, server, table, lock, counted, again, lost, late, aborted,
          failures

A == INSTANCE AdvCounter WITH Node <- Server, batch <- taken

avars == <<memory, taken, todo, worker, server, table, lock, counted, again, lost, late, aborted,
           failures>>

-----------------------------------------------------------------------------
\* The property of the instance, which its module states and explains.
CountsAreAccounted == A!CountsAreAccounted
=============================================================================
