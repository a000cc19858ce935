----------------------------- MODULE Scheduler ------------------------------
(***************************************************************************)
(* The tasks of bootstrap/background.rs.  Each sleeps for itself, either a *)
(* fixed delay after its last run or until the next instant of its cron    *)
(* expression, then waits at one FIFO gate and runs its callback alone.    *)
(* The clock shows the local time of a day of Day ticks.  A sleeper may    *)
(* wake late, as a suspended machine makes it do.                          *)
(***************************************************************************)
EXTENDS Integers, Sequences, SequencesExt

CONSTANTS
    Fixed, Cron,      \* the tasks of the two kinds
    Delay,            \* of each fixed task: ticks between two runs
    Instants,         \* of each cron task: when in the day it is due
    Day               \* ticks in a day

Job == Fixed \cup Cron

SchedulerConstants ==
    /\ Fixed \cap Cron = {} /\ Day \in Nat \ {0}
    /\ Delay \in [Fixed -> Nat]
    /\ \A j \in Cron : Instants[j] # {} /\ Instants[j] \subseteq 0..Day-1

VARIABLES
    clock,
    phase,       \* what each task is doing
    left,        \* ticks until its sleep is over
    gate,        \* who waits for oSchedulerGate; the first one runs
    shutdown,    \* oShutdown
    credit       \* history: instants that came less runs, at most MaxCredit

vars == <<clock, phase, left, gate, shutdown, credit>>

MaxCredit == 2    \* bound of the history

\* Mutant: the search begins with the present second.
UntilNextIncluded(j, now) ==
    CHOOSE d \in 0..Day :
        /\ (now + d) % Day \in Instants[j]
        /\ \A e \in 0..(d-1) : (now + e) % Day \notin Instants[j]

\* dtNextLocalMatch: the first matching instant after now, never now itself.
UntilNext(j, now) ==
    CHOOSE d \in 1..Day :
        /\ (now + d) % Day \in Instants[j]
        /\ \A e \in 1..(d-1) : (now + e) % Day \notin Instants[j]

Sleep(j) == IF j \in Fixed THEN Delay[j] ELSE UntilNext(j, clock)

Init ==
    /\ clock \in 0..Day-1
    /\ phase = [j \in Job |-> "sleep"]
    /\ left \in {f \in [Job -> 0..Day] : \A j \in Cron : f[j] = Sleep(j)}   \* stInitialDelay
    /\ gate = <<>>
    /\ shutdown = FALSE
    /\ credit = [j \in Cron |-> 0]

Tick ==
    LET now == (clock + 1) % Day
        more(j) == IF now \in Instants[j] /\ credit[j] < MaxCredit THEN 1 ELSE 0
    IN
    /\ clock' = now
    /\ left' = [j \in Job |-> IF left[j] = 0 THEN 0 ELSE left[j] - 1]
    /\ credit' = [j \in Cron |-> credit[j] + more(j)]
    /\ UNCHANGED <<phase, gate, shutdown>>

\* The sleep won the select, even if the signal has come meanwhile.
Wake(j) ==
    /\ phase[j] = "sleep" /\ left[j] = 0
    /\ phase' = [phase EXCEPT ![j] = "gate"]
    /\ gate' = Append(gate, j)
    /\ UNCHANGED <<clock, left, shutdown, credit>>

Stop(j) ==
    /\ phase[j] = "sleep" /\ shutdown
    /\ phase' = [phase EXCEPT ![j] = "ended"]
    /\ UNCHANGED <<clock, left, gate, shutdown, credit>>

Run(j) ==
    /\ phase[j] = "gate" /\ gate[1] = j
    /\ phase' = [phase EXCEPT ![j] = "run"]
    /\ credit' = IF j \in Cron THEN [credit EXCEPT ![j] = @ - 1] ELSE credit
    /\ UNCHANGED <<clock, left, gate, shutdown>>

\* Mutant: a failure leaves the loop with `?`.
FinishOnlyWhenWell(j) ==
    /\ phase[j] = "run"
    /\ gate' = Tail(gate)
    /\ \/ /\ ~shutdown
          /\ phase' = [phase EXCEPT ![j] = "sleep"]
          /\ left' = [left EXCEPT ![j] = Sleep(j)]
       \/ phase' = [phase EXCEPT ![j] = "ended"] /\ left' = left
    /\ UNCHANGED <<clock, shutdown, credit>>

\* A failure is reported and the task goes on; bWaitOrShutdown ends it when
\* the signal has come.
Finish(j) ==
    /\ phase[j] = "run"
    /\ gate' = Tail(gate)
    /\ IF shutdown
       THEN phase' = [phase EXCEPT ![j] = "ended"] /\ left' = left
       ELSE /\ phase' = [phase EXCEPT ![j] = "sleep"]
            /\ left' = [left EXCEPT ![j] = Sleep(j)]
    /\ UNCHANGED <<clock, shutdown, credit>>

Shutdown ==
    /\ ~shutdown /\ shutdown' = TRUE
    /\ UNCHANGED <<clock, phase, left, gate, credit>>

\* main waits fifteen seconds for each task, then aborts it where it stands.
Abort(j) ==
    /\ shutdown /\ phase[j] \in {"gate", "run"}
    /\ phase' = [phase EXCEPT ![j] = "ended"]
    /\ \E i \in DOMAIN gate : gate[i] = j /\ gate' = RemoveAt(gate, i)
    /\ UNCHANGED <<clock, left, shutdown, credit>>

TaskStep(j) == Wake(j) \/ Stop(j) \/ Run(j) \/ Finish(j)
Next ==
    \/ Tick \/ Shutdown
    \/ \E j \in Job : TaskStep(j) \/ Abort(j)

\* Callbacks return: their requests to other servers time out after 10 s.
Fairness == WF_vars(Tick) /\ \A j \in Job : WF_vars(TaskStep(j))
Spec == Init /\ [][Next]_vars /\ Fairness

(***************************************************************************)
(* Properties                                                              *)
(***************************************************************************)

\* Every variable keeps its type, and whoever waits or runs is in the queue of
\* the gate once: nobody else runs.
SchedulerTypeOK ==
    /\ clock \in 0..Day-1 /\ shutdown \in BOOLEAN
    /\ phase \in [Job -> {"sleep", "gate", "run", "ended"}]
    /\ left \in [Job -> Nat]
    /\ IsInjective(gate) /\ ToSet(gate) = {j \in Job : phase[j] \in {"gate", "run"}}
    /\ \A j \in Job : phase[j] = "run" => gate[1] = j

\* A cron task runs at most once for each of its instants, also when a run
\* ends within the second in which it began; an instant missed is not made up.
RunsAsScheduled == SchedulerTypeOK /\ \A j \in Cron : credit[j] >= 0

\* No task starves at the gate or is lost by a failure of its own or of
\* another: each one runs again and again until the process is told to stop.
Recurs == \A j \in Job : []<>(phase[j] = "run" \/ shutdown)

\* After the signal every task ends by itself.
ShutdownEnds == shutdown ~> \A j \in Job : phase[j] = "ended"
=============================================================================
