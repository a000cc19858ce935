----------------------------- MODULE AdvCounter -----------------------------
(***************************************************************************)
(* The advertisement counters: requests count in the memory of their       *)
(* process, a background worker of every process moves the counts of a     *)
(* minute into the table adv_counts, and a process that shuts down flushes *)
(* once more while its last requests are still being served.               *)
(***************************************************************************)
EXTENDS Naturals, FiniteSetsExt

CONSTANTS
    Node,        \* the server processes
    Path,
    MaxCounts,   \* bound: requests counted
    MaxFailures  \* bound: flushes that fail

CounterConstants == IsFiniteSet(Node)

VARIABLES
    memory,    \* mapCounters of each process
    batch,     \* what its worker took and has not yet disposed of
    todo,      \* the paths of the batch still to be written
    worker,    \* "wait", "flush", "last" (its last flush), "done", "dead"
    server,    \* "up", "draining" (shutdown was signalled), "down"
    table,     \* adv_counts, committed
    lock,      \* the process whose transaction holds the path's row
    counted,   \* requests counted, ever
    again,     \* counts restored although their transaction had committed
    lost,      \* counts that went down with their process
    late,      \* counts of processes already told to shut down
    aborted,   \* some worker was aborted before its loop had ended, or in its last flush
    failures   \* flushes failed

vars == <<memory, batch, todo, worker, server, table, lock, counted, again, lost, late, aborted, failures>>

NoNode == "nobody"
Empty  == [p \in Path |-> 0]
Plus(f, g) == [p \in Path |-> f[p] + g[p]]
Total(f) == MapThenSumSet(LAMBDA p : f[p], Path)

Init ==
    /\ memory = [n \in Node |-> Empty] /\ batch = [n \in Node |-> Empty]
    /\ todo = [n \in Node |-> {}]
    /\ worker = [n \in Node |-> "wait"] /\ server = [n \in Node |-> "up"]
    /\ table = Empty /\ counted = Empty /\ again = Empty /\ lost = Empty /\ late = Empty
    /\ lock = [p \in Path |-> NoNode]
    /\ aborted = FALSE /\ failures = 0

\* vCount, after the response was made: requests in flight are served to the
\* end, also those that a shutdown finds running.
Count(n, p) ==
    /\ server[n] # "down" /\ Total(counted) < MaxCounts
    /\ memory' = [memory EXCEPT ![n][p] = @ + 1]
    /\ counted' = [counted EXCEPT ![p] = @ + 1]
    /\ late' = IF server[n] = "up" THEN late ELSE [late EXCEPT ![p] = @ + 1]
    /\ UNCHANGED <<batch, todo, worker, server, table, lock, again, lost, aborted, failures>>

-----------------------------------------------------------------------------
(* The worker *)

Flushing(n)   == worker[n] \in {"flush", "last"}
AfterFlush(n) == [worker EXCEPT ![n] = IF @ = "last" THEN "done" ELSE "wait"]

\* A worker woken by the signal flushes for the last time; one whose minute has
\* passed meanwhile finds the signal when it next waits.
Woken(n) == [worker EXCEPT ![n] = IF server[n] = "up" THEN "flush" ELSE "last"]

Written(n) == {p \in Path : memory[n][p] > 0}

\* mapTake; an empty map writes nothing.
Take(n) ==
    /\ worker[n] = "wait"
    /\ memory[n] # Empty \/ server[n] # "up"
    /\ worker' = Woken(n)
    /\ IF worker'[n] = "done" THEN UNCHANGED <<memory, batch, todo>>
       ELSE /\ batch' = [batch EXCEPT ![n] = memory[n]]
            /\ memory' = [memory EXCEPT ![n] = Empty]
            /\ todo' = [todo EXCEPT ![n] = Written(n)]
    /\ UNCHANGED <<server, table, lock, counted, again, lost, late, aborted, failures>>

\* One INSERT ... ON CONFLICT DO UPDATE; the row stays locked to the commit.
Upsert(n, p) ==
    /\ Flushing(n) /\ p \in todo[n] /\ lock[p] = NoNode
    /\ lock' = [lock EXCEPT ![p] = n]
    /\ todo' = [todo EXCEPT ![n] = @ \ {p}]
    /\ UNCHANGED <<memory, batch, worker, server, table, counted, again, lost, late, aborted, failures>>

Unlocked(n) == [p \in Path |-> IF lock[p] = n THEN NoNode ELSE lock[p]]

Commit(n) ==
    /\ Flushing(n) /\ todo[n] = {}
    /\ table' = Plus(table, batch[n])
    /\ batch' = [batch EXCEPT ![n] = Empty]
    /\ lock' = Unlocked(n)
    /\ worker' = AfterFlush(n)
    /\ UNCHANGED <<memory, todo, server, counted, again, lost, late, aborted, failures>>

\* Mutants: a failed batch replaces what was counted meanwhile; it is dropped.
RestoreOver(n) == [memory EXCEPT ![n] = batch[n]]
RestoreNothing(n) == memory
\* vRestore
Restore(n) == [memory EXCEPT ![n] = Plus(@, batch[n])]

\* A transaction that was not seen to commit gives its batch back.
GiveBack(n) ==
    /\ memory' = Restore(n)
    /\ batch' = [batch EXCEPT ![n] = Empty]
    /\ todo' = [todo EXCEPT ![n] = {}]
    /\ lock' = Unlocked(n)
    /\ worker' = AfterFlush(n)
    /\ UNCHANGED <<server, counted, lost, late>>

\* The transaction fails, at the earliest when it begins and at the latest when
\* the answer to its commit is lost: then it has been applied all the same.
Fail(n, applied) ==
    /\ Flushing(n) /\ batch[n] # Empty /\ failures < MaxFailures
    /\ applied => todo[n] = {}
    /\ failures' = failures + 1
    /\ table' = IF applied THEN Plus(table, batch[n]) ELSE table
    /\ again' = IF applied THEN Plus(again, batch[n]) ELSE again
    /\ UNCHANGED aborted
    /\ GiveBack(n)

\* PostgreSQL ends a transaction of a circle of workers that wait for each other.
Deadlocked(n) ==
    /\ \E circle \in SUBSET Node :
         /\ n \in circle
         /\ \A m \in circle : /\ todo[m] # {}
                              /\ \A p \in todo[m] : lock[p] \in circle \ {m}
    /\ aborted' = (aborted \/ worker[n] = "last")
    /\ UNCHANGED <<table, again, failures>>
    /\ GiveBack(n)

-----------------------------------------------------------------------------
(* The process *)

\* SIGTERM: the listener closes, the workers are told.
Signal(n) ==
    /\ server[n] = "up"
    /\ server' = [server EXCEPT ![n] = "draining"]
    /\ UNCHANGED <<memory, batch, todo, worker, table, lock, counted, again, lost, late, aborted, failures>>

\* main waits for the worker, 15 seconds at most, when the requests have ended;
\* an aborted worker's transaction may have been committed or not.
Exit(n, applied) ==
    /\ server[n] = "draining"
    /\ applied => Flushing(n) /\ todo[n] = {}
    /\ aborted' = (aborted \/ worker[n] # "done")
    /\ server' = [server EXCEPT ![n] = "down"]
    /\ worker' = [worker EXCEPT ![n] = "dead"]
    /\ table' = IF applied THEN Plus(table, batch[n]) ELSE table
    /\ lost' = Plus(lost, Plus(memory[n], IF applied THEN Empty ELSE batch[n]))
    /\ memory' = [memory EXCEPT ![n] = Empty] /\ batch' = [batch EXCEPT ![n] = Empty]
    /\ todo' = [todo EXCEPT ![n] = {}]
    /\ lock' = Unlocked(n)
    /\ UNCHANGED <<counted, again, late, failures>>

Next ==
    \E n \in Node :
        \/ \E p \in Path : Count(n, p) \/ Upsert(n, p)
        \/ Take(n) \/ Commit(n) \/ Deadlocked(n) \/ Signal(n)
        \/ \E applied \in BOOLEAN : Fail(n, applied) \/ Exit(n, applied)

\* The worker's timer fires and its statements return; main ends a drained
\* process.  A row that is released goes to who waits for it, and a deadlock is
\* found out.
Fairness ==
    /\ \A n \in Node :
         /\ WF_vars(Take(n)) /\ WF_vars(Commit(n))
         /\ WF_vars(\E applied \in BOOLEAN : Exit(n, applied))
         /\ \A p \in Path : SF_vars(Upsert(n, p))
    /\ WF_vars(\E n \in Node : Deadlocked(n))
Spec == Init /\ [][Next]_vars
FairSpec == Spec /\ Fairness

-----------------------------------------------------------------------------
(* Properties *)

InMemory(p) == MapThenSumSet(LAMBDA n : memory[n][p] + batch[n][p], Node)

\* The type invariant; a row is locked only by a worker that is flushing it, and
\* a worker has a batch only while it flushes.
CountersTypeOK ==
    /\ memory \in [Node -> [Path -> Nat]] /\ batch \in [Node -> [Path -> Nat]]
    /\ table \in [Path -> Nat] /\ counted \in [Path -> Nat]
    /\ \A p \in Path : lock[p] # NoNode =>
          /\ lock[p] \in Node /\ Flushing(lock[p])
          /\ p \notin todo[lock[p]] /\ batch[lock[p]][p] > 0
    /\ \A n \in Node : batch[n] # Empty => Flushing(n)

\* "A failed transaction must not discard already acknowledged requests": every
\* count is in the table, in a map or in a batch, or it went down with its
\* process; and the table has too much only where a commit's answer was lost.
CountsAreConserved ==
    \A p \in Path : table[p] + InMemory(p) + lost[p] = counted[p] + again[p]

\* The shutdown loses only what was counted after the process had been told to
\* shut down, unless a flush failed or a worker was aborted.
OnlyLateCountsAreLost ==
    failures = 0 /\ ~aborted => \A p \in Path : lost[p] <= late[p]

\* Every count is accounted for, those the shutdown loses included.
CountsAreAccounted == CountersTypeOK /\ CountsAreConserved /\ OnlyLateCountsAreLost

\* Once no more requests come (MaxCounts of them), every count reaches the table,
\* deadlocks of the workers notwithstanding, unless a process is shut down.
CountsArePersisted ==
    (\E p \in Path : table[p] # counted[p] + again[p])
      ~> (\A p \in Path : table[p] = counted[p] + again[p]) \/ \E n \in Node : server[n] # "up"
=============================================================================
