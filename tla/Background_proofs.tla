-------------------------- MODULE Background_proofs --------------------------
(***************************************************************************)
(* What holds of the work in the background.  Of the crash reports, for    *)
(* any number of reporters and types, any capacity of the queue and any    *)
(* limit of messages it is not below; of the scheduler, for any tasks,     *)
(* delays, instants and length of the day; of the Telegram job, for any    *)
(* number of nodes, topics and messages; of the userpics, for any number   *)
(* of users and files; of the counters of advertisements, for any number   *)
(* of processes, paths and failures.                                       *)
(***************************************************************************)
EXTENDS Process, Jobs, Integers, SequenceTheorems, FiniteSetTheorems,
        WellFoundedInduction, TLAPS

-----------------------------------------------------------------------------
(* The crash reports *)

LEMMA NewWindow_Type ==
    NewWindow \in Window
<1>1. {} \in SUBSET Type
  OBVIOUS
<1> QED BY <1>1 DEF NewWindow, Window

LEMMA Report_Type ==
    ASSUME TypeOK, NEW r \in Reporter, NEW type \in Type, Report(r, type)
    PROVE  TypeOK'
<1>1. CASE Len(queue) < Capacity
  <2>1. Append(queue, type) \in Seq(Type) /\ Len(Append(queue, type)) = Len(queue) + 1
    BY AppendProperties DEF TypeOK
  <2>2. Len(queue) \in Nat
    BY DEF TypeOK
  <2> QED BY <1>1, <2>1, <2>2, LimitAssumption DEF TypeOK, Report
<1>2. CASE ~(Len(queue) < Capacity)
  BY <1>2 DEF TypeOK, Report
<1> QED BY <1>1, <1>2

LEMMA Receive_Type ==
    ASSUME TypeOK, Receive
    PROVE  TypeOK'
<1>1. queue \in Seq(Type) /\ queue # <<>>
  BY DEF TypeOK, Receive
<1>2. Head(queue) \in Type /\ Tail(queue) \in Seq(Type) /\ Len(Tail(queue)) = Len(queue) - 1
  BY <1>1, HeadTailProperties
<1>3. Len(queue) \in Nat
  BY <1>1
<1>4. queue' \in Seq(Type) /\ Len(queue') <= Capacity
  BY <1>2, <1>3, LimitAssumption DEF TypeOK, Receive
<1>5. /\ rate' \in Window
      /\ rate'.count = rate.count + 1 /\ rate'.dropped = rate.dropped
  <2>1. rate' = CountReport(Head(queue))
    BY DEF Receive
  <2>2. rate.count \in Nat /\ rate.dropped \in Nat /\ rate.types \in SUBSET Type
    BY DEF TypeOK, Window
  <2>3. rate.types \cup {Head(queue)} \in SUBSET Type /\ rate.count + 1 \in Nat
    BY <1>2, <2>2
  <2> QED BY <2>1, <2>2, <2>3 DEF CountReport, Window
<1>6. skipped' \subseteq Type /\ actor' \in {"mail", "top"}
  BY <1>2 DEF TypeOK, Receive
<1>7. rate'.dropped <= rate'.count /\ (rate'.types # {} => rate'.count > rate'.dropped)
  <2>1. rate.count \in Nat /\ rate.dropped \in Nat /\ rate.dropped <= rate.count
    BY DEF TypeOK, Window
  <2> QED BY <1>5, <2>1
<1> QED BY <1>4, <1>5, <1>6, <1>7 DEF TypeOK, Receive

LEMMA WithDropped_Type ==
    ASSUME TypeOK
    PROVE  /\ WithDropped \in Window
           /\ WithDropped.count = rate.count + pending
           /\ WithDropped.dropped = rate.dropped + pending
           /\ WithDropped.types = rate.types
  BY DEF TypeOK, WithDropped, Window

LEMMA Actor_Type ==
    ASSUME TypeOK, Top \/ Fold \/ Mailed \/ TickReady \/ Tick
    PROVE  TypeOK'
<1>1. CASE Top
  BY <1>1 DEF TypeOK, Top
<1>2. CASE Fold
  <2>1. rate' \in Window /\ pending' = 0
    BY <1>2, WithDropped_Type DEF Fold
  <2>2. rate'.dropped <= rate'.count /\ (rate'.types # {} => rate'.count > rate'.dropped)
    <3>1. rate.count \in Nat /\ rate.dropped \in Nat /\ pending \in Nat
      BY DEF TypeOK, Window
    <3> QED BY <1>2, <3>1, WithDropped_Type DEF Fold, TypeOK
  <2> QED BY <1>2, <2>1, <2>2 DEF TypeOK, Fold
<1>3. CASE Mailed
  BY <1>3 DEF TypeOK, Mailed
<1>4. CASE TickReady
  BY <1>4 DEF TypeOK, TickReady
<1>5. CASE Tick
  <2>1. refused' \in [Reporter -> {"none", "now", "earlier"}]
    BY <1>5 DEF TypeOK, Tick
  <2>2. rate' \in Window
    BY <1>5, NewWindow_Type DEF Tick
  <2>3. rate'.dropped = 0 /\ rate'.count = 0 /\ rate'.types = {}
    BY <1>5 DEF Tick, NewWindow
  <2>4. /\ UNCHANGED <<queue, made>> /\ pending' = 0 /\ stale' = FALSE
        /\ actor' \in {"mail", "top"}
    BY <1>5 DEF Tick
  <2>5. skipped' \subseteq Type
    BY <1>5 DEF Tick, TypeOK
  <2>6. rate'.dropped <= rate'.count /\ (rate'.types # {} => rate'.count > rate'.dropped)
    BY <2>3
  <2> QED BY <2>1, <2>2, <2>4, <2>5, <2>6 DEF TypeOK
<1> QED BY <1>1, <1>2, <1>3, <1>4, <1>5

\* Every state of the reporter is well formed: the queue never holds more than
\* its capacity, and a window counts its drops among its reports
\* (exception_reporting.rs:79-205).
THEOREM TypeCorrect == Spec => []TypeOK
<1>1. Init => TypeOK
  <2> SUFFICES ASSUME Init PROVE TypeOK
    OBVIOUS
  <2>1. rate \in Window
    BY NewWindow_Type DEF Init
  <2>2. rate.dropped = 0 /\ rate.count = 0 /\ rate.types = {}
    BY DEF Init, NewWindow
  <2>3. queue \in Seq(Type) /\ Len(queue) = 0
    BY DEF Init
  <2>4. rate.dropped <= rate.count /\ (rate.types # {} => rate.count > rate.dropped)
    BY <2>2
  <2>5. Len(queue) <= Capacity
    BY <2>3, LimitAssumption
  <2> QED BY <2>1, <2>3, <2>4, <2>5 DEF Init, TypeOK
<1>2. TypeOK /\ [Next]_vars => TypeOK'
  <2> SUFFICES ASSUME TypeOK, [Next]_vars PROVE TypeOK'
    OBVIOUS
  <2>1. ASSUME NEW r \in Reporter, CountRefused(r) PROVE TypeOK'
    BY <2>1 DEF TypeOK, CountRefused
  <2>2. CASE UNCHANGED vars
    BY <2>2 DEF TypeOK, vars
  <2> QED BY <2>1, <2>2, Report_Type, Receive_Type, Actor_Type DEF Next
<1> QED BY <1>1, <1>2, PTL DEF Spec

-----------------------------------------------------------------------------

\* A drop of this window that is not stale: refused and not yet counted, waiting
\* to be folded, or folded.
DroppedNow ==
    \/ \E r \in Reporter : refused[r] = "now"
    \/ pending + rate.dropped > 0 /\ ~stale

\* The strengthening: the reports the queue held when it refused one are counted
\* in the window or still in the queue.
WindowInv == DroppedNow => rate.count - rate.dropped + Len(queue) >= MaxMessages

LEMMA Report_Window ==
    ASSUME TypeOK, WindowInv, NEW r \in Reporter, NEW type \in Type, Report(r, type)
    PROVE  WindowInv'
<1>1. UNCHANGED <<pending, rate, stale>> /\ Len(queue) \in Nat
  BY DEF Report, TypeOK, Window
<1>2. CASE Len(queue) < Capacity
  <2>1. Len(queue') = Len(queue) + 1 /\ UNCHANGED refused
    BY <1>2, AppendProperties DEF Report, TypeOK, Window
  <2> QED BY <1>1, <2>1, LimitAssumption DEF WindowInv, DroppedNow, TypeOK, Window
<1>3. CASE ~(Len(queue) < Capacity)
  <2>1. UNCHANGED queue /\ Len(queue) >= MaxMessages
    BY <1>1, <1>3, LimitAssumption DEF Report
  <2>2. rate.count - rate.dropped >= 0 /\ rate.count - rate.dropped \in Int
    BY DEF TypeOK, Window
  <2> QED BY <1>1, <2>1, <2>2, LimitAssumption DEF WindowInv
<1> QED BY <1>2, <1>3

LEMMA CountRefused_Window ==
    ASSUME TypeOK, WindowInv, NEW r \in Reporter, CountRefused(r)
    PROVE  WindowInv'
<1>1. UNCHANGED <<queue, rate>>
  BY DEF CountRefused
<1>2. DroppedNow' => DroppedNow
  <2> SUFFICES ASSUME DroppedNow' PROVE DroppedNow
    OBVIOUS
  <2>1. CASE \E q \in Reporter : refused'[q] = "now"
    BY <2>1 DEF CountRefused, DroppedNow, TypeOK, Window
  <2>2. CASE ~stale'
    BY <2>2 DEF CountRefused, DroppedNow, TypeOK, Window
  <2> QED BY <2>1, <2>2 DEF DroppedNow
<1> QED BY <1>1, <1>2 DEF WindowInv

LEMMA Receive_Window ==
    ASSUME TypeOK, WindowInv, Receive
    PROVE  WindowInv'
<1>1. queue \in Seq(Type) /\ queue # <<>> /\ Len(queue) \in Nat
  BY DEF TypeOK, Receive
<1>2. Len(queue') = Len(queue) - 1
  BY <1>1, HeadTailProperties DEF Receive
<1>3. /\ rate'.count = rate.count + 1 /\ rate'.dropped = rate.dropped
      /\ UNCHANGED <<refused, pending, stale>>
  BY DEF Receive, CountReport, TypeOK, Window
<1> QED BY <1>1, <1>2, <1>3, LimitAssumption DEF WindowInv, DroppedNow, TypeOK, Window

LEMMA Fold_Window ==
    ASSUME TypeOK, WindowInv, Fold
    PROVE  WindowInv'
<1>1. UNCHANGED <<queue, refused, stale>> /\ pending' = 0
  BY DEF Fold
<1>2. rate'.count = rate.count + pending /\ rate'.dropped = rate.dropped + pending
  BY WithDropped_Type DEF Fold
<1>3. pending' + rate'.dropped = pending + rate.dropped
  BY <1>1, <1>2 DEF TypeOK, Window
<1>4. rate'.count - rate'.dropped = rate.count - rate.dropped
  BY <1>2 DEF TypeOK, Window
<1> QED BY <1>1, <1>3, <1>4 DEF WindowInv, DroppedNow

LEMMA Tick_Window ==
    ASSUME TypeOK, WindowInv, Tick
    PROVE  WindowInv'
<1>1. pending' = 0 /\ rate'.dropped = 0
  BY DEF Tick, NewWindow
<1>2. \A r \in Reporter : refused'[r] # "now"
  BY DEF Tick, TypeOK, Window
<1> QED BY <1>1, <1>2 DEF WindowInv, DroppedNow

LEMMA WindowCorrect == Spec => [](TypeOK /\ WindowInv)
<1>1. Init => WindowInv
  BY DEF Init, WindowInv, DroppedNow, NewWindow
<1>2. TypeOK /\ WindowInv /\ [Next]_vars => WindowInv'
  <2> SUFFICES ASSUME TypeOK, WindowInv, [Next]_vars PROVE WindowInv'
    OBVIOUS
  <2>1. CASE Top \/ Mailed \/ TickReady \/ UNCHANGED vars
    <3>1. UNCHANGED <<queue, refused, pending, rate, stale>>
      BY <2>1 DEF Top, Mailed, TickReady, vars
    <3> QED BY <3>1 DEF WindowInv, DroppedNow
  <2> QED BY <2>1, Report_Window, CountRefused_Window, Receive_Window, Fold_Window,
             Tick_Window DEF Next
<1> QED BY <1>1, <1>2, TypeCorrect, PTL DEF Spec

\* A window that ends with drops of its own is summed up: the queue was full, so
\* the window has counted at least as many reports as the limit allows to be
\* mailed (exception_reporting.rs:139-157, 177-203).
THEOREM DropsAreReported == Spec => DropsAreSummarized
<1>1. ASSUME TypeOK, WindowInv, Tick, WithDropped.dropped > 0, ~stale, queue = <<>>
      PROVE  WithDropped.count >= MaxMessages /\ actor' = "mail"
  <2>1. DroppedNow
    BY <1>1, WithDropped_Type DEF DroppedNow, TypeOK, Window
  <2>2. rate.count - rate.dropped >= MaxMessages
    <3>1. rate.count - rate.dropped + Len(queue) >= MaxMessages
      BY <1>1, <2>1 DEF WindowInv
    <3>2. Len(queue) = 0 /\ rate.count - rate.dropped \in Int
      BY <1>1 DEF TypeOK, Window
    <3> QED BY <3>1, <3>2, LimitAssumption
  <2>3. WithDropped.count >= MaxMessages
    BY <1>1, <2>2, WithDropped_Type, LimitAssumption DEF TypeOK, Window
  <2> QED BY <1>1, <2>3 DEF Tick, Excessive
<1>2. TypeOK /\ WindowInv =>
        (Tick /\ WithDropped.dropped > 0 /\ ~stale /\ queue = <<>>
           => WithDropped.count >= MaxMessages /\ actor' = "mail")
  BY <1>1
<1> QED BY <1>2, WindowCorrect, PTL DEF DropsAreSummarized
-----------------------------------------------------------------------------
(* The scheduler *)

\* What each cron task has to its credit: the instant it has slept until.
CronSound ==
    /\ credit \in [Cron -> Nat]
    /\ \A j \in Cron :
         /\ phase[j] = "sleep" /\ left[j] = 0 => credit[j] >= 1
         /\ phase[j] = "sleep" /\ left[j] > 0 =>
              left[j] <= Day /\ (clock + left[j]) % Day \in Instants[j]
         /\ phase[j] = "gate" => credit[j] >= 1

ScheduleInv == S!SchedulerTypeOK /\ gate \in Seq(S!Job) /\ CronSound

LEMMA NaturalMinimum ==
    ASSUME NEW Q \in SUBSET Nat, Q # {}
    PROVE  \E x \in Q : \A y \in Q : x <= y
<1>1. PICK x \in Q : \A y \in Q : ~(<<y, x>> \in OpToRel(<, Nat))
  BY WFMin, NatLessThanWellFounded
<1>2. \A y \in Q : ~(y < x)
  BY <1>1 DEF OpToRel
<1> QED
  BY <1>2

LEMMA ModOfDay ==
    ASSUME NEW d \in Nat \ {0}, NEW x \in Nat
    PROVE  /\ x < d => x % d = x
           /\ d <= x /\ x < 2 * d => x % d = x - d
           /\ x % d \in 0..d-1
  OBVIOUS

LEMMA InstantComes ==
    ASSUME S!SchedulerConstants, NEW j \in Cron, NEW now \in 0..Day-1
    PROVE  /\ S!UntilNext(j, now) \in 1..Day
           /\ (now + S!UntilNext(j, now)) % Day \in Instants[j]
<1> DEFINE Q == {d \in 1..Day : (now + d) % Day \in Instants[j]}
<1>0. Day \in Nat \ {0} /\ Instants[j] # {} /\ Instants[j] \subseteq 0..Day-1
  BY DEF S!SchedulerConstants
<1>1. Q # {}
  <2>1. PICK i \in Instants[j] : TRUE
    BY <1>0
  <2>2. CASE i > now
    <3>1. i \in Nat /\ i < Day /\ i - now \in 1..Day /\ now + (i - now) = i
      BY <1>0, <2>1, <2>2
    <3>2. i % Day = i
      BY <1>0, <3>1, ModOfDay
    <3> QED
      BY <2>1, <3>1, <3>2
  <2>3. CASE i <= now
    <3>1. i - now + Day \in 1..Day /\ now + (i - now + Day) = i + Day
      BY <1>0, <2>1, <2>3
    <3>2. (i + Day) % Day = i
      <4>1. i + Day \in Nat /\ Day <= i + Day /\ i + Day < 2 * Day /\ (i + Day) - Day = i
        BY <1>0, <2>1
      <4> QED
        BY <1>0, <4>1, ModOfDay
    <3> QED
      BY <2>1, <3>1, <3>2
  <2> QED
    BY <1>0, <2>1, <2>2, <2>3
<1>2. PICK d \in Q : \A e \in Q : d <= e
  <2>1. Q \in SUBSET Nat
    BY <1>0
  <2> HIDE DEF Q
  <2> QED
    BY <1>1, <2>1, NaturalMinimum
<1>3. \A e \in 1..(d-1) : (now + e) % Day \notin Instants[j]
  <2> SUFFICES ASSUME NEW e \in 1..(d-1), (now + e) % Day \in Instants[j] PROVE FALSE
    OBVIOUS
  <2>1. e \in Q /\ e < d
    BY <1>0, <1>2
  <2> QED
    BY <1>0, <1>2, <2>1
<1>4. d \in 1..Day /\ (now + d) % Day \in Instants[j]
  BY <1>2
<1> HIDE DEF Q
<1> QED
  BY <1>3, <1>4 DEF S!UntilNext
\* A job that goes to sleep has an instant ahead of it.
LEMMA SleepsToAnInstant ==
    ASSUME S!SchedulerConstants, NEW j \in Cron, NEW n \in Nat, n = S!Sleep(j), clock \in 0..Day-1
    PROVE  n > 0 /\ n <= Day /\ (clock + n) % Day \in Instants[j]
<1>1. j \notin Fixed
  BY DEF S!SchedulerConstants
<1>2. n = S!UntilNext(j, clock)
  BY <1>1 DEF S!Sleep
<1> QED
  BY <1>2, InstantComes DEF S!SchedulerConstants

LEMMA SleepIsNat ==
    ASSUME S!SchedulerConstants, NEW j \in S!Job, clock \in 0..Day-1
    PROVE  S!Sleep(j) \in Nat
<1>1. CASE j \in Fixed
  BY <1>1 DEF S!Sleep, S!SchedulerConstants
<1>2. CASE j \in Cron
  <2>1. S!UntilNext(j, clock) \in Nat /\ j \notin Fixed
    BY <1>2, InstantComes DEF S!SchedulerConstants
  <2> QED
    BY <2>1 DEF S!Sleep
<1> QED
  BY <1>1, <1>2 DEF S!Job

LEMMA InitSchedule == ASSUME S!SchedulerConstants, S!Init PROVE ScheduleInv
<1>1. /\ clock \in 0..Day-1 /\ phase = [j \in S!Job |-> "sleep"] /\ gate = <<>>
      /\ shutdown = FALSE /\ credit = [j \in Cron |-> 0]
      /\ left \in [S!Job -> 0..Day] /\ \A j \in Cron : left[j] = S!Sleep(j)
  BY DEF S!Init
<1>2. S!SchedulerTypeOK
  <2>1. left \in [S!Job -> Nat]
    BY <1>1 DEF S!SchedulerConstants
  <2>2. S!IsInjective(gate) /\ S!ToSet(gate) = {}
    BY <1>1 DEF S!IsInjective, S!ToSet
  <2> QED
    BY <1>1, <2>1, <2>2 DEF S!SchedulerTypeOK
<1>3. ASSUME NEW j \in Cron PROVE left[j] > 0 /\ left[j] <= Day /\ (clock + left[j]) % Day \in Instants[j]
  <2>1. left[j] \in Nat /\ left[j] = S!Sleep(j)
    BY <1>1, <1>2 DEF S!SchedulerTypeOK, S!Job
  <2> QED
    BY <1>1, <2>1, SleepsToAnInstant
<1>4. CronSound
  <2>1. \A j \in Cron : left[j] \in Nat /\ phase[j] = "sleep"
    BY <1>1, <1>2 DEF S!SchedulerTypeOK, S!Job
  <2> QED
    BY <1>1, <1>3, <2>1 DEF CronSound
<1>5. gate \in Seq(S!Job)
  BY <1>1, EmptySeq
<1> QED
  BY <1>2, <1>4, <1>5 DEF ScheduleInv

\* The clock goes on: of a sleep a tick is gone, and an instant may have come.
LEMMA TickSchedule == ASSUME S!SchedulerConstants, ScheduleInv, S!Tick PROVE ScheduleInv'
<1> DEFINE next == (clock + 1) % Day
           more(j) == IF next \in Instants[j] /\ credit[j] < S!MaxCredit THEN 1 ELSE 0
<1>0. Day \in Nat \ {0} /\ clock \in 0..Day-1
  BY DEF S!SchedulerConstants, ScheduleInv, S!SchedulerTypeOK
<1>1. /\ clock' = next
      /\ left' = [j \in S!Job |-> IF left[j] = 0 THEN 0 ELSE left[j] - 1]
      /\ credit' = [j \in Cron |-> credit[j] + more(j)]
      /\ UNCHANGED <<phase, gate, shutdown>>
  BY DEF S!Tick
<1>2. next \in 0..Day-1
  BY <1>0, ModOfDay
<1>3. \A j \in S!Job : left[j] \in Nat
  BY DEF ScheduleInv, S!SchedulerTypeOK
<1>4. \A j \in Cron : j \in S!Job /\ credit[j] \in Nat /\ left[j] \in Nat
  BY <1>3 DEF S!Job, ScheduleInv, CronSound
<1>5. \A j \in Cron : credit'[j] \in Nat /\ credit'[j] >= credit[j]
      /\ (next \in Instants[j] => credit'[j] >= 1)
  <2> SUFFICES ASSUME NEW j \in Cron
               PROVE  credit'[j] \in Nat /\ credit'[j] >= credit[j]
                      /\ (next \in Instants[j] => credit'[j] >= 1)
    OBVIOUS
  <2>1. credit'[j] = credit[j] + more(j) /\ more(j) \in {0, 1} /\ credit[j] \in Nat
    BY <1>1, <1>4
  <2>2. next \in Instants[j] => more(j) = 1 \/ ~(credit[j] < 2)
    BY DEF S!MaxCredit
  <2> HIDE DEF more, next
  <2> QED
    BY <2>1, <2>2
<1>6. ASSUME NEW j \in Cron, phase[j] = "sleep", left[j] > 0
      PROVE  /\ left'[j] = 0 => next \in Instants[j]
             /\ left'[j] > 0 => left'[j] <= Day /\ (next + left'[j]) % Day \in Instants[j]
  <2>1. /\ left[j] \in Nat /\ left'[j] = left[j] - 1 /\ left[j] <= Day
        /\ (clock + left[j]) % Day \in Instants[j]
    BY <1>1, <1>4, <1>6 DEF ScheduleInv, CronSound
  <2>2. CASE left[j] = 1
    BY <2>1, <2>2
  <2>3. CASE left[j] > 1
    <3>1. (next + left'[j]) % Day = (clock + left[j]) % Day
      <4> DEFINE k == left[j]
      <4>1. k \in Nat /\ k <= Day /\ k > 1 /\ left'[j] = k - 1
        BY <2>1, <2>3
      <4> HIDE DEF k, next
      <4>2. CASE clock + 1 < Day
        <5>1. next = clock + 1
          <6>1. clock + 1 \in Nat
            BY <1>0
          <6> QED
            BY <1>0, <4>2, <6>1, ModOfDay DEF next
        <5>2. next + left'[j] = clock + k
          BY <1>0, <4>1, <5>1
        <5> QED
          BY <5>2 DEF k
      <4>3. CASE clock + 1 = Day
        <5>1. next = 0
          <6>1. clock + 1 \in Nat /\ Day <= clock + 1 /\ clock + 1 < 2 * Day /\ (clock + 1) - Day = 0
            BY <1>0, <4>3
          <6> QED
            BY <1>0, <6>1, ModOfDay DEF next
        <5>2. clock + k \in Nat /\ Day <= clock + k /\ clock + k < 2 * Day
              /\ (clock + k) - Day = k - 1 /\ k - 1 \in Nat /\ k - 1 < Day
          BY <1>0, <4>1, <4>3
        <5>3. (clock + k) % Day = k - 1 /\ (k - 1) % Day = k - 1
          BY <1>0, <5>2, ModOfDay
        <5>4. next + left'[j] = k - 1
          BY <4>1, <5>1
        <5> QED
          BY <5>3, <5>4 DEF k
      <4> QED
        BY <1>0, <4>2, <4>3
    <3>2. left'[j] > 0 /\ left'[j] <= Day
      BY <1>0, <2>1, <2>3
    <3>3. (next + left'[j]) % Day \in Instants[j]
      BY <2>1, <3>1, Zenon
    <3> HIDE DEF next
    <3> QED
      BY <3>2, <3>3
  <2>4. left[j] = 1 \/ left[j] > 1
    BY <1>6, <2>1
  <2> QED
    BY <2>2, <2>3, <2>4, Zenon
<1>7. CronSound'
  <2> SUFFICES /\ credit' \in [Cron -> Nat]
               /\ \A j \in Cron :
                    /\ phase[j] = "sleep" /\ left'[j] = 0 => credit'[j] >= 1
                    /\ phase[j] = "sleep" /\ left'[j] > 0 =>
                         left'[j] <= Day /\ (next + left'[j]) % Day \in Instants[j]
                    /\ phase[j] = "gate" => credit'[j] >= 1
    BY <1>1 DEF CronSound
  <2>1. credit' \in [Cron -> Nat]
    <3>1. credit' = [j \in Cron |-> credit'[j]]
      BY <1>1
    <3> QED
      BY <1>5, <3>1
  <2> SUFFICES ASSUME NEW j \in Cron
               PROVE  /\ phase[j] = "sleep" /\ left'[j] = 0 => credit'[j] >= 1
                      /\ phase[j] = "sleep" /\ left'[j] > 0 =>
                           left'[j] <= Day /\ (next + left'[j]) % Day \in Instants[j]
                      /\ phase[j] = "gate" => credit'[j] >= 1
    BY <2>1
  <2>2. /\ phase[j] = "sleep" /\ left[j] = 0 => credit[j] >= 1
        /\ phase[j] = "gate" => credit[j] >= 1
    BY DEF ScheduleInv, CronSound
  <2>3. credit[j] \in Nat /\ credit'[j] \in Nat /\ credit'[j] >= credit[j]
        /\ (next \in Instants[j] => credit'[j] >= 1)
    BY <1>4, <1>5
  <2>4. left[j] \in Nat /\ (left[j] = 0 => left'[j] = 0)
    BY <1>1, <1>4
  <2> HIDE DEF next, more
  <2>5. CASE left[j] = 0
    BY <2>2, <2>3, <2>4, <2>5
  <2>6. CASE left[j] > 0
    BY <1>6, <2>2, <2>3, <2>6
  <2> QED
    BY <2>4, <2>5, <2>6
<1>8. S!SchedulerTypeOK'
  <2>1. left' \in [S!Job -> Nat]
    BY <1>1, <1>3
  <2> QED
    BY <1>1, <1>2, <2>1 DEF ScheduleInv, S!SchedulerTypeOK, S!IsInjective, S!ToSet
<1> QED
  BY <1>1, <1>7, <1>8 DEF ScheduleInv
\* Steps that move neither the clock nor the gate.
LEMMA RestSchedule ==
    ASSUME ScheduleInv, UNCHANGED <<clock, phase, left, gate, credit>>, shutdown' \in BOOLEAN
    PROVE  ScheduleInv'
  BY DEF ScheduleInv, CronSound, S!SchedulerTypeOK, S!IsInjective, S!ToSet

LEMMA GateIsSeq ==
    ASSUME NEW q \in Seq(S!Job), NEW j \in S!Job
    PROVE  /\ Append(q, j) \in Seq(S!Job)
           /\ S!ToSet(Append(q, j)) = S!ToSet(q) \cup {j}
           /\ S!IsInjective(q) /\ j \notin S!ToSet(q) => S!IsInjective(Append(q, j))
           /\ q # <<>> => Append(q, j)[1] = q[1]
<1>1. /\ Append(q, j) \in Seq(S!Job) /\ Len(q) \in Nat
      /\ DOMAIN Append(q, j) = 1..Len(q)+1 /\ DOMAIN q = 1..Len(q)
      /\ \A i \in 1..Len(q) : Append(q, j)[i] = q[i]
      /\ Append(q, j)[Len(q)+1] = j
  BY AppendProperties, LenProperties
<1>2. S!ToSet(Append(q, j)) = S!ToSet(q) \cup {j}
  BY <1>1 DEF S!ToSet
<1>3. ASSUME S!IsInjective(q), j \notin S!ToSet(q) PROVE S!IsInjective(Append(q, j))
  BY <1>1, <1>3 DEF S!IsInjective, S!ToSet
<1>4. q # <<>> => Append(q, j)[1] = q[1]
  <2>1. q # <<>> => Len(q) >= 1
    BY EmptySeq, <1>1
  <2> QED
    BY <1>1, <2>1
<1> QED
  BY <1>1, <1>2, <1>3, <1>4

LEMMA JoinedQueues ==
    ASSUME NEW a \in Seq(S!Job), NEW b \in Seq(S!Job)
    PROVE  /\ a \o b \in Seq(S!Job) /\ Len(a \o b) = Len(a) + Len(b)
           /\ \A k \in 1..Len(a) + Len(b) :
                (a \o b)[k] = IF k <= Len(a) THEN a[k] ELSE b[k - Len(a)]
  BY ConcatProperties

\* What is left when one leaves the queue.
LEMMA GateWithout ==
    ASSUME NEW q \in Seq(S!Job), S!IsInjective(q), NEW i \in DOMAIN q
    PROVE  /\ S!RemoveAt(q, i) \in Seq(S!Job)
           /\ S!IsInjective(S!RemoveAt(q, i))
           /\ S!ToSet(S!RemoveAt(q, i)) = S!ToSet(q) \ {q[i]}
           /\ i # 1 => S!RemoveAt(q, i)[1] = q[1]
<1> DEFINE n == Len(q)
           a == SubSeq(q, 1, i-1)
           b == SubSeq(q, i+1, n)
           r == a \o b
<1>1. n \in Nat /\ DOMAIN q = 1..n /\ i \in 1..n
  BY LenProperties
<1>2. /\ a \in Seq(S!Job) /\ Len(a) = i - 1
      /\ \A k \in 1..i-1 : a[k] = q[k]
  <2>1. 1 \in 1..n+1 /\ i-1 \in 0..n /\ (1 <= i-1 => (i-1) - 1 + 1 = i-1)
    BY <1>1
  <2> QED
    BY <1>1, <2>1, SubSeqProperties
<1>3. /\ b \in Seq(S!Job) /\ Len(b) = n - i
      /\ \A k \in 1..n-i : b[k] = q[i + k]
  <2>1. /\ i+1 \in 1..n+1 /\ n \in 0..n
    BY <1>1
  <2> QED
    BY <1>1, <2>1, SubSeqProperties
<1>4. /\ r \in Seq(S!Job) /\ DOMAIN r = 1..n-1
      /\ \A k \in 1..n-1 : r[k] = IF k < i THEN q[k] ELSE q[k+1]
  <2> HIDE DEF a, b
  <2>0. /\ r \in Seq(S!Job) /\ Len(r) = Len(a) + Len(b)
        /\ \A k \in 1..Len(a) + Len(b) : r[k] = IF k <= Len(a) THEN a[k] ELSE b[k - Len(a)]
    BY <1>2, <1>3, JoinedQueues
  <2> HIDE DEF r
  <2>1. r \in Seq(S!Job) /\ Len(r) = n - 1
    BY <1>1, <1>2, <1>3, <2>0
  <2>2. ASSUME NEW k \in 1..n-1 PROVE r[k] = IF k < i THEN q[k] ELSE q[k+1]
    <3>1. CASE k < i
      <4>1. k \in 1..i-1 /\ k \in 1..Len(a) + Len(b) /\ k <= Len(a)
        BY <1>1, <1>2, <1>3, <3>1
      <4> QED
        BY <1>2, <2>0, <3>1, <4>1
    <3>2. CASE ~(k < i)
      <4>1. k \in 1..Len(a) + Len(b) /\ ~(k <= Len(a)) /\ k - Len(a) \in 1..n-i
            /\ i + (k - Len(a)) = k + 1
        BY <1>1, <1>2, <1>3, <3>2
      <4> QED
        BY <1>3, <2>0, <3>2, <4>1
    <3> QED
      BY <3>1, <3>2
  <2> QED
    BY <1>1, <2>1, <2>2, LenProperties
<1>5. r = S!RemoveAt(q, i)
  BY DEF S!RemoveAt
<1> HIDE DEF r, a, b, n
<1>6. S!IsInjective(r)
  <2> SUFFICES ASSUME NEW k \in 1..n-1, NEW l \in 1..n-1, r[k] = r[l] PROVE k = l
    BY <1>4 DEF S!IsInjective
  <2> DEFINE u(k_1) == IF k_1 < i THEN k_1 ELSE k_1 + 1
  <2>1. u(k) \in 1..n /\ u(l) \in 1..n /\ r[k] = q[u(k)] /\ r[l] = q[u(l)]
    BY <1>1, <1>4
  <2>2. u(k) = u(l)
    BY <1>1, <2>1 DEF S!IsInjective
  <2> QED
    BY <1>1, <2>2
<1>7. S!ToSet(r) = S!ToSet(q) \ {q[i]}
  <2>1. \A k \in 1..n-1 : r[k] \in S!ToSet(q) \ {q[i]}
    <3> SUFFICES ASSUME NEW k \in 1..n-1 PROVE r[k] \in S!ToSet(q) \ {q[i]}
      OBVIOUS
    <3>1. CASE k < i
      BY <1>1, <1>4, <3>1 DEF S!ToSet, S!IsInjective
    <3>2. CASE ~(k < i)
      <4>1. k + 1 \in 1..n /\ k + 1 # i /\ r[k] = q[k+1]
        BY <1>1, <1>4, <3>2
      <4> QED
        BY <1>1, <4>1 DEF S!ToSet, S!IsInjective
    <3> QED
      BY <3>1, <3>2
  <2>2. \A k \in 1..n : k # i => q[k] \in S!ToSet(r)
    <3> SUFFICES ASSUME NEW k \in 1..n, k # i PROVE \E l \in 1..n-1 : r[l] = q[k]
      BY <1>4 DEF S!ToSet
    <3>1. CASE k < i
      <4>1. k \in 1..n-1
        BY <1>1, <3>1
      <4> QED
        BY <1>4, <3>1, <4>1
    <3>2. CASE ~(k < i)
      <4>1. k - 1 \in 1..n-1 /\ ~(k - 1 < i) /\ (k - 1) + 1 = k
        BY <1>1, <3>2
      <4> QED
        BY <1>4, <4>1
    <3> QED
      BY <3>1, <3>2
  <2> QED
    BY <1>1, <1>4, <2>1, <2>2 DEF S!ToSet
<1>8. i # 1 => r[1] = q[1]
  <2>1. i # 1 => 1 \in 1..n-1 /\ 1 < i
    BY <1>1
  <2> QED
    BY <1>4, <2>1
<1> QED
  BY <1>4, <1>5, <1>6, <1>7, <1>8
LEMMA FirstLeaves ==
    ASSUME NEW q \in Seq(S!Job), S!IsInjective(q), q # <<>>
    PROVE  /\ Tail(q) \in Seq(S!Job) /\ S!IsInjective(Tail(q))
           /\ S!ToSet(Tail(q)) = S!ToSet(q) \ {q[1]}
           /\ Tail(q) = S!RemoveAt(q, 1)
<1>1. Len(q) \in Nat /\ DOMAIN q = 1..Len(q) /\ 1 \in DOMAIN q
  BY LenProperties, EmptySeq
<1>2. Tail(q) = S!RemoveAt(q, 1)
  <2>1. SubSeq(q, 1, 1-1) = <<>>
    BY SubSeqEmpty
  <2>2. SubSeq(q, 1+1, Len(q)) = Tail(q) /\ Tail(q) \in Seq(S!Job)
    BY TailIsSubSeq, HeadTailProperties
  <2>3. <<>> \o Tail(q) = Tail(q)
    BY <2>2, ConcatEmptySeq
  <2> QED
    BY <2>1, <2>2, <2>3 DEF S!RemoveAt
<1> QED
  BY <1>1, <1>2, GateWithout

LEMMA ScheduleFacts ==
    ASSUME ScheduleInv
    PROVE  /\ clock \in 0..Day-1 /\ shutdown \in BOOLEAN
           /\ phase \in [S!Job -> {"sleep", "gate", "run", "ended"}]
           /\ left \in [S!Job -> Nat] /\ gate \in Seq(S!Job)
           /\ S!IsInjective(gate) /\ S!ToSet(gate) = {j \in S!Job : phase[j] \in {"gate", "run"}}
           /\ \A j \in S!Job : phase[j] = "run" => gate[1] = j
           /\ credit \in [Cron -> Nat] /\ \A j \in Cron : j \in S!Job
  BY DEF ScheduleInv, S!SchedulerTypeOK, CronSound, S!Job

LEMMA WakeSchedule ==
    ASSUME ScheduleInv, NEW j \in S!Job, S!Wake(j)
    PROVE  ScheduleInv'
<1>1. /\ phase[j] = "sleep" /\ left[j] = 0
      /\ phase' = [phase EXCEPT ![j] = "gate"] /\ gate' = Append(gate, j)
      /\ UNCHANGED <<clock, left, shutdown, credit>>
  BY DEF S!Wake
<1>2. j \notin S!ToSet(gate)
  BY <1>1, ScheduleFacts
<1>3. /\ gate' \in Seq(S!Job) /\ S!ToSet(gate)' = S!ToSet(gate) \cup {j}
      /\ S!IsInjective(gate)' /\ (gate # <<>> => gate'[1] = gate[1])
  <2>1. S!IsInjective(Append(gate, j)) /\ S!ToSet(Append(gate, j)) = S!ToSet(gate) \cup {j}
        /\ Append(gate, j) \in Seq(S!Job) /\ (gate # <<>> => Append(gate, j)[1] = gate[1])
    BY <1>2, ScheduleFacts, GateIsSeq
  <2> QED
    BY <1>1, <2>1 DEF S!IsInjective, S!ToSet
<1>4. ASSUME NEW k \in S!Job, phase'[k] = "run" PROVE gate'[1] = k
  <2>1. phase[k] = "run" /\ k \in S!ToSet(gate)
    BY <1>1, <1>4, ScheduleFacts
  <2>2. gate # <<>>
    BY <2>1, EmptySeq DEF S!ToSet
  <2> QED
    BY <1>3, <2>1, <2>2, ScheduleFacts
<1>5. S!SchedulerTypeOK'
  <2>1. phase' \in [S!Job -> {"sleep", "gate", "run", "ended"}]
    BY <1>1, ScheduleFacts
  <2>2. S!ToSet(gate)' = {k \in S!Job : phase'[k] \in {"gate", "run"}}
    BY <1>1, <1>3, ScheduleFacts
  <2> QED
    BY <1>1, <1>3, <1>4, <2>1, <2>2, ScheduleFacts DEF S!SchedulerTypeOK
<1>6. CronSound'
  BY <1>1, ScheduleFacts DEF ScheduleInv, CronSound
<1> QED
  BY <1>3, <1>5, <1>6 DEF ScheduleInv

LEMMA RunSchedule ==
    ASSUME ScheduleInv, NEW j \in S!Job, S!Run(j)
    PROVE  ScheduleInv'
<1>1. /\ phase[j] = "gate" /\ gate[1] = j
      /\ phase' = [phase EXCEPT ![j] = "run"]
      /\ credit' = IF j \in Cron THEN [credit EXCEPT ![j] = @ - 1] ELSE credit
      /\ UNCHANGED <<clock, left, gate, shutdown>>
  BY DEF S!Run
<1>2. S!SchedulerTypeOK'
  <2>1. phase' \in [S!Job -> {"sleep", "gate", "run", "ended"}]
    BY <1>1, ScheduleFacts
  <2>2. {k \in S!Job : phase'[k] \in {"gate", "run"}} = {k \in S!Job : phase[k] \in {"gate", "run"}}
    BY <1>1, ScheduleFacts
  <2>3. \A k \in S!Job : phase'[k] = "run" => gate[1] = k
    BY <1>1, ScheduleFacts
  <2>4. S!IsInjective(gate)' /\ S!ToSet(gate)' = S!ToSet(gate)
    BY <1>1, ScheduleFacts DEF S!IsInjective, S!ToSet
  <2> QED
    BY <1>1, <2>1, <2>2, <2>3, <2>4, ScheduleFacts DEF S!SchedulerTypeOK
<1>3. CronSound'
  <2>1. CASE j \in Cron
    <3>1. credit[j] \in Nat /\ credit[j] >= 1
      BY <1>1, <2>1, ScheduleFacts DEF ScheduleInv, CronSound
    <3>2. credit' \in [Cron -> Nat] /\ \A k \in Cron \ {j} : credit'[k] = credit[k]
      BY <1>1, <2>1, <3>1, ScheduleFacts
    <3> QED
      BY <1>1, <2>1, <3>2, ScheduleFacts DEF ScheduleInv, CronSound
  <2>2. CASE j \notin Cron
    BY <1>1, <2>2, ScheduleFacts DEF ScheduleInv, CronSound
  <2> QED
    BY <2>1, <2>2
<1> QED
  BY <1>1, <1>2, <1>3 DEF ScheduleInv

\* A job leaves the gate: whoever runs then stands first, if not the job itself.
LEMMA LeavesGate ==
    ASSUME ScheduleInv, NEW j \in S!Job, phase[j] \in {"gate", "run"}, NEW to \in {"sleep", "ended"},
           phase' = [phase EXCEPT ![j] = to], UNCHANGED <<clock, shutdown>>,
           left' \in [S!Job -> Nat], NEW i \in DOMAIN gate, gate[i] = j, gate' = S!RemoveAt(gate, i)
    PROVE  S!SchedulerTypeOK' /\ gate' \in Seq(S!Job)
<1>1. /\ gate' \in Seq(S!Job) /\ S!IsInjective(gate)' /\ S!ToSet(gate)' = S!ToSet(gate) \ {j}
      /\ i # 1 => gate'[1] = gate[1]
  <2>1. /\ S!RemoveAt(gate, i) \in Seq(S!Job) /\ S!IsInjective(S!RemoveAt(gate, i))
        /\ S!ToSet(S!RemoveAt(gate, i)) = S!ToSet(gate) \ {gate[i]}
        /\ i # 1 => S!RemoveAt(gate, i)[1] = gate[1]
    BY ScheduleFacts, GateWithout
  <2> QED
    BY <2>1 DEF S!IsInjective, S!ToSet
<1>2. phase' \in [S!Job -> {"sleep", "gate", "run", "ended"}]
  BY ScheduleFacts
<1>3. S!ToSet(gate)' = {k \in S!Job : phase'[k] \in {"gate", "run"}}
  BY <1>1, ScheduleFacts
<1>4. ASSUME NEW k \in S!Job, phase'[k] = "run" PROVE gate'[1] = k
  <2>1. phase[k] = "run" /\ k # j
    BY <1>4, ScheduleFacts
  <2> QED
    BY <1>1, <2>1, ScheduleFacts
<1> QED
  BY <1>1, <1>2, <1>3, <1>4, ScheduleFacts DEF S!SchedulerTypeOK

LEMMA FinishSchedule ==
    ASSUME S!SchedulerConstants, ScheduleInv, NEW j \in S!Job, S!Finish(j)
    PROVE  ScheduleInv'
<1> DEFINE to == IF shutdown THEN "ended" ELSE "sleep"
<1>1. /\ phase[j] = "run" /\ gate' = Tail(gate) /\ phase' = [phase EXCEPT ![j] = to]
      /\ left' = IF shutdown THEN left ELSE [left EXCEPT ![j] = S!Sleep(j)]
      /\ UNCHANGED <<clock, shutdown, credit>>
  BY DEF S!Finish
<1>2. left' \in [S!Job -> Nat] /\ S!Sleep(j) \in Nat
  BY <1>1, SleepIsNat, ScheduleFacts
<1>3. S!SchedulerTypeOK' /\ gate' \in Seq(S!Job)
  <2>1. gate # <<>> /\ gate[1] = j /\ 1 \in DOMAIN gate
    <3>1. j \in S!ToSet(gate) /\ gate[1] = j
      BY <1>1, ScheduleFacts
    <3>2. gate # <<>>
      BY <3>1, EmptySeq DEF S!ToSet
    <3> QED
      BY <3>1, <3>2, ScheduleFacts, LenProperties, EmptySeq
  <2>2. Tail(gate) = S!RemoveAt(gate, 1)
    BY <2>1, ScheduleFacts, FirstLeaves
  <2> QED
    BY <1>1, <1>2, <2>1, <2>2, LeavesGate
<1>4. CronSound'
  <2>1. CASE shutdown
    BY <1>1, <2>1, ScheduleFacts DEF ScheduleInv, CronSound
  <2>2. CASE ~shutdown
    <3>1. left'[j] = S!Sleep(j) /\ phase'[j] = "sleep"
          /\ \A k \in S!Job \ {j} : left'[k] = left[k] /\ phase'[k] = phase[k]
      BY <1>1, <2>2, ScheduleFacts
    <3>2. j \in Cron => left'[j] > 0 /\ left'[j] <= Day /\ (clock + left'[j]) % Day \in Instants[j]
      BY <1>2, <3>1, SleepsToAnInstant, ScheduleFacts
    <3>3. ASSUME NEW k \in Cron
          PROVE  /\ phase'[k] = "sleep" /\ left'[k] = 0 => credit[k] >= 1
                 /\ phase'[k] = "sleep" /\ left'[k] > 0 =>
                      left'[k] <= Day /\ (clock + left'[k]) % Day \in Instants[k]
                 /\ phase'[k] = "gate" => credit[k] >= 1
      <4>1. CASE k = j
        <5>1. left'[j] \in Nat
          BY <1>2, <3>1
        <5>2. left'[j] # 0
          BY <3>2, <4>1, <5>1
        <5> QED
          BY <3>1, <3>2, <4>1, <5>2
      <4>2. CASE k # j
        <5>1. k \in S!Job /\ left'[k] = left[k] /\ phase'[k] = phase[k]
          BY <3>1, <4>2, ScheduleFacts
        <5> QED
          BY <5>1 DEF ScheduleInv, CronSound
      <4> QED
        BY <4>1, <4>2
    <3> QED
      BY <1>1, <3>3, ScheduleFacts DEF CronSound
  <2> QED
    BY <2>1, <2>2
<1> QED
  BY <1>3, <1>4 DEF ScheduleInv

LEMMA AbortSchedule ==
    ASSUME ScheduleInv, NEW j \in S!Job, S!Abort(j)
    PROVE  ScheduleInv'
<1>1. /\ phase[j] \in {"gate", "run"} /\ phase' = [phase EXCEPT ![j] = "ended"]
      /\ UNCHANGED <<clock, left, shutdown, credit>>
  BY DEF S!Abort
<1>2. PICK i \in DOMAIN gate : gate[i] = j /\ gate' = S!RemoveAt(gate, i)
  BY DEF S!Abort
<1>3. S!SchedulerTypeOK' /\ gate' \in Seq(S!Job)
  BY <1>1, <1>2, LeavesGate, ScheduleFacts
<1>4. CronSound'
  BY <1>1, ScheduleFacts DEF ScheduleInv, CronSound
<1> QED
  BY <1>3, <1>4 DEF ScheduleInv

LEMMA StopSchedule ==
    ASSUME ScheduleInv, NEW j \in S!Job, S!Stop(j)
    PROVE  ScheduleInv'
<1>1. /\ phase[j] = "sleep" /\ phase' = [phase EXCEPT ![j] = "ended"]
      /\ UNCHANGED <<clock, left, gate, shutdown, credit>>
  BY DEF S!Stop
<1>2. S!SchedulerTypeOK'
  <2>1. phase' \in [S!Job -> {"sleep", "gate", "run", "ended"}]
    BY <1>1, ScheduleFacts
  <2>2. {k \in S!Job : phase'[k] \in {"gate", "run"}} = {k \in S!Job : phase[k] \in {"gate", "run"}}
    BY <1>1, ScheduleFacts
  <2>3. \A k \in S!Job : phase'[k] = "run" => gate[1] = k
    BY <1>1, ScheduleFacts
  <2>4. S!IsInjective(gate)' /\ S!ToSet(gate)' = S!ToSet(gate)
    BY <1>1, ScheduleFacts DEF S!IsInjective, S!ToSet
  <2> QED
    BY <1>1, <2>1, <2>2, <2>3, <2>4, ScheduleFacts DEF S!SchedulerTypeOK
<1>3. CronSound'
  BY <1>1, ScheduleFacts DEF ScheduleInv, CronSound
<1> QED
  BY <1>1, <1>2, <1>3 DEF ScheduleInv

LEMMA StepSchedule ==
    ASSUME S!SchedulerConstants, ScheduleInv, [S!Next]_(S!vars)
    PROVE  ScheduleInv'
<1>1. CASE S!Shutdown
  BY <1>1, RestSchedule DEF S!Shutdown
<1>2. CASE UNCHANGED S!vars
  BY <1>2, RestSchedule, ScheduleFacts DEF S!vars
<1> QED
  BY <1>1, <1>2, TickSchedule, WakeSchedule, StopSchedule, RunSchedule, FinishSchedule, AbortSchedule
     DEF S!Next, S!TaskStep

\* The gate lets one job run at a time, and a cron task runs at most once for
\* each of its instants, for any number of tasks, delays and instants: also when
\* sleepers wake late, runs fail, or the process is shut down in between
\* (background.rs:290-552).
THEOREM RunsStayScheduled ==
    ASSUME S!SchedulerConstants
    PROVE  S!Spec => []RunsAsScheduled
<1>1. S!Init => ScheduleInv
  BY InitSchedule
<1>2. ScheduleInv /\ [S!Next]_(S!vars) => ScheduleInv'
  BY StepSchedule
<1>3. ScheduleInv => RunsAsScheduled
  BY ScheduleFacts DEF ScheduleInv, RunsAsScheduled, S!RunsAsScheduled
<1> QED
  BY <1>1, <1>2, <1>3, PTL DEF S!Spec

-----------------------------------------------------------------------------
(* The channel *)

Recorded(t) == \E p \in posts : p.topic = t
Known(m) == \E p \in posts : p.id = m
Inserting(t) == \E n \in Node : pc[n] = "insert" /\ got[n].topic = t
Unrecorded == {m \in channel : /\ \A p \in posts : p.id # m
                               /\ \A n \in Node : got[n].id # m \/ pc[n] # "insert"}

\* Who is about to send or to record has no row of the topic yet; who removes
\* has one row in hand, and a forgotten message is in the channel no more.
InHand(n) ==
    /\ pc[n] # "idle" => holder = n
    /\ pc[n] \in {"send", "resend", "insert", "remove", "reremove", "forget"} => got[n].topic \in Topic
    /\ pc[n] \in {"send", "resend", "insert"} => ~Recorded(got[n].topic)
    /\ pc[n] = "insert" => got[n].id \in 1..lastId /\ ~Known(got[n].id)
    /\ pc[n] \in {"remove", "reremove", "forget"} =>
         \A p \in posts : p.id = got[n].id => p.topic = got[n].topic
    /\ pc[n] = "forget" => got[n].id \notin channel

IdsSound ==
    /\ \A p \in posts : p.id <= lastId
    /\ \A p, q \in posts : p.id = q.id => p.topic = q.topic
    /\ channel \subseteq 1..lastId

\* What was sent of a topic is on record, or will be, or was forgotten, or failed.
SendsCounted ==
    /\ sent \in [Topic -> Nat] /\ forgotten \in [Topic -> Nat]
    /\ \A t \in Topic : sent[t] <= (IF Recorded(t) \/ Inserting(t) THEN 1 ELSE 0) + forgotten[t] + faults

ChannelInv ==
    /\ T!TelegramTypeOK /\ IdsSound /\ SendsCounted
    /\ \A n \in Node : InHand(n)
    /\ Cardinality(Unrecorded) <= faults

LEMMA ChannelFacts ==
    ASSUME ChannelInv
    PROVE  /\ topic \in [Topic -> {"quiet", "hot", "bad"}]
           /\ posts \subseteq [topic : Topic, id : 1..MaxSent, old : BOOLEAN]
           /\ channel \subseteq 1..MaxSent /\ holder \in Node \cup {Nobody}
           /\ pc \in [Node -> {"idle", "choose", "send", "resend", "insert", "remove", "reremove",
                               "forget", "unlock"}]
           /\ got \in [Node -> [topic : Topic \cup {Nobody}, id : 0..MaxSent]]
           /\ lastId \in 0..MaxSent /\ faults \in 0..MaxFaults
           /\ sent \in [Topic -> Nat] /\ forgotten \in [Topic -> Nat]
           /\ \A p \in posts : p.topic \in Topic /\ p.id \in 1..MaxSent /\ p.old \in BOOLEAN
           /\ \A n \in Node : got[n].topic \in Topic \cup {Nobody} /\ got[n].id \in 0..MaxSent
  BY DEF ChannelInv, T!TelegramTypeOK, SendsCounted

\* Only the holder of the lock is at work.
LEMMA OneAtWork ==
    ASSUME ChannelInv, NEW n \in Node, pc[n] # "idle"
    PROVE  \A m \in Node : m # n => pc[m] = "idle"
  BY DEF ChannelInv, InHand

LEMMA UnrecordedIsFinite ==
    ASSUME T!TelegramConstants, ChannelInv
    PROVE  IsFiniteSet(Unrecorded) /\ Cardinality(Unrecorded) \in Nat
<1>1. IsFiniteSet(1..MaxSent)
  BY FS_Interval DEF T!TelegramConstants
<1>2. Unrecorded \subseteq 1..MaxSent
  BY ChannelFacts DEF Unrecorded
<1>3. IsFiniteSet(Unrecorded)
  BY <1>1, <1>2, FS_Subset
<1> QED
  BY <1>3, FS_CardinalityType

\* A step leaves no message unrecorded, or one and has failed.
LEMMA UnrecordedGrows ==
    ASSUME T!TelegramConstants, ChannelInv, faults' \in Nat,
           \/ Unrecorded' \subseteq Unrecorded /\ faults <= faults'
           \/ faults' = faults + 1 /\ \E x : Unrecorded' \subseteq Unrecorded \cup {x}
    PROVE  Cardinality(Unrecorded') <= faults'
<1> DEFINE U == Unrecorded
           V == Unrecorded'
<1>1. IsFiniteSet(U) /\ Cardinality(U) \in Nat /\ Cardinality(U) <= faults /\ faults \in Nat
  BY UnrecordedIsFinite, ChannelFacts DEF ChannelInv, T!TelegramConstants
<1> HIDE DEF U, V
<1>2. CASE V \subseteq U /\ faults <= faults'
  <2>1. Cardinality(V) <= Cardinality(U) /\ IsFiniteSet(V)
    BY <1>1, <1>2, FS_Subset
  <2>2. Cardinality(V) \in Nat
    BY <2>1, FS_CardinalityType
  <2>3. Cardinality(V) <= faults'
    BY <1>1, <1>2, <2>1, <2>2
  <2> QED
    BY <2>3 DEF V
<1>3. CASE faults' = faults + 1 /\ \E x : V \subseteq U \cup {x}
  <2>1. PICK x : V \subseteq U \cup {x}
    BY <1>3
  <2>2. IsFiniteSet(U \cup {x}) /\ Cardinality(U \cup {x}) <= Cardinality(U) + 1
        /\ Cardinality(U \cup {x}) \in Nat
    <3>1. IsFiniteSet(U \cup {x})
          /\ Cardinality(U \cup {x}) = IF x \in U THEN Cardinality(U) ELSE Cardinality(U) + 1
      BY <1>1, FS_AddElement
    <3> QED
      BY <1>1, <3>1
  <2>3. Cardinality(V) <= Cardinality(U \cup {x}) /\ IsFiniteSet(V)
    BY <2>1, <2>2, FS_Subset
  <2>4. Cardinality(V) \in Nat
    BY <2>3, FS_CardinalityType
  <2>5. Cardinality(V) <= faults'
    BY <1>1, <1>3, <2>2, <2>3, <2>4
  <2> QED
    BY <2>5 DEF V
<1> QED
  BY <1>2, <1>3 DEF U, V

\* Steps that change neither what is sent nor what is on record.
LEMMA ChannelRests ==
    ASSUME T!TelegramConstants, ChannelInv, T!TelegramTypeOK',
           UNCHANGED <<posts, channel, sent, forgotten, lastId>>, faults' >= faults,
           \A n \in Node : InHand(n)',
           \A n \in Node : pc[n] = "insert" =>
               \/ pc'[n] = "insert" /\ got'[n] = got[n]
               \/ faults' = faults + 1 /\ holder = n
    PROVE  ChannelInv'
<1>0. faults \in Nat /\ faults' \in Nat /\ MaxFaults \in Nat
  BY ChannelFacts DEF T!TelegramConstants, T!TelegramTypeOK
<1>1. IdsSound'
  BY DEF ChannelInv, IdsSound
<1>2. \A t \in Topic : sent[t] \in Nat /\ forgotten[t] \in Nat
  BY ChannelFacts
<1>3. SendsCounted'
  <2>1. \A t : Recorded(t)' = Recorded(t)
    BY DEF Recorded
  <2>2. ASSUME NEW t \in Topic, Inserting(t), ~Inserting(t)' PROVE faults' = faults + 1
    BY <2>2 DEF Inserting
  <2>3. ASSUME NEW t \in Topic
        PROVE sent'[t] <= (IF Recorded(t)' \/ Inserting(t)' THEN 1 ELSE 0) + forgotten'[t] + faults'
    <3>1. sent[t] <= (IF Recorded(t) \/ Inserting(t) THEN 1 ELSE 0) + forgotten[t] + faults
      BY DEF ChannelInv, SendsCounted
    <3> QED
      BY <1>0, <1>2, <2>1, <2>2, <3>1
  <2> QED
    BY <2>3, ChannelFacts DEF SendsCounted
<1>4. Cardinality(Unrecorded') <= faults'
  <2>1. CASE \A n \in Node : pc[n] = "insert" => pc'[n] = "insert" /\ got'[n] = got[n]
    <3>1. Unrecorded' \subseteq Unrecorded
      BY <2>1 DEF Unrecorded
    <3> QED
      BY <1>0, <3>1, UnrecordedGrows
  <2>2. CASE \E n \in Node : pc[n] = "insert" /\ faults' = faults + 1 /\ holder = n
    <3>1. PICK n \in Node : pc[n] = "insert" /\ faults' = faults + 1
      BY <2>2
    <3>2. \A m \in Node : m # n => pc[m] = "idle"
      BY <3>1, OneAtWork
    <3>3. Unrecorded' \subseteq Unrecorded \cup {got[n].id}
      BY <3>1, <3>2 DEF Unrecorded
    <3> QED
      BY <1>0, <3>1, <3>3, UnrecordedGrows
  <2> QED
    BY <2>1, <2>2
<1>5. (Cardinality(Unrecorded) <= faults)'
  BY <1>4
<1> QED
  BY <1>1, <1>3, <1>5 DEF ChannelInv

LEMMA GotoOnly ==
    ASSUME ChannelInv, NEW n \in Node, NEW at, T!Goto(n, at),
           at \in {"idle", "choose", "send", "resend", "insert", "remove", "reremove", "forget", "unlock"}
    PROVE  /\ pc' \in [Node -> {"idle", "choose", "send", "resend", "insert", "remove", "reremove",
                                "forget", "unlock"}]
           /\ pc'[n] = at /\ \A m \in Node : m # n => pc'[m] = pc[m]
  BY ChannelFacts DEF T!Goto

LEMMA LockChannel ==
    ASSUME T!TelegramConstants, ChannelInv, NEW n \in Node, T!Lock(n)
    PROVE  ChannelInv'
<1>1. /\ pc[n] = "idle" /\ holder = Nobody /\ holder' = n /\ T!Goto(n, "choose")
      /\ UNCHANGED <<topic, posts, channel, got, sent, forgotten, lastId, faults>>
  BY DEF T!Lock
<1>2. \A m \in Node : pc[m] = "idle"
  BY <1>1 DEF ChannelInv, InHand, T!TelegramConstants
<1>3. pc'[n] = "choose" /\ \A m \in Node : m # n => pc'[m] = "idle"
  BY <1>1, <1>2, GotoOnly
<1>4. \A m \in Node : InHand(m)'
  BY <1>1, <1>3 DEF InHand
<1>5. T!TelegramTypeOK'
  BY <1>1, GotoOnly, ChannelFacts DEF T!TelegramTypeOK
<1> QED
  BY <1>1, <1>2, <1>4, <1>5, ChannelRests, ChannelFacts

LEMMA ChooseChannel ==
    ASSUME T!TelegramConstants, ChannelInv, NEW n \in Node, T!Choose(n)
    PROVE  ChannelInv'
<1>1. /\ pc[n] = "choose"
      /\ UNCHANGED <<topic, posts, channel, holder, sent, forgotten, lastId, faults>>
  BY DEF T!Choose
<1>2. holder = n /\ \A m \in Node : m # n => pc[m] = "idle"
  BY <1>1, OneAtWork DEF ChannelInv, InHand
<1>3. ASSUME NEW t \in T!Hot, got' = [got EXCEPT ![n] = [topic |-> t, id |-> 0]], T!Goto(n, "send")
      PROVE  ChannelInv'
  <2>1. t \in Topic /\ ~Recorded(t)
    BY DEF T!Hot, Recorded
  <2>2. got'[n] = [topic |-> t, id |-> 0] /\ pc'[n] = "send"
        /\ \A m \in Node : m # n => pc'[m] = pc[m]
    BY <1>3, GotoOnly, ChannelFacts
  <2>3. T!TelegramTypeOK'
    <3>1. [topic |-> t, id |-> 0] \in [topic : Topic \cup {Nobody}, id : 0..MaxSent]
      BY <2>1 DEF T!TelegramConstants
    <3> QED
      BY <1>1, <1>3, <3>1, GotoOnly, ChannelFacts DEF T!TelegramTypeOK
  <2>4. InHand(n)'
    BY <1>1, <1>2, <2>1, <2>2 DEF InHand, Recorded
  <2>5. \A m \in Node : InHand(m)'
    BY <1>2, <2>2, <2>4 DEF InHand
  <2> QED
    BY <1>1, <1>2, <2>3, <2>5, ChannelRests, ChannelFacts
<1>4. ASSUME NEW p \in T!ToRemove, got' = [got EXCEPT ![n] = [topic |-> p.topic, id |-> p.id]],
             T!Goto(n, "remove")
      PROVE  ChannelInv'
  <2>1. p \in posts /\ p.topic \in Topic /\ p.id \in 1..MaxSent
    BY ChannelFacts DEF T!ToRemove
  <2>2. got'[n] = [topic |-> p.topic, id |-> p.id] /\ pc'[n] = "remove"
        /\ \A m \in Node : m # n => pc'[m] = pc[m]
    BY <1>4, GotoOnly, ChannelFacts
  <2>3. T!TelegramTypeOK'
    <3>1. [topic |-> p.topic, id |-> p.id] \in [topic : Topic \cup {Nobody}, id : 0..MaxSent]
      BY <2>1 DEF T!TelegramConstants
    <3> QED
      BY <1>1, <1>4, <3>1, GotoOnly, ChannelFacts DEF T!TelegramTypeOK
  <2>4. InHand(n)'
    <3>1. \A q \in posts : q.id = p.id => q.topic = p.topic
      BY <2>1 DEF ChannelInv, IdsSound
    <3> QED
      BY <1>1, <1>2, <2>1, <2>2, <3>1 DEF InHand
  <2>5. \A m \in Node : InHand(m)'
    BY <1>2, <2>2, <2>4 DEF InHand
  <2> QED
    BY <1>1, <1>2, <2>3, <2>5, ChannelRests, ChannelFacts
<1>5. ASSUME T!Goto(n, "unlock"), got' = got PROVE ChannelInv'
  <2>1. T!TelegramTypeOK'
    BY <1>1, <1>5, GotoOnly, ChannelFacts DEF T!TelegramTypeOK
  <2>2. pc'[n] = "unlock" /\ \A m \in Node : m # n => pc'[m] = pc[m]
    BY <1>5, GotoOnly
  <2>3. \A m \in Node : InHand(m)'
    BY <1>1, <1>2, <2>2 DEF InHand
  <2> QED
    BY <1>1, <1>2, <2>1, <2>3, ChannelRests, ChannelFacts
<1> QED
  BY <1>3, <1>4, <1>5 DEF T!Choose

LEMMA GoneHome ==
    ASSUME T!TelegramConstants, ChannelInv, NEW n \in Node, pc[n] # "idle", T!Goto(n, "idle"),
           got' = [got EXCEPT ![n] = T!Nothing], holder' \in Node \cup {Nobody},
           UNCHANGED <<topic, posts, channel, sent, forgotten, lastId>>,
           \/ pc[n] # "insert" /\ faults' = faults
           \/ faults' = faults + 1 /\ faults' \in 0..MaxFaults
    PROVE  ChannelInv'
<1>1. holder = n /\ \A m \in Node : m # n => pc[m] = "idle"
  BY OneAtWork DEF ChannelInv, InHand
<1>2. pc'[n] = "idle" /\ \A m \in Node : m # n => pc'[m] = pc[m]
  BY GotoOnly
<1>3. T!TelegramTypeOK'
  <2>1. T!Nothing \in [topic : Topic \cup {Nobody}, id : 0..MaxSent]
    BY DEF T!Nothing, T!TelegramConstants
  <2>2. faults' \in 0..MaxFaults
    BY ChannelFacts
  <2> QED
    BY <2>1, <2>2, GotoOnly, ChannelFacts DEF T!TelegramTypeOK
<1>4. \A m \in Node : InHand(m)'
  BY <1>1, <1>2 DEF InHand
<1>5. faults' >= faults
  BY ChannelFacts
<1> QED
  BY <1>1, <1>3, <1>4, <1>5, ChannelRests

LEMMA TopicsChannel ==
    ASSUME T!TelegramConstants, ChannelInv, NEW t \in Topic, T!Topics(t)
    PROVE  ChannelInv'
<1>1. /\ topic' \in [Topic -> {"quiet", "hot", "bad"}]
      /\ UNCHANGED <<posts, channel, holder, pc, got, sent, forgotten, lastId, faults>>
  BY ChannelFacts DEF T!Topics
<1>2. T!TelegramTypeOK'
  BY <1>1, ChannelFacts DEF T!TelegramTypeOK
<1>3. \A m \in Node : InHand(m)'
  BY <1>1 DEF ChannelInv, InHand, Recorded, Known
<1> QED
  BY <1>1, <1>2, <1>3, ChannelRests, ChannelFacts

LEMMA AgesChannel ==
    ASSUME T!TelegramConstants, ChannelInv, NEW p \in posts, T!Ages(p)
    PROVE  ChannelInv'
<1> DEFINE o == [p EXCEPT !.old = TRUE]
<1>1. /\ posts' = (posts \ {p}) \cup {o}
      /\ UNCHANGED <<topic, channel, holder, pc, got, sent, forgotten, lastId, faults>>
  BY DEF T!Ages
<1>2. /\ p \in [topic : Topic, id : 1..MaxSent, old : BOOLEAN]
      /\ o \in [topic : Topic, id : 1..MaxSent, old : BOOLEAN]
      /\ o.topic = p.topic /\ o.id = p.id
  BY ChannelFacts
<1> HIDE DEF o
<1>3. T!TelegramTypeOK'
  <2>1. posts' \subseteq [topic : Topic, id : 1..MaxSent, old : BOOLEAN]
    BY <1>1, <1>2, ChannelFacts
  <2> QED
    BY <1>1, <2>1, ChannelFacts DEF T!TelegramTypeOK
<1>4. /\ \A q \in posts' : \E r \in posts : q.topic = r.topic /\ q.id = r.id
      /\ \A q \in posts : \E r \in posts' : q.topic = r.topic /\ q.id = r.id
  BY <1>1, <1>2
<1>5. /\ \A t : Recorded(t)' <=> Recorded(t)
      /\ \A m : Known(m)' <=> Known(m)
  BY <1>4 DEF Recorded, Known
<1>6. IdsSound'
  BY <1>1, <1>4 DEF ChannelInv, IdsSound
<1>7. \A t : Inserting(t)' <=> Inserting(t)
  BY <1>1 DEF Inserting
<1>8. SendsCounted'
  BY <1>1, <1>5, <1>7 DEF ChannelInv, SendsCounted
<1>9. ASSUME NEW m \in Node PROVE InHand(m)'
  <2>1. InHand(m) /\ UNCHANGED <<pc[m], got[m], holder, lastId, channel>>
    BY <1>1 DEF ChannelInv
  <2>2. (Recorded(got[m].topic)' <=> Recorded(got[m].topic))
        /\ (Known(got[m].id)' <=> Known(got[m].id))
    BY <1>1, <1>5
  <2> QED
    BY <1>4, <2>1, <2>2 DEF InHand
<1>10. (Cardinality(Unrecorded) <= faults)'
  <2>1. Unrecorded' = Unrecorded
    BY <1>1, <1>4 DEF Unrecorded
  <2> QED
    BY <1>1, <2>1 DEF ChannelInv
<1> QED
  BY <1>3, <1>6, <1>8, <1>9, <1>10 DEF ChannelInv

\* Telegram has the message: it gets a new number, which nothing names yet.
LEMMA SentChannel ==
    ASSUME T!TelegramConstants, ChannelInv, NEW n \in Node, pc[n] \in {"send", "resend"},
           T!Delivered(n), UNCHANGED <<topic, posts, holder, forgotten>>,
           \/ T!Goto(n, "insert") /\ faults' = faults /\ got' = [got EXCEPT ![n].id = lastId + 1]
           \/ /\ T!Goto(n, "resend") \/ T!Goto(n, "unlock")
              /\ faults' = faults + 1 /\ faults' \in 0..MaxFaults /\ got' = got
    PROVE  ChannelInv'
<1> DEFINE t == got[n].topic
           new == lastId + 1
<1>1. /\ lastId \in 0..MaxSent /\ lastId < MaxSent /\ lastId' = new /\ channel' = channel \cup {new}
      /\ sent' = [sent EXCEPT ![t] = @ + 1] /\ MaxSent \in Nat /\ faults \in Nat
      /\ new \in 1..MaxSent /\ new \in 0..MaxSent
  BY ChannelFacts DEF T!Delivered, T!TelegramConstants
<1>2. /\ t \in Topic /\ ~Recorded(t) /\ holder = n
      /\ \A m \in Node : m # n => pc[m] = "idle"
  BY OneAtWork DEF ChannelInv, InHand
<1>3. /\ \A p \in posts : p.id <= lastId /\ p.id \in Nat
      /\ channel \subseteq 1..lastId
  BY ChannelFacts DEF ChannelInv, IdsSound
<1>4. /\ pc' \in [Node -> {"idle", "choose", "send", "resend", "insert", "remove", "reremove",
                           "forget", "unlock"}]
      /\ pc'[n] \in {"insert", "resend", "unlock"} /\ \A m \in Node : m # n => pc'[m] = "idle"
  BY <1>2, GotoOnly
<1>5. got' \in [Node -> [topic : Topic \cup {Nobody}, id : 0..MaxSent]] /\ got'[n].topic = t
  <2>1. CASE got' = got
    BY <2>1, ChannelFacts
  <2>2. CASE got' = [got EXCEPT ![n].id = new]
    BY <1>1, <2>2, ChannelFacts
  <2> QED
    BY <2>1, <2>2
<1>6. faults' \in 0..MaxFaults /\ faults' \in Nat /\ faults' >= faults
  BY ChannelFacts, <1>1
<1>7. T!TelegramTypeOK'
  BY <1>1, <1>4, <1>5, <1>6, ChannelFacts DEF T!TelegramTypeOK
<1>8. IdsSound'
  BY <1>1, <1>3 DEF ChannelInv, IdsSound
<1>9. \A u : Recorded(u)' <=> Recorded(u)
  BY DEF Recorded
<1>10. pc'[n] = "insert" => got'[n].id = new
  <2>1. CASE T!Goto(n, "insert") /\ faults' = faults /\ got' = [got EXCEPT ![n].id = new]
    BY <2>1, ChannelFacts
  <2>2. CASE T!Goto(n, "resend") \/ T!Goto(n, "unlock")
    BY <2>2, GotoOnly
  <2> QED
    BY <2>1, <2>2
<1>11. InHand(n)'
  <2>1. ~Recorded(got[n].topic)'
    BY <1>2, <1>5 DEF Recorded
  <2>2. pc'[n] = "insert" => ~Known(got[n].id)'
    BY <1>1, <1>3, <1>10 DEF Known
  <2>3. pc'[n] = "insert" => got'[n].id \in 1..lastId'
    BY <1>1, <1>10
  <2> QED
    BY <1>2, <1>4, <1>5, <2>1, <2>2, <2>3 DEF InHand, Recorded, Known
<1>12. \A m \in Node : InHand(m)'
  BY <1>4, <1>11 DEF InHand
<1>13. SendsCounted'
  <2>1. ~Inserting(t) /\ \A u : ~Inserting(u)
    BY <1>2 DEF Inserting
  <2>2. sent' \in [Topic -> Nat] /\ sent'[t] = sent[t] + 1 /\ \A u \in Topic \ {t} : sent'[u] = sent[u]
    BY <1>1, <1>2, ChannelFacts
  <2>3. ASSUME NEW u, u = t PROVE Inserting(u)' \/ faults' = faults + 1
    <3>1. CASE T!Goto(n, "insert")
      <4>1. pc'[n] = "insert"
        BY <3>1, GotoOnly
      <4> QED
        BY <1>5, <2>3, <4>1 DEF Inserting
    <3> QED
      BY <3>1
  <2>4. ASSUME NEW u \in Topic
        PROVE sent'[u] <= (IF Recorded(u)' \/ Inserting(u)' THEN 1 ELSE 0) + forgotten[u] + faults'
    <3>1. /\ sent[u] <= (IF Recorded(u) \/ Inserting(u) THEN 1 ELSE 0) + forgotten[u] + faults
          /\ sent[u] \in Nat /\ forgotten[u] \in Nat
      BY ChannelFacts DEF ChannelInv, SendsCounted
    <3>2. CASE u = t
      <4>1. sent[t] <= forgotten[t] + faults
        BY <1>1, <1>2, <2>1, <3>1, <3>2
      <4>2. Inserting(u)' \/ faults' = faults + 1
        BY <2>3, <3>2
      <4> HIDE DEF t
      <4> QED
        BY <1>1, <1>6, <2>2, <3>1, <3>2, <4>1, <4>2
    <3>3. CASE u # t
      <4>1. Recorded(u)' <=> Recorded(u)
        BY <1>9
      <4>2. sent'[u] = sent[u] /\ ~Inserting(u)
        BY <2>1, <2>2, <3>3
      <4> HIDE DEF t
      <4> QED
        BY <1>1, <1>6, <3>1, <4>1, <4>2
    <3> QED
      BY <3>2, <3>3
  <2> QED
    BY <2>2, <2>4, ChannelFacts DEF SendsCounted
<1>14. Cardinality(Unrecorded') <= faults'
  <2>1. CASE faults' = faults + 1
    <3>1. Unrecorded' \subseteq Unrecorded \cup {new}
      BY <1>1, <1>2 DEF Unrecorded
    <3> QED
      BY <1>6, <2>1, <3>1, UnrecordedGrows
  <2>2. CASE T!Goto(n, "insert") /\ faults' = faults
    <3>1. pc'[n] = "insert" /\ got'[n].id = new
      BY <1>10, <2>2, GotoOnly
    <3>2. Unrecorded' \subseteq Unrecorded
      BY <1>1, <1>2, <3>1 DEF Unrecorded
    <3> QED
      BY <1>6, <3>2, UnrecordedGrows
  <2> QED
    BY <2>1, <2>2
<1>15. (Cardinality(Unrecorded) <= faults)'
  BY <1>14
<1> QED
  BY <1>7, <1>8, <1>12, <1>13, <1>15 DEF ChannelInv

LEMMA SendChannel ==
    ASSUME T!TelegramConstants, ChannelInv, NEW n \in Node,
           T!Send(n, "send", "resend") \/ T!Send(n, "resend", "unlock")
    PROVE  ChannelInv'
<1>1. /\ pc[n] \in {"send", "resend"} /\ UNCHANGED <<topic, posts, holder, forgotten>>
      /\ \/ /\ T!Delivered(n) /\ T!Goto(n, "insert") /\ faults' = faults
            /\ got' = [got EXCEPT ![n].id = lastId + 1]
         \/ T!Delivered(n) /\ (T!Goto(n, "resend") \/ T!Goto(n, "unlock")) /\ T!Fault /\ got' = got
         \/ /\ T!Goto(n, "unlock") \/ (T!Goto(n, "resend") /\ pc[n] = "send")
            /\ T!Fault /\ UNCHANGED <<channel, sent, lastId, got>>
  BY DEF T!Send
<1>2. T!Fault => faults' = faults + 1 /\ faults' \in 0..MaxFaults
  BY ChannelFacts DEF T!Fault, T!TelegramConstants
<1>3. CASE T!Delivered(n)
  BY <1>1, <1>2, <1>3, SentChannel
<1>4. CASE /\ T!Goto(n, "unlock") \/ (T!Goto(n, "resend") /\ pc[n] = "send")
           /\ T!Fault /\ UNCHANGED <<channel, sent, lastId, got>>
  <2>1. holder = n /\ (\A m \in Node : m # n => pc[m] = "idle")
        /\ got[n].topic \in Topic /\ ~Recorded(got[n].topic)
    BY <1>1, OneAtWork DEF ChannelInv, InHand
  <2>2. /\ pc' \in [Node -> {"idle", "choose", "send", "resend", "insert", "remove", "reremove",
                             "forget", "unlock"}]
        /\ pc'[n] \in {"resend", "unlock"} /\ \A m \in Node : m # n => pc'[m] = "idle"
    BY <1>4, <2>1, GotoOnly
  <2>3. T!TelegramTypeOK'
    BY <1>1, <1>2, <1>4, <2>2, ChannelFacts DEF T!TelegramTypeOK
  <2>4. InHand(n)'
    BY <1>1, <1>4, <2>1, <2>2 DEF InHand, Recorded
  <2>5. \A m \in Node : InHand(m)'
    BY <2>2, <2>4 DEF InHand
  <2>6. faults' >= faults
    BY <1>2, <1>4, ChannelFacts
  <2>7. \A m \in Node : pc[m] # "insert"
    BY <1>1, <2>1
  <2> QED
    BY <1>1, <1>4, <2>3, <2>5, <2>6, <2>7, ChannelRests
<1> QED
  BY <1>1, <1>3, <1>4

LEMMA InsertChannel ==
    ASSUME T!TelegramConstants, ChannelInv, NEW n \in Node, T!Insert(n)
    PROVE  ChannelInv'
<1> DEFINE t == got[n].topic
           m == got[n].id
           p == [topic |-> t, id |-> m, old |-> FALSE]
<1>1. /\ pc[n] = "insert" /\ T!Goto(n, "unlock")
      /\ UNCHANGED <<topic, channel, holder, got, sent, forgotten, lastId>>
  BY DEF T!Insert
<1>2. /\ t \in Topic /\ m \in 1..lastId /\ ~Known(m) /\ ~Recorded(t) /\ holder = n
      /\ (\A k \in Node : k # n => pc[k] = "idle")
      /\ lastId \in Nat /\ m \in 1..MaxSent
  BY <1>1, OneAtWork, ChannelFacts DEF ChannelInv, InHand, T!TelegramConstants
<1>3. /\ pc' \in [Node -> {"idle", "choose", "send", "resend", "insert", "remove", "reremove",
                           "forget", "unlock"}]
      /\ pc'[n] = "unlock" /\ \A k \in Node : k # n => pc'[k] = "idle"
  BY <1>1, <1>2, GotoOnly
<1>4. \A k \in Node : InHand(k)'
  BY <1>1, <1>2, <1>3 DEF InHand
<1>5. CASE posts' = posts /\ T!Fault
  <2>1. faults' = faults + 1 /\ faults' \in 0..MaxFaults /\ faults' >= faults
    BY <1>5, ChannelFacts DEF T!Fault, T!TelegramConstants
  <2>2. T!TelegramTypeOK'
    BY <1>1, <1>3, <1>5, <2>1, ChannelFacts DEF T!TelegramTypeOK
  <2>3. \A k \in Node : pc[k] = "insert" => holder = k
    BY <1>2, <1>1
  <2> QED
    BY <1>1, <1>4, <1>5, <2>1, <2>2, <2>3, ChannelRests
<1>6. CASE posts' = posts \cup {p} /\ faults' = faults
  <2>1. /\ p \in [topic : Topic, id : 1..MaxSent, old : BOOLEAN]
        /\ p.topic = t /\ p.id = m
    BY <1>2
  <2> HIDE DEF p
  <2>2. T!TelegramTypeOK'
    BY <1>1, <1>3, <1>6, <2>1, ChannelFacts DEF T!TelegramTypeOK
  <2>3. IdsSound'
    <3>1. \A q \in posts : q.id # m
      BY <1>2 DEF Known
    <3> QED
      BY <1>1, <1>2, <1>6, <2>1, <3>1 DEF ChannelInv, IdsSound
  <2>4. \A u \in Topic : (Recorded(u) \/ Inserting(u)) => Recorded(u)'
    <3> SUFFICES ASSUME NEW u \in Topic, Recorded(u) \/ Inserting(u) PROVE Recorded(u)'
      OBVIOUS
    <3>1. CASE Recorded(u)
      BY <1>6, <3>1 DEF Recorded
    <3>2. CASE Inserting(u)
      <4>1. u = t
        BY <1>2, <3>2 DEF Inserting
      <4> QED
        BY <1>6, <2>1, <4>1 DEF Recorded
    <3> QED
      BY <3>1, <3>2
  <2>5. SendsCounted'
    <3>1. ASSUME NEW u \in Topic
          PROVE sent[u] <= (IF Recorded(u)' \/ Inserting(u)' THEN 1 ELSE 0) + forgotten[u] + faults
      <4>1. /\ sent[u] <= (IF Recorded(u) \/ Inserting(u) THEN 1 ELSE 0) + forgotten[u] + faults
            /\ sent[u] \in Nat /\ forgotten[u] \in Nat /\ faults \in Nat
        BY ChannelFacts DEF ChannelInv, SendsCounted
      <4> QED
        BY <2>4, <4>1
    <3> QED
      BY <1>1, <1>6, <3>1, ChannelFacts DEF SendsCounted
  <2>6. Cardinality(Unrecorded') <= faults'
    <3>1. Unrecorded' \subseteq Unrecorded
      BY <1>1, <1>2, <1>3, <1>6, <2>1 DEF Unrecorded
    <3> QED
      BY <1>6, <3>1, UnrecordedGrows, ChannelFacts
  <2>7. (Cardinality(Unrecorded) <= faults)'
    BY <2>6
  <2> QED
    BY <1>4, <2>2, <2>3, <2>5, <2>7 DEF ChannelInv
<1> QED
  BY <1>5, <1>6 DEF T!Insert

LEMMA RemoveChannel ==
    ASSUME T!TelegramConstants, ChannelInv, NEW n \in Node,
           T!Remove(n, "remove", "reremove") \/ T!Remove(n, "reremove", "unlock")
    PROVE  ChannelInv'
<1> DEFINE m == got[n].id
<1>1. /\ pc[n] \in {"remove", "reremove"} /\ UNCHANGED <<topic, posts, holder, got, sent, forgotten, lastId>>
      /\ channel' \in {channel, channel \ {m}}
      /\ \/ channel' = channel \ {m} /\ T!Goto(n, "forget") /\ faults' = faults
         \/ (T!Goto(n, "reremove") \/ T!Goto(n, "unlock")) /\ (faults' = faults \/ T!Fault)
  BY DEF T!Remove
<1>2. T!Fault => faults' = faults + 1 /\ faults' \in 0..MaxFaults
  BY ChannelFacts DEF T!Fault, T!TelegramConstants
<1>3. faults' \in 0..MaxFaults /\ faults' \in Nat /\ faults \in Nat /\ faults' >= faults
  BY <1>1, <1>2, ChannelFacts
<1>4. /\ holder = n /\ (\A k \in Node : k # n => pc[k] = "idle") /\ got[n].topic \in Topic
      /\ \A p \in posts : p.id = m => p.topic = got[n].topic
  BY <1>1, OneAtWork DEF ChannelInv, InHand
<1>5. /\ pc' \in [Node -> {"idle", "choose", "send", "resend", "insert", "remove", "reremove",
                           "forget", "unlock"}]
      /\ pc'[n] \in {"forget", "reremove", "unlock"} /\ \A k \in Node : k # n => pc'[k] = "idle"
      /\ pc'[n] = "forget" => m \notin channel'
  BY <1>1, <1>4, GotoOnly
<1>6. T!TelegramTypeOK'
  <2>1. channel' \subseteq 1..MaxSent
    BY <1>1, ChannelFacts
  <2> QED
    BY <1>1, <1>3, <1>5, <2>1, ChannelFacts DEF T!TelegramTypeOK
<1>7. IdsSound'
  BY <1>1 DEF ChannelInv, IdsSound
<1>8. InHand(n)'
  BY <1>1, <1>4, <1>5 DEF InHand
<1>9. \A k \in Node : InHand(k)'
  BY <1>5, <1>8 DEF InHand
<1>10. SendsCounted'
  <2>1. \A u : (Recorded(u)' <=> Recorded(u)) /\ ~Inserting(u)
    BY <1>1, <1>4 DEF Recorded, Inserting
  <2>2. ASSUME NEW u \in Topic
        PROVE sent[u] <= (IF Recorded(u)' \/ Inserting(u)' THEN 1 ELSE 0) + forgotten[u] + faults'
    <3>1. /\ sent[u] <= (IF Recorded(u) \/ Inserting(u) THEN 1 ELSE 0) + forgotten[u] + faults
          /\ sent[u] \in Nat /\ forgotten[u] \in Nat
      BY ChannelFacts DEF ChannelInv, SendsCounted
    <3> QED
      BY <1>3, <2>1, <3>1
  <2> QED
    BY <1>1, <2>2, ChannelFacts DEF SendsCounted
<1>11. Cardinality(Unrecorded') <= faults'
  <2>1. Unrecorded' \subseteq Unrecorded
    BY <1>1, <1>4 DEF Unrecorded
  <2> QED
    BY <1>3, <2>1, UnrecordedGrows
<1>12. (Cardinality(Unrecorded) <= faults)'
  BY <1>11
<1> QED
  BY <1>6, <1>7, <1>9, <1>10, <1>12 DEF ChannelInv

LEMMA ForgetChannel ==
    ASSUME T!TelegramConstants, ChannelInv, NEW n \in Node, T!Forget(n)
    PROVE  ChannelInv'
<1> DEFINE t == got[n].topic
           m == got[n].id
<1>1. /\ pc[n] = "forget" /\ T!Goto(n, "unlock")
      /\ UNCHANGED <<topic, channel, holder, got, sent, lastId>>
  BY DEF T!Forget
<1>2. /\ t \in Topic /\ m \notin channel /\ holder = n
      /\ (\A k \in Node : k # n => pc[k] = "idle")
      /\ \A p \in posts : p.id = m => p.topic = t
  BY <1>1, OneAtWork DEF ChannelInv, InHand
<1>3. /\ pc' \in [Node -> {"idle", "choose", "send", "resend", "insert", "remove", "reremove",
                           "forget", "unlock"}]
      /\ pc'[n] = "unlock" /\ \A k \in Node : k # n => pc'[k] = "idle"
  BY <1>1, <1>2, GotoOnly
<1>4. \A k \in Node : InHand(k)'
  BY <1>1, <1>2, <1>3 DEF InHand
<1>5. CASE UNCHANGED <<posts, forgotten>> /\ T!Fault
  <2>1. faults' = faults + 1 /\ faults' \in 0..MaxFaults /\ faults' >= faults
    BY <1>5, ChannelFacts DEF T!Fault, T!TelegramConstants
  <2>2. T!TelegramTypeOK'
    BY <1>1, <1>3, <1>5, <2>1, ChannelFacts DEF T!TelegramTypeOK
  <2>3. \A k \in Node : pc[k] # "insert"
    BY <1>1, <1>2
  <2> QED
    BY <1>1, <1>4, <1>5, <2>1, <2>2, <2>3, ChannelRests
<1>6. CASE /\ posts' = {p \in posts : p.id # m} /\ faults' = faults
           /\ forgotten' = [forgotten EXCEPT ![t] = @ + 1]
  <2>1. T!TelegramTypeOK'
    <3>1. posts' \subseteq posts
      BY <1>6
    <3> QED
      BY <1>1, <1>3, <1>6, <3>1, ChannelFacts DEF T!TelegramTypeOK
  <2>2. IdsSound'
    BY <1>1, <1>6 DEF ChannelInv, IdsSound
  <2>3. forgotten' \in [Topic -> Nat] /\ forgotten'[t] = forgotten[t] + 1
        /\ \A u \in Topic \ {t} : forgotten'[u] = forgotten[u]
    BY <1>2, <1>6, ChannelFacts
  <2>4. \A u \in Topic : u # t => (Recorded(u)' <=> Recorded(u))
    BY <1>2, <1>6 DEF Recorded
  <2>5. \A u : ~Inserting(u)
    BY <1>1, <1>2 DEF Inserting
  <2>6. ASSUME NEW u \in Topic
        PROVE sent[u] <= (IF Recorded(u)' \/ Inserting(u)' THEN 1 ELSE 0) + forgotten'[u] + faults
    <3>1. /\ sent[u] <= (IF Recorded(u) \/ Inserting(u) THEN 1 ELSE 0) + forgotten[u] + faults
          /\ sent[u] \in Nat /\ forgotten[u] \in Nat /\ faults \in Nat
      BY ChannelFacts DEF ChannelInv, SendsCounted
    <3> HIDE DEF t
    <3>2. CASE u = t
      BY <2>3, <3>1, <3>2
    <3>3. CASE u # t
      BY <2>3, <2>4, <2>5, <3>1, <3>3
    <3> QED
      BY <3>2, <3>3
  <2>7. SendsCounted'
    BY <1>1, <1>6, <2>3, <2>6, ChannelFacts DEF SendsCounted
  <2>8. Cardinality(Unrecorded') <= faults'
    <3>1. Unrecorded' \subseteq Unrecorded
      BY <1>1, <1>2, <1>6 DEF Unrecorded
    <3> QED
      BY <1>6, <3>1, UnrecordedGrows, ChannelFacts
  <2>9. (Cardinality(Unrecorded) <= faults)'
    BY <2>8
  <2> QED
    BY <1>4, <2>1, <2>2, <2>7, <2>9 DEF ChannelInv
<1> QED
  BY <1>5, <1>6 DEF T!Forget

LEMMA StopsChannel ==
    ASSUME T!TelegramConstants, ChannelInv, NEW n \in Node, T!Unlock(n) \/ T!Crash(n)
    PROVE  ChannelInv'
<1>1. CASE T!Unlock(n)
  BY <1>1, GoneHome DEF T!Unlock
<1>2. CASE T!Crash(n)
  <2>1. faults' = faults + 1 /\ faults' \in 0..MaxFaults
    BY <1>2, ChannelFacts DEF T!Crash, T!Fault, T!TelegramConstants
  <2>2. holder' \in Node \cup {Nobody}
    BY <1>2, ChannelFacts DEF T!Crash
  <2> QED
    BY <1>2, <2>1, <2>2, GoneHome DEF T!Crash
<1> QED
  BY <1>1, <1>2

LEMMA InitChannel == ASSUME T!TelegramConstants, T!Init PROVE ChannelInv
<1>1. Unrecorded = {}
  BY DEF T!Init, Unrecorded
<1>2. Cardinality(Unrecorded) = 0
  BY <1>1, FS_EmptySet
<1>3. T!TelegramTypeOK
  BY DEF T!Init, T!TelegramTypeOK, T!Nothing, T!TelegramConstants
<1>4. IdsSound /\ \A n \in Node : InHand(n)
  BY DEF T!Init, IdsSound, InHand
<1>5. SendsCounted
  BY DEF T!Init, SendsCounted
<1>6. faults = 0
  BY DEF T!Init
<1> QED
  BY <1>2, <1>3, <1>4, <1>5, <1>6 DEF ChannelInv

LEMMA StepChannel ==
    ASSUME T!TelegramConstants, ChannelInv, [T!Next]_(T!vars)
    PROVE  ChannelInv'
<1>1. ASSUME NEW n \in Node, T!Lock(n) \/ T!Step(n) \/ T!Crash(n) PROVE ChannelInv'
  BY <1>1, LockChannel, ChooseChannel, InsertChannel, ForgetChannel, StopsChannel, SendChannel,
     RemoveChannel DEF T!Step
<1>2. ASSUME NEW t \in Topic, T!Topics(t) PROVE ChannelInv'
  BY <1>2, TopicsChannel
<1>3. ASSUME NEW p \in posts, T!Ages(p) PROVE ChannelInv'
  BY <1>3, AgesChannel
<1>4. CASE UNCHANGED T!vars
  <2>1. UNCHANGED <<topic, posts, channel, holder, pc, got, sent, forgotten, lastId, faults>>
    BY <1>4 DEF T!vars
  <2>2. T!TelegramTypeOK'
    BY <2>1, ChannelFacts DEF T!TelegramTypeOK
  <2>3. \A m \in Node : InHand(m)'
    BY <2>1 DEF ChannelInv, InHand, Recorded, Known
  <2> QED
    BY <2>1, <2>2, <2>3, ChannelRests, ChannelFacts
<1> QED
  BY <1>1, <1>2, <1>3, <1>4 DEF T!Next

\* For any number of nodes and topics and whatever fails: a topic is sent once,
\* and again only if its message was forgotten or something failed; and every
\* message of the channel is on record or about to be, but for at most one for each
\* failure (background.rs:876-1045).
THEOREM ChannelStaysConsistent ==
    ASSUME T!TelegramConstants
    PROVE  T!Spec => []ChannelConsistent
<1>1. T!Init => ChannelInv
  BY InitChannel
<1>2. ChannelInv /\ [T!Next]_(T!vars) => ChannelInv'
  BY StepChannel
<1>3. ASSUME ChannelInv PROVE ChannelConsistent
  <2>1. T!NoRepost
    <3> SUFFICES ASSUME NEW t \in Topic PROVE sent[t] <= 1 + forgotten[t] + faults
      BY DEF T!NoRepost
    <3>1. /\ sent[t] <= (IF Recorded(t) \/ Inserting(t) THEN 1 ELSE 0) + forgotten[t] + faults
          /\ sent[t] \in Nat /\ forgotten[t] \in Nat /\ faults \in Nat
      BY <1>3, ChannelFacts DEF ChannelInv, SendsCounted
    <3> QED
      BY <3>1
  <2>2. T!OnRecord
    BY <1>3 DEF ChannelInv, T!OnRecord, Unrecorded, T!Cardinality, Cardinality
  <2> QED
    BY <1>3, <2>1, <2>2 DEF ChannelConsistent, T!ChannelConsistent, ChannelInv
<1> QED
  BY <1>1, <1>2, <1>3, PTL DEF T!Spec

-----------------------------------------------------------------------------
(* The userpics *)

\* A file that a request has written and not set is nobody else's, and young.
Uploading ==
    \A u \in User : upload[u] # NoPhoto =>
        /\ upload[u] \in DOMAIN files /\ files[upload[u]] = 0
        /\ upload[u] \notin logged
        /\ \A v \in User : photo[v] # upload[u] /\ (v # u => upload[v] # upload[u])

\* The job removes old files that were nobody's when it read the rows, nor named
\* in the log when it read that; who has got a picture since is in the log.
Cleaning ==
    /\ job \in {"idle", "list"} => batch = {}
    /\ \A f \in batch : f \in DOMAIN files /\ files[f] = 1 /\ f \notin active
    /\ job = "remove" => batch \cap logged = {}
    /\ job # "idle" => \A u \in User : photo[u] # NoPhoto => photo[u] \in active \cup logged

PicsInv ==
    /\ P!UserpicsTypeOK /\ P!PhotoHasFile /\ P!LoggedStays
    /\ DOMAIN files \subseteq 1..names
    /\ Uploading /\ Cleaning

LEMMA PicsFacts ==
    ASSUME PicsInv
    PROVE  /\ photo \in [User -> P!File \cup {NoPhoto}] /\ upload \in [User -> P!File \cup {NoPhoto}]
           /\ DOMAIN files \subseteq P!File /\ \A f \in DOMAIN files : files[f] \in {0, 1}
           /\ logged \subseteq P!File /\ active \subseteq P!File /\ batch \subseteq P!File
           /\ names \in 0..MaxFiles /\ job \in {"idle", "list", "log", "remove"}
           /\ \A u \in User : photo[u] # NoPhoto => photo[u] \in DOMAIN files
           /\ logged \subseteq DOMAIN files /\ DOMAIN files \subseteq 1..names
  BY DEF PicsInv, P!UserpicsTypeOK, P!PhotoHasFile, P!LoggedStays

LEMMA WritePics ==
    ASSUME P!UserpicsConstants, PicsInv, NEW u \in User, P!Write(u)
    PROVE  PicsInv'
<1> DEFINE new == names + 1
<1>1. /\ upload[u] = NoPhoto /\ names < MaxFiles /\ names' = new /\ files' = P!With(new, 0)
      /\ upload' = [upload EXCEPT ![u] = new]
      /\ UNCHANGED <<photo, logged, job, active, batch>>
  BY DEF P!Write
<1>2. new \in 1..MaxFiles /\ names \in Nat /\ new \notin 1..names /\ new \in 1..new
      /\ 1..names \subseteq 1..new /\ new \in P!File /\ new \in 0..MaxFiles
  BY <1>1, PicsFacts DEF P!UserpicsConstants, P!File
<1> HIDE DEF new
<1>3. /\ DOMAIN files' = DOMAIN files \cup {new} /\ files'[new] = 0
      /\ \A g \in DOMAIN files : files'[g] = files[g]
      /\ new \notin DOMAIN files
  <2>1. new \notin DOMAIN files
    BY <1>2, PicsFacts
  <2>2. files' = [g \in DOMAIN files \cup {new} |-> IF g = new THEN 0 ELSE files[g]]
    BY <1>1 DEF P!With
  <2> QED
    BY <2>1, <2>2
<1>4. /\ \A v \in User : photo[v] # new /\ upload[v] # new
      /\ new # NoPhoto
  BY <1>2, <1>3, PicsFacts DEF PicsInv, Uploading, P!UserpicsConstants
<1>5. upload' \in [User -> P!File \cup {NoPhoto}] /\ upload'[u] = new
      /\ \A v \in User : v # u => upload'[v] = upload[v]
  BY <1>1, <1>2, PicsFacts
<1>6. P!UserpicsTypeOK'
  <2>1. DOMAIN files' \subseteq P!File /\ \A f \in DOMAIN files' : files'[f] \in {0, 1}
    BY <1>2, <1>3, PicsFacts
  <2>2. P!File' = P!File
    BY DEF P!File
  <2> QED
    BY <1>1, <1>2, <1>5, <2>1, <2>2, PicsFacts DEF P!UserpicsTypeOK
<1>7. P!PhotoHasFile' /\ P!LoggedStays' /\ (DOMAIN files \subseteq 1..names)'
  BY <1>1, <1>2, <1>3, PicsFacts DEF P!PhotoHasFile, P!LoggedStays
<1>8. Uploading'
  <2> SUFFICES ASSUME NEW v \in User, upload'[v] # NoPhoto
               PROVE  /\ upload'[v] \in DOMAIN files' /\ files'[upload'[v]] = 0
                      /\ upload'[v] \notin logged
                      /\ \A w \in User : photo[w] # upload'[v] /\ (w # v => upload'[w] # upload'[v])
    BY <1>1 DEF Uploading
  <2>1. CASE v = u
    BY <1>3, <1>4, <1>5, <2>1, PicsFacts
  <2>2. CASE v # u
    <3>1. upload'[v] = upload[v] /\ upload[v] # NoPhoto
      BY <1>5, <2>2
    <3>2. /\ upload[v] \in DOMAIN files /\ files[upload[v]] = 0 /\ upload[v] \notin logged
          /\ \A w \in User : photo[w] # upload[v] /\ (w # v => upload[w] # upload[v])
      BY <3>1 DEF PicsInv, Uploading
    <3> QED
      BY <1>3, <1>4, <1>5, <3>1, <3>2
  <2> QED
    BY <2>1, <2>2
<1>9. Cleaning'
  BY <1>1, <1>3 DEF PicsInv, Cleaning
<1> QED
  BY <1>6, <1>7, <1>8, <1>9 DEF PicsInv

\* A request is done with what it has written.
LEMMA UploadEnds ==
    ASSUME PicsInv, NEW u \in User, upload' = [upload EXCEPT ![u] = NoPhoto],
           \A v \in User : v # u /\ upload[v] # NoPhoto =>
               /\ upload[v] \in DOMAIN files' /\ files'[upload[v]] = 0
               /\ upload[v] \notin logged'
               /\ \A w \in User : photo'[w] # upload[v]
    PROVE  Uploading' /\ upload' \in [User -> P!File \cup {NoPhoto}]
<1>1. upload' \in [User -> P!File \cup {NoPhoto}] /\ upload'[u] = NoPhoto
      /\ \A v \in User : v # u => upload'[v] = upload[v]
  BY PicsFacts
<1>2. \A v, w \in User : upload[v] # NoPhoto /\ w # v => upload[w] # upload[v]
  BY DEF PicsInv, Uploading
<1> QED
  BY <1>1, <1>2 DEF Uploading

LEMMA SetPics ==
    ASSUME PicsInv, NEW u \in User, P!Set(u)
    PROVE  PicsInv'
<1>1. /\ upload[u] # NoPhoto /\ photo' = [photo EXCEPT ![u] = upload[u]]
      /\ logged' = logged \cup ({photo[u], upload[u]} \ {NoPhoto})
      /\ upload' = [upload EXCEPT ![u] = NoPhoto]
      /\ UNCHANGED <<files, names, job, active, batch>>
  BY DEF P!Set
<1>2. /\ upload[u] \in DOMAIN files /\ files[upload[u]] = 0 /\ upload[u] \notin logged
      /\ \A v \in User : v # u => upload[v] # upload[u]
      /\ \A v \in User : upload[v] # NoPhoto => upload[v] \notin logged /\ upload[v] # photo[u]
                                                /\ upload[v] \in DOMAIN files /\ files[upload[v]] = 0
                                                /\ \A w \in User : photo[w] # upload[v]
  BY <1>1 DEF PicsInv, Uploading
<1>3. /\ photo' \in [User -> P!File \cup {NoPhoto}] /\ photo'[u] = upload[u]
      /\ \A v \in User : v # u => photo'[v] = photo[v]
  BY <1>1, PicsFacts
<1>4. Uploading' /\ upload' \in [User -> P!File \cup {NoPhoto}]
  <2>1. ASSUME NEW v \in User, v # u, upload[v] # NoPhoto
        PROVE /\ upload[v] \in DOMAIN files' /\ files'[upload[v]] = 0 /\ upload[v] \notin logged'
              /\ \A w \in User : photo'[w] # upload[v]
    BY <1>1, <1>2, <1>3, <2>1
  <2> QED
    BY <1>1, <2>1, UploadEnds
<1>5. logged' \subseteq DOMAIN files
  BY <1>1, <1>2, PicsFacts
<1>6. P!UserpicsTypeOK'
  <2>1. P!File' = P!File
    BY DEF P!File
  <2>2. logged' \subseteq P!File
    BY <1>5, PicsFacts
  <2> QED
    BY <1>1, <1>3, <1>4, <2>1, <2>2, PicsFacts DEF P!UserpicsTypeOK
<1>7. P!PhotoHasFile' /\ P!LoggedStays' /\ (DOMAIN files \subseteq 1..names)'
  BY <1>1, <1>2, <1>3, <1>5, PicsFacts DEF P!PhotoHasFile, P!LoggedStays
<1>8. Cleaning'
  <2>1. upload[u] \notin batch
    BY <1>2 DEF PicsInv, Cleaning
  <2>2. job = "remove" => photo[u] \notin batch \/ photo[u] = NoPhoto
    BY DEF PicsInv, Cleaning
  <2>3. job = "remove" => batch \cap logged' = {}
    <3>1. job = "remove" => batch \cap logged = {}
      BY DEF PicsInv, Cleaning
    <3> QED
      BY <1>1, <2>1, <2>2, <3>1
  <2>4. job # "idle" => \A v \in User : photo'[v] # NoPhoto => photo'[v] \in active \cup logged'
    <3>1. upload[u] \in logged' /\ logged \subseteq logged'
      BY <1>1
    <3> QED
      BY <1>3, <3>1 DEF PicsInv, Cleaning
  <2> QED
    BY <1>1, <2>3, <2>4 DEF PicsInv, Cleaning
<1> QED
  BY <1>4, <1>6, <1>7, <1>8 DEF PicsInv

LEMMA SetFailsPics ==
    ASSUME PicsInv, NEW u \in User, P!SetFails(u)
    PROVE  PicsInv'
<1>1. /\ upload[u] # NoPhoto /\ files' \in {P!Without({upload[u]}), files}
      /\ upload' = [upload EXCEPT ![u] = NoPhoto]
      /\ UNCHANGED <<photo, logged, names, job, active, batch>>
  BY DEF P!SetFails
<1>2. /\ upload[u] \in DOMAIN files /\ files[upload[u]] = 0 /\ upload[u] \notin logged
      /\ \A v \in User : photo[v] # upload[u] /\ (v # u => upload[v] # upload[u])
      /\ \A v \in User : upload[v] # NoPhoto => upload[v] \notin logged
                                                /\ upload[v] \in DOMAIN files /\ files[upload[v]] = 0
                                                /\ \A w \in User : photo[w] # upload[v]
  BY <1>1 DEF PicsInv, Uploading
<1>3. /\ DOMAIN files' \subseteq DOMAIN files /\ DOMAIN files \ {upload[u]} \subseteq DOMAIN files'
      /\ \A g \in DOMAIN files' : files'[g] = files[g]
  <2>1. CASE files' = files
    BY <2>1
  <2>2. CASE files' = P!Without({upload[u]})
    <3>1. files' = [g \in DOMAIN files \ {upload[u]} |-> files[g]]
      BY <2>2 DEF P!Without
    <3> QED
      BY <3>1
  <2> QED
    BY <1>1, <2>1, <2>2
<1>4. Uploading' /\ upload' \in [User -> P!File \cup {NoPhoto}]
  <2>1. ASSUME NEW v \in User, v # u, upload[v] # NoPhoto
        PROVE /\ upload[v] \in DOMAIN files' /\ files'[upload[v]] = 0 /\ upload[v] \notin logged'
              /\ \A w \in User : photo'[w] # upload[v]
    BY <1>1, <1>2, <1>3, <2>1
  <2> QED
    BY <1>1, <2>1, UploadEnds
<1>5. P!UserpicsTypeOK'
  <2>1. P!File' = P!File
    BY DEF P!File
  <2>2. DOMAIN files' \subseteq P!File /\ \A f \in DOMAIN files' : files'[f] \in {0, 1}
    BY <1>3, PicsFacts
  <2> QED
    BY <1>1, <1>4, <2>1, <2>2, PicsFacts DEF P!UserpicsTypeOK
<1>6. P!PhotoHasFile' /\ P!LoggedStays' /\ (DOMAIN files \subseteq 1..names)'
  BY <1>1, <1>2, <1>3, PicsFacts DEF P!PhotoHasFile, P!LoggedStays
<1>7. Cleaning'
  <2>1. upload[u] \notin batch
    BY <1>2 DEF PicsInv, Cleaning
  <2>2. \A f \in batch : f \in DOMAIN files' /\ files'[f] = 1 /\ f \notin active
    BY <1>3, <2>1 DEF PicsInv, Cleaning
  <2> QED
    BY <1>1, <2>2 DEF PicsInv, Cleaning
<1> QED
  BY <1>4, <1>5, <1>6, <1>7 DEF PicsInv

\* A picture is taken off its user; of a reset the log tells.
LEMMA TakenOff ==
    ASSUME PicsInv, NEW u \in User, P!Reset(u) \/ P!Deregister(u)
    PROVE  PicsInv'
<1>1. /\ photo[u] # NoPhoto /\ photo' = [photo EXCEPT ![u] = NoPhoto]
      /\ logged' \in {logged, logged \cup {photo[u]}}
      /\ UNCHANGED <<files, upload, names, job, active, batch>>
  BY DEF P!Reset, P!Deregister
<1>2. /\ photo' \in [User -> P!File \cup {NoPhoto}] /\ photo'[u] = NoPhoto
      /\ \A v \in User : v # u => photo'[v] = photo[v]
  BY <1>1, PicsFacts
<1>3. logged' \subseteq DOMAIN files /\ logged \subseteq logged' /\ logged' \subseteq logged \cup {photo[u]}
  BY <1>1, PicsFacts
<1>4. P!UserpicsTypeOK'
  <2>1. P!File' = P!File
    BY DEF P!File
  <2>2. logged' \subseteq P!File
    BY <1>3, PicsFacts
  <2> QED
    BY <1>1, <1>2, <2>1, <2>2, PicsFacts DEF P!UserpicsTypeOK
<1>5. P!PhotoHasFile' /\ P!LoggedStays' /\ (DOMAIN files \subseteq 1..names)'
  BY <1>1, <1>2, <1>3, PicsFacts DEF P!PhotoHasFile, P!LoggedStays
<1>6. Uploading'
  <2> SUFFICES ASSUME NEW v \in User, upload[v] # NoPhoto
               PROVE  /\ upload[v] \in DOMAIN files /\ files[upload[v]] = 0
                      /\ upload[v] \notin logged'
                      /\ \A w \in User : photo'[w] # upload[v] /\ (w # v => upload[w] # upload[v])
    BY <1>1 DEF Uploading
  <2>1. /\ upload[v] \in DOMAIN files /\ files[upload[v]] = 0 /\ upload[v] \notin logged
        /\ \A w \in User : photo[w] # upload[v] /\ (w # v => upload[w] # upload[v])
    BY DEF PicsInv, Uploading
  <2> QED
    BY <1>2, <1>3, <2>1
<1>7. Cleaning'
  <2>1. job = "remove" => photo[u] \notin batch
    BY <1>1 DEF PicsInv, Cleaning
  <2>2. job = "remove" => batch \cap logged' = {}
    BY <1>3, <2>1 DEF PicsInv, Cleaning
  <2>3. job # "idle" => \A v \in User : photo'[v] # NoPhoto => photo'[v] \in active \cup logged'
    BY <1>2, <1>3 DEF PicsInv, Cleaning
  <2> QED
    BY <1>1, <2>2, <2>3 DEF PicsInv, Cleaning
<1> QED
  BY <1>4, <1>5, <1>6, <1>7 DEF PicsInv

\* The job reads the rows, then the directory, then the log.
LEMMA JobReads ==
    ASSUME PicsInv, P!ReadActive \/ P!List \/ P!ReadLog
    PROVE  PicsInv'
<1>1. UNCHANGED <<photo, files, logged, upload, names>>
  BY DEF P!ReadActive, P!List, P!ReadLog
<1>2. /\ Uploading' /\ P!PhotoHasFile' /\ P!LoggedStays' /\ (DOMAIN files \subseteq 1..names)'
  BY <1>1 DEF PicsInv, Uploading, P!PhotoHasFile, P!LoggedStays
<1>3. P!File' = P!File
  BY DEF P!File
<1>4. CASE P!ReadActive
  <2>1. /\ job = "idle" /\ job' = "list" /\ batch' = batch
        /\ active' = {photo[u] : u \in User} \ {NoPhoto}
    BY <1>4 DEF P!ReadActive
  <2>2. batch = {}
    BY <2>1 DEF PicsInv, Cleaning
  <2>3. active' \subseteq P!File /\ \A u \in User : photo[u] # NoPhoto => photo[u] \in active'
    BY <2>1, PicsFacts
  <2>4. P!UserpicsTypeOK'
    BY <1>1, <1>3, <2>1, <2>3, PicsFacts DEF P!UserpicsTypeOK
  <2>5. Cleaning'
    BY <1>1, <2>1, <2>2, <2>3 DEF Cleaning
  <2> QED
    BY <1>2, <2>4, <2>5 DEF PicsInv
<1>5. CASE P!List
  <2>1. /\ job = "list" /\ job' = "log" /\ active' = active
        /\ batch' = {f \in DOMAIN files \ active : files[f] = 1}
    BY <1>5 DEF P!List
  <2>2. batch' \subseteq P!File /\ \A f \in batch' : f \in DOMAIN files /\ files[f] = 1 /\ f \notin active
    BY <2>1, PicsFacts
  <2>3. P!UserpicsTypeOK'
    BY <1>1, <1>3, <2>1, <2>2, PicsFacts DEF P!UserpicsTypeOK
  <2>4. Cleaning'
    BY <1>1, <2>1, <2>2 DEF PicsInv, Cleaning
  <2> QED
    BY <1>2, <2>3, <2>4 DEF PicsInv
<1>6. CASE P!ReadLog
  <2>1. job = "log" /\ job' = "remove" /\ active' = active /\ batch' = batch \ logged
    BY <1>6 DEF P!ReadLog
  <2>2. P!UserpicsTypeOK'
    BY <1>1, <1>3, <2>1, PicsFacts DEF P!UserpicsTypeOK
  <2>3. Cleaning'
    BY <1>1, <2>1 DEF PicsInv, Cleaning
  <2> QED
    BY <1>2, <2>2, <2>3 DEF PicsInv
<1> QED
  BY <1>4, <1>5, <1>6

\* What the job removes is old, so of no request at work, and nobody's: whose
\* picture it was not in the rows, the log names.
LEMMA JobRemoves ==
    ASSUME PicsInv, P!RemoveFiles
    PROVE  PicsInv'
<1>1. /\ job = "remove"
      /\ UNCHANGED <<photo, logged, upload, names>>
  BY DEF P!RemoveFiles
<1>2. P!File' = P!File
  BY DEF P!File
<1>3. CASE batch = {}
  <2>1. active' = {} /\ job' = "idle" /\ files' = files /\ batch' = batch
    BY <1>3 DEF P!RemoveFiles
  <2>2. P!UserpicsTypeOK'
    BY <1>1, <1>2, <2>1, PicsFacts DEF P!UserpicsTypeOK
  <2>3. Uploading' /\ P!PhotoHasFile' /\ P!LoggedStays' /\ (DOMAIN files \subseteq 1..names)'
    BY <1>1, <2>1 DEF PicsInv, Uploading, P!PhotoHasFile, P!LoggedStays
  <2>4. Cleaning'
    BY <1>3, <2>1 DEF Cleaning
  <2> QED
    BY <2>2, <2>3, <2>4 DEF PicsInv
<1>4. CASE batch # {}
  <2>1. PICK f \in batch : /\ files' = P!Without({f}) /\ batch' = batch \ {f}
                           /\ UNCHANGED <<active, job>>
    BY <1>4 DEF P!RemoveFiles
  <2>2. files' = [g \in DOMAIN files \ {f} |-> files[g]]
    BY <2>1 DEF P!Without
  <2>3. DOMAIN files' = DOMAIN files \ {f} /\ \A g \in DOMAIN files' : files'[g] = files[g]
    BY <2>2
  <2>4. f \in DOMAIN files /\ files[f] = 1 /\ f \notin active /\ f \notin logged
    BY <1>1 DEF PicsInv, Cleaning
  <2>5. \A u \in User : photo[u] # NoPhoto => photo[u] # f
    BY <1>1, <2>4 DEF PicsInv, Cleaning
  <2>6. \A u \in User : upload[u] # NoPhoto => upload[u] # f
    BY <2>4 DEF PicsInv, Uploading
  <2>7. P!UserpicsTypeOK'
    <3>1. DOMAIN files' \subseteq P!File /\ \A g \in DOMAIN files' : files'[g] \in {0, 1}
      BY <2>3, PicsFacts
    <3> QED
      BY <1>1, <1>2, <2>1, <3>1, PicsFacts DEF P!UserpicsTypeOK
  <2>8. P!PhotoHasFile' /\ P!LoggedStays' /\ (DOMAIN files \subseteq 1..names)'
    BY <1>1, <2>3, <2>4, <2>5, PicsFacts DEF P!PhotoHasFile, P!LoggedStays
  <2>9. Uploading'
    BY <1>1, <2>3, <2>6 DEF PicsInv, Uploading
  <2>10. Cleaning'
    <3>1. \A g \in batch' : g \in DOMAIN files' /\ files'[g] = 1 /\ g \notin active
      BY <2>1, <2>3 DEF PicsInv, Cleaning
    <3> QED
      BY <1>1, <2>1, <3>1 DEF PicsInv, Cleaning
  <2> QED
    BY <2>7, <2>8, <2>9, <2>10 DEF PicsInv
<1> QED
  BY <1>3, <1>4

\* Files and the log grow old.
LEMMA TimePasses ==
    ASSUME PicsInv, NEW f \in P!File, P!HourPasses(f) \/ P!YearsPass(f)
    PROVE  PicsInv'
<1>1. UNCHANGED <<photo, upload, names, job, active, batch>>
  BY DEF P!HourPasses, P!YearsPass
<1>2. P!File' = P!File
  BY DEF P!File
<1>3. CASE P!HourPasses(f)
  <2>1. /\ f \in DOMAIN files /\ files[f] = 0 /\ \A u \in User : upload[u] # f
        /\ files' = P!With(f, 1) /\ logged' = logged
    BY <1>3 DEF P!HourPasses
  <2>2. files' = [g \in DOMAIN files \cup {f} |-> IF g = f THEN 1 ELSE files[g]]
    BY <2>1 DEF P!With
  <2>3. /\ DOMAIN files' = DOMAIN files /\ files'[f] = 1
        /\ \A g \in DOMAIN files : g # f => files'[g] = files[g]
    BY <2>1, <2>2
  <2>4. P!UserpicsTypeOK'
    <3>1. DOMAIN files' \subseteq P!File /\ \A g \in DOMAIN files' : files'[g] \in {0, 1}
      BY <2>3, PicsFacts
    <3> QED
      BY <1>1, <1>2, <2>1, <3>1, PicsFacts DEF P!UserpicsTypeOK
  <2>5. P!PhotoHasFile' /\ P!LoggedStays' /\ (DOMAIN files \subseteq 1..names)'
    BY <1>1, <2>1, <2>3, PicsFacts DEF P!PhotoHasFile, P!LoggedStays
  <2>6. Uploading'
    BY <1>1, <2>1, <2>3 DEF PicsInv, Uploading
  <2>7. Cleaning'
    <3>1. \A g \in batch : g \in DOMAIN files' /\ files'[g] = 1 /\ g \notin active
      BY <2>3 DEF PicsInv, Cleaning
    <3> QED
      BY <1>1, <2>1, <3>1 DEF PicsInv, Cleaning
  <2> QED
    BY <2>4, <2>5, <2>6, <2>7 DEF PicsInv
<1>4. CASE P!YearsPass(f)
  <2>1. job = "idle" /\ logged' = logged \ {f} /\ files' = files
    BY <1>4 DEF P!YearsPass
  <2>2. P!UserpicsTypeOK'
    BY <1>1, <1>2, <2>1, PicsFacts DEF P!UserpicsTypeOK
  <2>3. P!PhotoHasFile' /\ P!LoggedStays' /\ (DOMAIN files \subseteq 1..names)'
    BY <1>1, <2>1, PicsFacts DEF P!PhotoHasFile, P!LoggedStays
  <2>4. Uploading' /\ Cleaning'
    BY <1>1, <2>1 DEF PicsInv, Uploading, Cleaning
  <2> QED
    BY <2>2, <2>3, <2>4 DEF PicsInv
<1> QED
  BY <1>3, <1>4

LEMMA InitPics ==
    ASSUME P!UserpicsConstants, P!Init
    PROVE  PicsInv
<1>1. /\ photo = [u \in User |-> NoPhoto] /\ files = <<>> /\ logged = {}
      /\ upload = [u \in User |-> NoPhoto] /\ names = 0
      /\ job = "idle" /\ active = {} /\ batch = {}
  BY DEF P!Init
<1>2. DOMAIN files = {}
  BY <1>1
<1>3. photo \in [User -> P!File \cup {NoPhoto}] /\ upload \in [User -> P!File \cup {NoPhoto}]
      /\ \A u \in User : photo[u] = NoPhoto /\ upload[u] = NoPhoto
  BY <1>1
<1>4. names \in 0..MaxFiles
  BY <1>1 DEF P!UserpicsConstants
<1>5. P!UserpicsTypeOK
  BY <1>1, <1>2, <1>3, <1>4 DEF P!UserpicsTypeOK
<1> QED
  BY <1>1, <1>2, <1>3, <1>5 DEF PicsInv, P!PhotoHasFile, P!LoggedStays, Uploading, Cleaning

LEMMA StepPics ==
    ASSUME P!UserpicsConstants, PicsInv, [P!Next]_(P!vars)
    PROVE  PicsInv'
<1>1. ASSUME NEW u \in User, P!Write(u) \/ P!Set(u) \/ P!SetFails(u) \/ P!Reset(u) \/ P!Deregister(u)
      PROVE  PicsInv'
  BY <1>1, WritePics, SetPics, SetFailsPics, TakenOff
<1>2. CASE P!JobStep
  BY <1>2, JobReads, JobRemoves DEF P!JobStep
<1>3. ASSUME NEW f \in P!File, P!HourPasses(f) \/ P!YearsPass(f)
      PROVE  PicsInv'
  BY <1>3, TimePasses
<1>4. CASE UNCHANGED P!vars
  <2>1. UNCHANGED <<photo, files, logged, upload, names, job, active, batch>>
    BY <1>4 DEF P!vars
  <2>2. P!UserpicsTypeOK' /\ P!PhotoHasFile' /\ P!LoggedStays'
    BY <2>1 DEF PicsInv, P!UserpicsTypeOK, P!PhotoHasFile, P!LoggedStays, P!File
  <2> QED
    BY <2>1, <2>2 DEF PicsInv, Uploading, Cleaning
<1> QED
  BY <1>1, <1>2, <1>3, <1>4 DEF P!Next

\* Whoever has a picture has its file, and what the log names can be looked at:
\* the nightly job, which decides from rows it read before the pictures it
\* finds in the directory were set, removes neither (background.rs:1073-1159).
THEOREM PhotosAlwaysStay ==
    ASSUME P!UserpicsConstants
    PROVE  P!Spec => []PhotosStay
<1>1. P!Init => PicsInv
  BY InitPics
<1>2. PicsInv /\ [P!Next]_(P!vars) => PicsInv'
  BY StepPics
<1>3. PicsInv => PhotosStay
  BY DEF PicsInv, PhotosStay, P!PhotosStay
<1> QED
  BY <1>1, <1>2, <1>3, PTL DEF P!Spec

-----------------------------------------------------------------------------
(* Sums over finite sets *)

\* Induction as a fact about sets: the natural numbers that have what the next
\* one inherits, and the subsets that have what they inherit from all smaller ones.
LEMMA NaturalsReached ==
    ASSUME NEW Q, 0 \in Q, \A n \in Nat : n \in Q => n + 1 \in Q
    PROVE  \A n \in Nat : n \in Q
<1> DEFINE Bad == {n \in Nat : n \notin Q}
<1> SUFFICES ASSUME Bad # {} PROVE FALSE
  OBVIOUS
<1>1. PICK x \in Bad : \A y \in Bad : ~(<<y, x>> \in OpToRel(<, Nat))
  BY WFMin, NatLessThanWellFounded
<1>2. \A y \in Bad : ~(y < x)
  BY <1>1 DEF OpToRel
<1>3. x \in Nat /\ x \notin Q /\ x # 0
  OBVIOUS
<1>4. x - 1 \in Nat /\ x - 1 < x /\ (x - 1) + 1 = x
  BY <1>3
<1>5. x - 1 \in Q
  BY <1>2, <1>4
<1> QED
  BY <1>3, <1>4, <1>5

LEMMA SubsetsReached ==
    ASSUME NEW U, IsFiniteSet(U), NEW Q, {} \in Q,
           \A V \in SUBSET U : V # {} /\ (\A x \in V : V \ {x} \in Q) => V \in Q
    PROVE  \A V \in SUBSET U : V \in Q
<1> DEFINE Small == {n \in Nat : \A V \in SUBSET U : Cardinality(V) <= n => V \in Q}
<1>0. \A V \in SUBSET U : IsFiniteSet(V) /\ Cardinality(V) \in Nat
  BY FS_Subset, FS_CardinalityType
<1>1. \A V \in SUBSET U : \A x \in V : Cardinality(V \ {x}) = Cardinality(V) - 1
  BY <1>0, FS_RemoveElement
<1>2. \A V \in SUBSET U : Cardinality(V) = 0 => V = {}
  BY <1>0, FS_EmptySet
<1>3. 0 \in Small
  <2>1. \A V \in SUBSET U : Cardinality(V) <= 0 => V = {}
    BY <1>0, <1>2
  <2> QED
    BY <2>1
<1>4. ASSUME NEW n \in Nat, n \in Small PROVE n + 1 \in Small
  <2> SUFFICES ASSUME NEW V \in SUBSET U, Cardinality(V) <= n + 1 PROVE V \in Q
    OBVIOUS
  <2>1. \A x \in V : V \ {x} \in SUBSET U /\ Cardinality(V \ {x}) <= n
    BY <1>0, <1>1
  <2>2. \A x \in V : V \ {x} \in Q
    BY <1>4, <2>1
  <2> QED
    BY <2>2
<1>5. \A n \in Nat : n \in Small
  <2> HIDE DEF Small
  <2> QED BY <1>3, <1>4, NaturalsReached
<1> QED
  BY <1>0, <1>5

\* The sum of w over the subsets of U, as a fold takes them apart.
Any(s) == CHOOSE x \in s : TRUE
IsSum(g, U, w) ==
    g = [s \in SUBSET U |-> IF s = {} THEN 0 ELSE w[Any(s)] + g[s \ {Any(s)}]]
Sum(U, w) == (CHOOSE g : IsSum(g, U, w))[U]

LEMMA AnyOf == \A s : s # {} => Any(s) \in s
  BY DEF Any

LEMMA SumExists ==
    ASSUME NEW U, IsFiniteSet(U), NEW w
    PROVE  \E g : IsSum(g, U, w)
<1> DEFINE F(f, s) == IF s = {} THEN 0 ELSE w[Any(s)] + f[s \ {Any(s)}]
           Q == {n \in Nat : \E f : \A s \in SUBSET U : Cardinality(s) <= n => f[s] = F(f, s)}
<1>0. \A s \in SUBSET U : IsFiniteSet(s) /\ Cardinality(s) \in Nat /\ Cardinality(s) <= Cardinality(U)
  BY FS_Subset, FS_CardinalityType
<1>1. \A s \in SUBSET U : s # {} => /\ s \ {Any(s)} \in SUBSET U
                                    /\ Cardinality(s \ {Any(s)}) = Cardinality(s) - 1
  BY <1>0, FS_RemoveElement, AnyOf
<1>2. 0 \in Q
  <2> DEFINE f == [s \in SUBSET U |-> 0]
  <2>1. \A s \in SUBSET U : Cardinality(s) <= 0 => s = {}
    BY <1>0, FS_EmptySet
  <2>2. \A s \in SUBSET U : Cardinality(s) <= 0 => f[s] = F(f, s)
    BY <2>1
  <2> QED
    BY <2>2
<1>3. ASSUME NEW n \in Nat, n \in Q PROVE n + 1 \in Q
  <2>1. PICK f : \A s \in SUBSET U : Cardinality(s) <= n => f[s] = F(f, s)
    BY <1>3
  <2> DEFINE h == [s \in SUBSET U |-> F(f, s)]
  <2>2. \A s \in SUBSET U : Cardinality(s) <= n => h[s] = f[s]
    BY <2>1
  <2>3. ASSUME NEW s \in SUBSET U, Cardinality(s) <= n + 1, s # {} PROVE h[s] = F(h, s)
    <3>1. h[s \ {Any(s)}] = f[s \ {Any(s)}]
      <4>1. s \ {Any(s)} \in SUBSET U /\ Cardinality(s \ {Any(s)}) <= n
        BY <1>0, <1>1, <2>3
      <4> HIDE DEF h
      <4> QED BY <4>1, <2>2
    <3>2. h[s] = F(f, s)
      OBVIOUS
    <3> HIDE DEF h
    <3> QED BY <3>1, <3>2
  <2>4. \A s \in SUBSET U : Cardinality(s) <= n + 1 => h[s] = F(h, s)
    <3> SUFFICES ASSUME NEW s \in SUBSET U, Cardinality(s) <= n + 1 PROVE h[s] = F(h, s)
      OBVIOUS
    <3>1. CASE s = {}
      BY <3>1
    <3>2. CASE s # {}
      BY <3>2, <2>3
    <3> QED
      BY <3>1, <3>2
  <2>5. n + 1 \in Nat
    OBVIOUS
  <2>6. \E d : \A s \in SUBSET U : Cardinality(s) <= n + 1 => d[s] = F(d, s)
    <3> HIDE DEF h
    <3> QED BY <2>4, Zenon
  <2> HIDE DEF F
  <2> QED
    BY <2>5, <2>6
<1>4. Cardinality(U) \in Q
  <2>1. \A n \in Nat : n \in Q
    <3> HIDE DEF Q
    <3> QED BY <1>2, <1>3, NaturalsReached
  <2> QED
    BY <2>1, FS_CardinalityType
<1>5. PICK f : \A s \in SUBSET U : f[s] = F(f, s)
  BY <1>0, <1>4
<1> DEFINE g == [s \in SUBSET U |-> f[s]]
<1>6. \A s \in SUBSET U : s # {} => s \ {Any(s)} \in SUBSET U
  BY <1>1
<1>7. \A s \in SUBSET U : F(f, s) = F(g, s)
  BY <1>6
<1>8. g = [s \in SUBSET U |-> F(g, s)]
  <2>1. \A s \in SUBSET U : g[s] = F(g, s)
    BY <1>5, <1>7
  <2>2. g = [s \in SUBSET U |-> g[s]]
    OBVIOUS
  <2> HIDE DEF g
  <2> QED BY <2>1, <2>2
<1>9. IsSum(g, U, w)
  <2> HIDE DEF g
  <2> QED BY <1>8 DEF IsSum
<1> QED
  BY <1>9

LEMMA SumsAgree ==
    ASSUME NEW U, NEW V \in SUBSET U, IsFiniteSet(U), NEW v, NEW w, \A x \in V : v[x] = w[x],
           NEW g, NEW h, IsSum(g, U, v), IsSum(h, V, w)
    PROVE  g[V] = h[V]
<1> DEFINE Q == {s \in SUBSET V : g[s] = h[s]}
<1>1. g[{}] = 0 /\ h[{}] = 0
  BY DEF IsSum
<1>2. ASSUME NEW s \in SUBSET V, s # {}, \A x \in s : s \ {x} \in Q PROVE s \in Q
  <2>1. Any(s) \in s /\ Any(s) \in V /\ s \ {Any(s)} \in Q
    BY <1>2, AnyOf
  <2>2. g[s] = v[Any(s)] + g[s \ {Any(s)}] /\ h[s] = w[Any(s)] + h[s \ {Any(s)}]
    BY <1>2 DEF IsSum
  <2> QED
    BY <2>1, <2>2
<1>3. V \in Q
  <2>1. IsFiniteSet(V) /\ {} \in Q
    BY <1>1, FS_Subset
  <2>2. \A s \in SUBSET V : s # {} /\ (\A x \in s : s \ {x} \in Q) => s \in Q
    BY <1>2
  <2>3. V \in SUBSET V
    OBVIOUS
  <2> HIDE DEF Q
  <2> QED BY <2>1, <2>2, <2>3, SubsetsReached
<1> QED
  BY <1>3

LEMMA SumIs ==
    ASSUME NEW U, IsFiniteSet(U), NEW w, NEW g, IsSum(g, U, w)
    PROVE  g[U] = Sum(U, w)
<1> DEFINE h == CHOOSE f : IsSum(f, U, w)
<1>1. IsSum(h, U, w)
  BY SumExists, Zenon
<1>2. Sum(U, w) = h[U]
  BY DEF Sum
<1> HIDE DEF h
<1>3. U \in SUBSET U
  OBVIOUS
<1> QED
  BY <1>1, <1>2, <1>3, SumsAgree

LEMMA SumOfAny ==
    ASSUME NEW U, IsFiniteSet(U), U # {}, NEW w
    PROVE  Sum(U, w) = w[Any(U)] + Sum(U \ {Any(U)}, w)
<1> DEFINE V == U \ {Any(U)}
<1>1. PICK g : IsSum(g, U, w)
  BY SumExists
<1>2. PICK h : IsSum(h, V, w)
  BY SumExists, FS_Subset
<1>3. g[U] = Sum(U, w) /\ h[V] = Sum(V, w)
  BY <1>1, <1>2, SumIs, FS_Subset
<1>4. g[U] = w[Any(U)] + g[V]
  BY <1>1 DEF IsSum
<1>5. g[V] = h[V]
  <2>1. V \in SUBSET U
    OBVIOUS
  <2> HIDE DEF V
  <2> QED BY <1>1, <1>2, <2>1, SumsAgree
<1> QED
  BY <1>3, <1>4, <1>5

LEMMA SumOfNone == ASSUME NEW w PROVE Sum({}, w) = 0
<1>1. IsFiniteSet({})
  BY FS_EmptySet
<1>2. PICK g : IsSum(g, {}, w)
  BY <1>1, SumExists
<1>3. g[{}] = 0
  BY <1>2 DEF IsSum
<1> QED
  BY <1>1, <1>2, <1>3, SumIs

LEMMA SumIsInteger ==
    ASSUME NEW U, IsFiniteSet(U), NEW w, \A x \in U : w[x] \in Int
    PROVE  Sum(U, w) \in Int
<1> DEFINE Q == {s \in SUBSET U : Sum(s, w) \in Int}
<1>1. {} \in Q
  BY SumOfNone
<1>2. ASSUME NEW s \in SUBSET U, s # {}, \A x \in s : s \ {x} \in Q PROVE s \in Q
  <2>1. IsFiniteSet(s) /\ Any(s) \in s
    BY <1>2, AnyOf, FS_Subset
  <2>2. Sum(s, w) = w[Any(s)] + Sum(s \ {Any(s)}, w)
    BY <1>2, <2>1, SumOfAny
  <2> QED
    BY <1>2, <2>1, <2>2
<1>3. U \in Q
  <2>1. \A V \in SUBSET U : V # {} /\ (\A x \in V : V \ {x} \in Q) => V \in Q
    BY <1>2
  <2>2. U \in SUBSET U
    OBVIOUS
  <2> HIDE DEF Q
  <2> QED BY <1>1, <2>1, <2>2, SubsetsReached
<1> QED
  BY <1>3

\* Any element may be taken first.
LEMMA SumTakes ==
    ASSUME NEW U, IsFiniteSet(U), NEW w, \A x \in U : w[x] \in Int, NEW k \in U
    PROVE  Sum(U, w) = w[k] + Sum(U \ {k}, w)
<1> DEFINE Q == {s \in SUBSET U : \A x \in s : Sum(s, w) = w[x] + Sum(s \ {x}, w)}
<1>1. {} \in Q
  OBVIOUS
<1>2. ASSUME NEW s \in SUBSET U, s # {}, \A x \in s : s \ {x} \in Q PROVE s \in Q
  <2> DEFINE a == Any(s)
  <2>1. a \in s /\ IsFiniteSet(s) /\ \A V \in SUBSET s : IsFiniteSet(V)
    BY <1>2, AnyOf, FS_Subset
  <2>2. Sum(s, w) = w[a] + Sum(s \ {a}, w)
    BY <1>2, <2>1, SumOfAny
  <2>3. \A V \in SUBSET s : Sum(V, w) \in Int
    BY <2>1, SumIsInteger
  <2> HIDE DEF a
  <2>4. ASSUME NEW x \in s, x # a PROVE Sum(s, w) = w[x] + Sum(s \ {x}, w)
    <3>1. Sum(s \ {a}, w) = w[x] + Sum((s \ {a}) \ {x}, w)
      BY <1>2, <2>1, <2>4
    <3>2. Sum(s \ {x}, w) = w[a] + Sum((s \ {x}) \ {a}, w)
      BY <1>2, <2>1, <2>4
    <3>3. (s \ {a}) \ {x} = (s \ {x}) \ {a} /\ (s \ {a}) \ {x} \in SUBSET s
      OBVIOUS
    <3> DEFINE rest == Sum((s \ {a}) \ {x}, w)
    <3>4. rest \in Int /\ w[a] \in Int /\ w[x] \in Int
      BY <2>1, <2>3, <3>3
    <3>5. Sum(s, w) = w[a] + (w[x] + rest) /\ Sum(s \ {x}, w) = w[a] + rest
      BY <2>2, <3>1, <3>2, <3>3
    <3> HIDE DEF rest
    <3> QED
      BY <3>4, <3>5
  <2> QED
    BY <2>2, <2>4
<1>3. U \in Q
  <2>1. \A V \in SUBSET U : V # {} /\ (\A x \in V : V \ {x} \in Q) => V \in Q
    BY <1>2
  <2>2. U \in SUBSET U
    OBVIOUS
  <2> HIDE DEF Q
  <2> QED BY <1>1, <2>1, <2>2, SubsetsReached
<1> QED
  BY <1>3

LEMMA SumSame ==
    ASSUME NEW U, IsFiniteSet(U), NEW v, NEW w, \A x \in U : v[x] = w[x]
    PROVE  Sum(U, v) = Sum(U, w)
<1>1. PICK g : IsSum(g, U, v)
  BY SumExists
<1>2. PICK h : IsSum(h, U, w)
  BY SumExists
<1>3. U \in SUBSET U
  OBVIOUS
<1>4. g[U] = h[U]
  BY <1>1, <1>2, <1>3, SumsAgree
<1> QED
  BY <1>1, <1>2, <1>4, SumIs

\* What changes in one place changes the sum by as much.
LEMMA SumChanges ==
    ASSUME NEW U, IsFiniteSet(U), NEW v, NEW w, \A x \in U : v[x] \in Int /\ w[x] \in Int,
           NEW k \in U, \A x \in U \ {k} : v[x] = w[x]
    PROVE  Sum(U, w) = Sum(U, v) + (w[k] - v[k])
<1>1. Sum(U, v) = v[k] + Sum(U \ {k}, v) /\ Sum(U, w) = w[k] + Sum(U \ {k}, w)
  BY SumTakes
<1>2. Sum(U \ {k}, v) = Sum(U \ {k}, w) /\ Sum(U \ {k}, v) \in Int
  BY SumSame, SumIsInteger, FS_Subset
<1> QED
  BY <1>1, <1>2

-----------------------------------------------------------------------------
(* The counters of advertisements *)

Counts == [Path -> Nat]

CountersTyped ==
    /\ memory \in [Server -> Counts] /\ taken \in [Server -> Counts]
    /\ todo \in [Server -> SUBSET Path]
    /\ worker \in [Server -> {"wait", "flush", "last", "done", "dead"}]
    /\ server \in [Server -> {"up", "draining", "down"}]
    /\ table \in Counts /\ counted \in Counts /\ again \in Counts
    /\ lost \in Counts /\ late \in Counts
    /\ lock \in [Path -> Server \cup {A!NoNode}]
    /\ aborted \in BOOLEAN /\ failures \in Nat

\* A worker is in a transaction exactly as long as it has a batch, of which it
\* has yet to write what it has not locked.
FlushSound ==
    /\ \A n \in Server : /\ ~A!Flushing(n) => taken[n] = A!Empty
                         /\ \A p \in todo[n] : taken[n][p] > 0
    /\ \A p \in Path : lock[p] # A!NoNode => p \notin todo[lock[p]] /\ taken[lock[p]][p] > 0

\* The worker ends after the signal, and with the process at the latest.
EndsSound ==
    \A n \in Server : /\ worker[n] \in {"last", "done"} => server[n] = "draining"
                      /\ worker[n] = "dead" <=> server[n] = "down"

\* What a process has not written yet, and what it has counted since its worker
\* took the last batch, which nothing will write any more.
InProcess(p) == [n \in Server |-> memory[n][p] + taken[n][p]]
TooLate(p) == [n \in Server |-> IF worker[n] \in {"last", "done"} THEN memory[n][p] ELSE 0]

Conserved ==
    \A p \in Path : table[p] + Sum(Server, InProcess(p)) + lost[p] = counted[p] + again[p]
LateIsLost ==
    failures = 0 /\ ~aborted => \A p \in Path : lost[p] + Sum(Server, TooLate(p)) <= late[p]

CountersInv == CountersTyped /\ FlushSound /\ EndsSound /\ Conserved /\ LateIsLost

LEMMA InMemoryIsSum ==
    ASSUME A!CounterConstants, NEW p \in Path
    PROVE  A!InMemory(p) = Sum(Server, InProcess(p))
<1> DEFINE w == InProcess(p)
           F(g) == [s \in SUBSET Server |->
                      IF s = {} THEN 0 ELSE memory[Any(s)][p] + taken[Any(s)][p] + g[s \ {Any(s)}]]
           it == CHOOSE g : g = F(g)
<1>0. IsFiniteSet(Server)
  BY DEF A!CounterConstants, A!IsFiniteSet, IsFiniteSet
<1>1. A!InMemory(p) = it[Server]
  BY DEF A!InMemory, A!MapThenSumSet, A!MapThenFoldSet, Any
<1>2. PICK h : IsSum(h, Server, w)
  BY <1>0, SumExists
<1>3. \A s \in SUBSET Server : s # {} => w[Any(s)] = memory[Any(s)][p] + taken[Any(s)][p]
  BY AnyOf DEF InProcess
<1>4. \A g : F(g) = [s \in SUBSET Server |-> IF s = {} THEN 0 ELSE w[Any(s)] + g[s \ {Any(s)}]]
  <2> HIDE DEF w
  <2> QED BY <1>3
<1>5. h = F(h)
  <2> HIDE DEF w
  <2> QED BY <1>2, <1>4 DEF IsSum
<1>6. it = F(it)
  <2> HIDE DEF F
  <2> QED BY <1>5, Zenon
<1>7. IsSum(it, Server, w)
  <2> HIDE DEF it, w
  <2> QED BY <1>4, <1>6 DEF IsSum
<1>8. it[Server] = Sum(Server, w)
  <2> HIDE DEF it, w
  <2> QED BY <1>0, <1>7, SumIs
<1> QED
  BY <1>1, <1>8

\* A step of one process changes each sum by what it changes itself.
LEMMA ProcessChanges ==
    ASSUME A!CounterConstants, CountersTyped, CountersTyped', NEW n \in Server, NEW p \in Path,
           \A m \in Server \ {n} : memory'[m] = memory[m] /\ taken'[m] = taken[m]
                                   /\ worker'[m] = worker[m]
    PROVE  /\ Sum(Server, InProcess(p)) \in Int /\ Sum(Server, InProcess(p))' \in Int
           /\ Sum(Server, TooLate(p)) \in Int /\ Sum(Server, TooLate(p))' \in Int
           /\ Sum(Server, InProcess(p))' = Sum(Server, InProcess(p))
                + ((memory'[n][p] + taken'[n][p]) - (memory[n][p] + taken[n][p]))
           /\ Sum(Server, TooLate(p))' = Sum(Server, TooLate(p))
                + ((IF worker'[n] \in {"last", "done"} THEN memory'[n][p] ELSE 0)
                    - (IF worker[n] \in {"last", "done"} THEN memory[n][p] ELSE 0))
<1> DEFINE v == InProcess(p)  w == InProcess(p)'  x == TooLate(p)  y == TooLate(p)'
<1>0. IsFiniteSet(Server)
  BY DEF A!CounterConstants, A!IsFiniteSet, IsFiniteSet
<1>1. \A m \in Server : /\ memory[m][p] \in Nat /\ memory'[m][p] \in Nat
                        /\ taken[m][p] \in Nat /\ taken'[m][p] \in Nat
  BY DEF CountersTyped, Counts
<1>2. \A m \in Server : v[m] = memory[m][p] + taken[m][p] /\ w[m] = memory'[m][p] + taken'[m][p]
  BY DEF InProcess
<1>3. \A m \in Server : /\ x[m] = (IF worker[m] \in {"last", "done"} THEN memory[m][p] ELSE 0)
                        /\ y[m] = (IF worker'[m] \in {"last", "done"} THEN memory'[m][p] ELSE 0)
  BY DEF TooLate
<1>4. Sum(Server, InProcess(p))' = Sum(Server, w) /\ Sum(Server, TooLate(p))' = Sum(Server, y)
  BY DEF Sum, IsSum
<1> HIDE DEF v, w, x, y
<1>5. \A m \in Server : v[m] \in Int /\ w[m] \in Int /\ x[m] \in Int /\ y[m] \in Int
  BY <1>1, <1>2, <1>3
<1>6. \A m \in Server \ {n} : v[m] = w[m] /\ x[m] = y[m]
  BY <1>2, <1>3
<1>7. /\ Sum(Server, v) \in Int /\ Sum(Server, w) \in Int
      /\ Sum(Server, x) \in Int /\ Sum(Server, y) \in Int
  BY <1>0, <1>5, SumIsInteger
<1>8. Sum(Server, w) = Sum(Server, v) + (w[n] - v[n])
  BY <1>0, <1>5, <1>6, SumChanges
<1>9. Sum(Server, y) = Sum(Server, x) + (y[n] - x[n])
  BY <1>0, <1>5, <1>6, SumChanges
<1> QED
  BY <1>2, <1>3, <1>4, <1>7, <1>8, <1>9 DEF v, x

\* What a step of one process has to keep.
LEMMA CountersStep ==
    ASSUME A!CounterConstants, CountersInv, CountersTyped', FlushSound', EndsSound',
           NEW n \in Server,
           \A m \in Server \ {n} : memory'[m] = memory[m] /\ taken'[m] = taken[m]
                                   /\ worker'[m] = worker[m],
           \A p \in Path :
              table'[p] + (memory'[n][p] + taken'[n][p]) + lost'[p] + counted[p] + again[p]
                = table[p] + (memory[n][p] + taken[n][p]) + lost[p] + counted'[p] + again'[p],
           failures' = 0 /\ ~aborted' =>
              /\ failures = 0 /\ ~aborted
              /\ \A p \in Path :
                   lost'[p] + (IF worker'[n] \in {"last", "done"} THEN memory'[n][p] ELSE 0) + late[p]
                     <= lost[p] + (IF worker[n] \in {"last", "done"} THEN memory[n][p] ELSE 0) + late'[p]
    PROVE  CountersInv'
<1>0. CountersTyped
  BY DEF CountersInv
<1>1. \A p \in Path : /\ table[p] \in Nat /\ table'[p] \in Nat /\ lost[p] \in Nat /\ lost'[p] \in Nat
                      /\ counted[p] \in Nat /\ counted'[p] \in Nat
                      /\ again[p] \in Nat /\ again'[p] \in Nat
                      /\ late[p] \in Nat /\ late'[p] \in Nat
                      /\ memory[n][p] \in Nat /\ memory'[n][p] \in Nat
                      /\ taken[n][p] \in Nat /\ taken'[n][p] \in Nat
  BY <1>0 DEF CountersTyped, Counts
<1>2. ASSUME NEW p \in Path
      PROVE  table'[p] + Sum(Server, InProcess(p))' + lost'[p] = counted'[p] + again'[p]
  <2>1. table[p] + Sum(Server, InProcess(p)) + lost[p] = counted[p] + again[p]
    BY DEF CountersInv, Conserved
  <2> DEFINE was == memory[n][p] + taken[n][p]
             is == memory'[n][p] + taken'[n][p]
  <2>2. was \in Nat /\ is \in Nat
    BY <1>1
  <2>3. table'[p] + is + lost'[p] + counted[p] + again[p]
          = table[p] + was + lost[p] + counted'[p] + again'[p]
    OBVIOUS
  <2>4. /\ Sum(Server, InProcess(p)) \in Int /\ Sum(Server, InProcess(p))' \in Int
        /\ Sum(Server, InProcess(p))' = Sum(Server, InProcess(p)) + (is - was)
    BY <1>0, ProcessChanges
  <2> DEFINE before == Sum(Server, InProcess(p))  after == Sum(Server, InProcess(p))'
  <2>5. before \in Int /\ after \in Int /\ after = before + (is - was)
    BY <2>4
  <2>6. table[p] + before + lost[p] = counted[p] + again[p]
    BY <2>1
  <2> SUFFICES table'[p] + after + lost'[p] = counted'[p] + again'[p]
    OBVIOUS
  <2> HIDE DEF was, is, before, after
  <2> QED
    BY <1>1, <2>2, <2>3, <2>5, <2>6
<1>3. ASSUME NEW p \in Path, failures' = 0, ~aborted'
      PROVE  lost'[p] + Sum(Server, TooLate(p))' <= late'[p]
  <2>1. lost[p] + Sum(Server, TooLate(p)) <= late[p]
    BY <1>3 DEF CountersInv, LateIsLost
  <2> DEFINE was == IF worker[n] \in {"last", "done"} THEN memory[n][p] ELSE 0
             is == IF worker'[n] \in {"last", "done"} THEN memory'[n][p] ELSE 0
  <2>2. was \in Nat /\ is \in Nat
    BY <1>1
  <2>3. lost'[p] + is + late[p] <= lost[p] + was + late'[p]
    BY <1>3
  <2>4. /\ Sum(Server, TooLate(p)) \in Int /\ Sum(Server, TooLate(p))' \in Int
        /\ Sum(Server, TooLate(p))' = Sum(Server, TooLate(p)) + (is - was)
    BY <1>0, ProcessChanges
  <2> HIDE DEF was, is
  <2> QED
    BY <1>1, <2>1, <2>2, <2>3, <2>4
<1>4. Conserved'
  BY <1>2 DEF Conserved
<1>5. LateIsLost'
  BY <1>3 DEF LateIsLost
<1> QED
  BY <1>4, <1>5 DEF CountersInv

LEMMA TooLateIsNatural ==
    ASSUME A!CounterConstants, CountersTyped, NEW p \in Path
    PROVE  Sum(Server, TooLate(p)) \in Nat
<1> DEFINE w == TooLate(p)
           Q == {V \in SUBSET Server : Sum(V, w) \in Nat}
<1>0. IsFiniteSet(Server) /\ \A n \in Server : w[n] \in Nat
  BY DEF A!CounterConstants, A!IsFiniteSet, IsFiniteSet, CountersTyped, Counts, TooLate
<1> HIDE DEF w
<1>1. {} \in Q
  BY SumOfNone
<1>2. ASSUME NEW V \in SUBSET Server, V # {}, \A n \in V : V \ {n} \in Q
      PROVE  V \in Q
  <2>1. Any(V) \in V /\ IsFiniteSet(V)
    BY <1>0, <1>2, AnyOf, FS_Subset
  <2>2. Sum(V, w) = w[Any(V)] + Sum(V \ {Any(V)}, w)
    BY <1>2, <2>1, SumOfAny
  <2> QED BY <1>0, <1>2, <2>1, <2>2
<1>3. \A V \in SUBSET Server : V \in Q
  <2>1. \A V \in SUBSET Server : V # {} /\ (\A x \in V : V \ {x} \in Q) => V \in Q
    BY <1>2
  <2> HIDE DEF Q
  <2> QED BY <1>0, <1>1, <2>1, SubsetsReached
<1> QED
  BY <1>3 DEF w

LEMMA ProcessesRest ==
    ASSUME UNCHANGED <<memory, taken, worker>>
    PROVE  /\ \A p \in Path : Sum(Server, InProcess(p))' = Sum(Server, InProcess(p))
           /\ \A p \in Path : Sum(Server, TooLate(p))' = Sum(Server, TooLate(p))
<1> SUFFICES ASSUME NEW p \in Path
             PROVE  /\ Sum(Server, InProcess(p))' = Sum(Server, InProcess(p))
                    /\ Sum(Server, TooLate(p))' = Sum(Server, TooLate(p))
  OBVIOUS
<1>1. InProcess(p)' = InProcess(p) /\ TooLate(p)' = TooLate(p)
  BY DEF InProcess, TooLate
<1>2. /\ Sum(Server, InProcess(p))' = Sum(Server, InProcess(p)')
      /\ Sum(Server, TooLate(p))' = Sum(Server, TooLate(p)')
  BY DEF Sum, IsSum
<1> QED
  BY <1>1, <1>2

LEMMA CountStep ==
    ASSUME A!CounterConstants, CountersInv, NEW n \in Server, NEW p \in Path, A!Count(n, p)
    PROVE  CountersInv'
<1>0. CountersTyped /\ FlushSound /\ EndsSound
  BY DEF CountersInv
<1>1. /\ server[n] # "down"
      /\ memory' = [memory EXCEPT ![n][p] = @ + 1]
      /\ counted' = [counted EXCEPT ![p] = @ + 1]
      /\ late' = IF server[n] = "up" THEN late ELSE [late EXCEPT ![p] = @ + 1]
      /\ UNCHANGED <<taken, todo, worker, server, table, lock, again, lost, aborted, failures>>
  BY DEF A!Count
<1>2. CountersTyped'
  BY <1>0, <1>1 DEF CountersTyped, Counts
<1>3. FlushSound'
  BY <1>0, <1>1 DEF FlushSound, A!Flushing
<1>4. EndsSound'
  BY <1>0, <1>1 DEF EndsSound
<1>5. \A m \in Server \ {n} : memory'[m] = memory[m] /\ taken'[m] = taken[m] /\ worker'[m] = worker[m]
  BY <1>0, <1>1 DEF CountersTyped
<1>6. ASSUME NEW q \in Path
      PROVE  /\ table[q] \in Nat /\ lost[q] \in Nat /\ counted[q] \in Nat /\ again[q] \in Nat
             /\ late[q] \in Nat /\ memory[n][q] \in Nat /\ taken[n][q] \in Nat
             /\ memory'[n][q] = memory[n][q] + (IF q = p THEN 1 ELSE 0)
             /\ counted'[q] = counted[q] + (IF q = p THEN 1 ELSE 0)
             /\ late'[q] = late[q] + (IF q = p /\ server[n] # "up" THEN 1 ELSE 0)
  BY <1>0, <1>1 DEF CountersTyped, Counts
<1>7. \A q \in Path :
        table'[q] + (memory'[n][q] + taken'[n][q]) + lost'[q] + counted[q] + again[q]
          = table[q] + (memory[n][q] + taken[n][q]) + lost[q] + counted'[q] + again'[q]
  BY <1>1, <1>6
<1>8. worker[n] \in {"last", "done"} => server[n] # "up"
  BY <1>0 DEF EndsSound
<1>9. \A q \in Path :
        lost'[q] + (IF worker'[n] \in {"last", "done"} THEN memory'[n][q] ELSE 0) + late[q]
          <= lost[q] + (IF worker[n] \in {"last", "done"} THEN memory[n][q] ELSE 0) + late'[q]
  BY <1>1, <1>6, <1>8
<1> QED
  BY <1>1, <1>2, <1>3, <1>4, <1>5, <1>7, <1>9, CountersStep

LEMMA TakeStep ==
    ASSUME A!CounterConstants, CountersInv, NEW n \in Server, A!Take(n)
    PROVE  CountersInv'
<1>0. CountersTyped /\ FlushSound /\ EndsSound
  BY DEF CountersInv
<1>1. /\ worker[n] = "wait"
      /\ worker' = [worker EXCEPT ![n] = IF server[n] = "up" THEN "flush" ELSE "last"]
      /\ UNCHANGED <<server, table, lock, counted, again, lost, late, aborted, failures>>
  BY DEF A!Take, A!Woken
<1>2. worker'[n] = (IF server[n] = "up" THEN "flush" ELSE "last")
  BY <1>0, <1>1 DEF CountersTyped
<1>3. /\ taken' = [taken EXCEPT ![n] = memory[n]]
      /\ memory' = [memory EXCEPT ![n] = A!Empty]
      /\ todo' = [todo EXCEPT ![n] = A!Written(n)]
  BY <1>2 DEF A!Take
<1>4. A!Empty \in Counts /\ A!Written(n) \in SUBSET Path
  BY DEF A!Empty, A!Written, Counts
<1>5. CountersTyped'
  BY <1>0, <1>1, <1>3, <1>4 DEF CountersTyped
<1>6. \A m \in Server \ {n} : /\ memory'[m] = memory[m] /\ taken'[m] = taken[m]
                              /\ worker'[m] = worker[m] /\ todo'[m] = todo[m]
  BY <1>0, <1>1, <1>3 DEF CountersTyped
<1>7. taken[n] = A!Empty /\ taken'[n] = memory[n] /\ memory'[n] = A!Empty /\ todo'[n] = A!Written(n)
  BY <1>0, <1>1, <1>3 DEF CountersTyped, FlushSound, A!Flushing
<1>8. \A p \in Path : lock[p] # A!NoNode => lock[p] # n
  <2>1. \A p \in Path : A!Empty[p] = 0
    BY DEF A!Empty
  <2>2. \A p \in Path : lock[p] # A!NoNode => taken[lock[p]][p] > 0
    BY <1>0 DEF FlushSound
  <2> QED BY <1>7, <2>1, <2>2
<1>9. FlushSound'
  <2>1. \A m \in Server : A!Flushing(m)' <=> worker'[m] \in {"flush", "last"}
    BY DEF A!Flushing
  <2>2. \A m \in Server : A!Flushing(m) <=> worker[m] \in {"flush", "last"}
    BY DEF A!Flushing
  <2>3. A!Empty' = A!Empty
    BY DEF A!Empty
  <2>4. \A p \in todo'[n] : taken'[n][p] > 0
    BY <1>7 DEF A!Written
  <2> QED BY <1>0, <1>1, <1>2, <1>6, <1>8, <2>1, <2>2, <2>3, <2>4 DEF FlushSound, CountersTyped
<1>10. EndsSound'
  BY <1>0, <1>1, <1>2, <1>6 DEF EndsSound, CountersTyped
<1>11. \A q \in Path : /\ table[q] \in Nat /\ lost[q] \in Nat /\ counted[q] \in Nat /\ again[q] \in Nat
                       /\ late[q] \in Nat /\ memory[n][q] \in Nat
                       /\ memory'[n][q] = 0 /\ taken[n][q] = 0 /\ taken'[n][q] = memory[n][q]
  BY <1>0, <1>7 DEF CountersTyped, Counts, A!Empty
<1> QED
  BY <1>1, <1>5, <1>6, <1>9, <1>10, <1>11, CountersStep

LEMMA UpsertStep ==
    ASSUME A!CounterConstants, CountersInv, NEW n \in Server, NEW p \in Path, A!Upsert(n, p)
    PROVE  CountersInv'
<1>0. CountersTyped /\ FlushSound /\ EndsSound
  BY DEF CountersInv
<1>1. /\ p \in todo[n] /\ lock[p] = A!NoNode
      /\ lock' = [lock EXCEPT ![p] = n] /\ todo' = [todo EXCEPT ![n] = @ \ {p}]
      /\ UNCHANGED <<memory, taken, worker, server, table, counted, again, lost, late, aborted,
                     failures>>
  BY DEF A!Upsert
<1>2. CountersTyped'
  BY <1>0, <1>1 DEF CountersTyped
<1>3. /\ \A m \in Server : todo'[m] \subseteq todo[m]
      /\ p \notin todo'[n]
      /\ lock'[p] = n /\ \A q \in Path \ {p} : lock'[q] = lock[q]
  BY <1>0, <1>1 DEF CountersTyped
<1>4. FlushSound'
  <2>1. taken[n][p] > 0
    BY <1>0, <1>1 DEF FlushSound
  <2>2. \A m \in Server : ~A!Flushing(m)' => taken'[m] = A!Empty'
    BY <1>0, <1>1 DEF FlushSound, A!Flushing, A!Empty
  <2>3. \A m \in Server : \A q \in todo'[m] : taken'[m][q] > 0
    BY <1>0, <1>1, <1>3 DEF FlushSound
  <2>4. \A q \in Path : lock'[q] # A!NoNode => q \notin todo'[lock'[q]] /\ taken'[lock'[q]][q] > 0
    <3> TAKE q \in Path
    <3>1. CASE q = p
      BY <3>1, <1>1, <1>3, <2>1
    <3>2. CASE q # p
      <4>1. lock[q] # A!NoNode => lock[q] \in Server
        BY <1>0 DEF CountersTyped
      <4> QED
        BY <3>2, <4>1, <1>0, <1>1, <1>3 DEF FlushSound
    <3> QED BY <3>1, <3>2
  <2>5. A!NoNode' = A!NoNode
    BY DEF A!NoNode
  <2> QED BY <2>2, <2>3, <2>4, <2>5 DEF FlushSound
<1>5. EndsSound'
  BY <1>0, <1>1 DEF EndsSound
<1>6. Conserved' /\ LateIsLost'
  BY <1>1, ProcessesRest DEF CountersInv, Conserved, LateIsLost
<1> QED
  BY <1>2, <1>4, <1>5, <1>6 DEF CountersInv

\* A transaction that ends, either way, leaves neither batch nor locks.
LEMMA FlushEnds ==
    ASSUME CountersInv, NEW n \in Server, CountersTyped',
           taken' = [taken EXCEPT ![n] = A!Empty], todo'[n] = {},
           \A m \in Server \ {n} : todo'[m] = todo[m] /\ worker'[m] = worker[m],
           lock' = A!Unlocked(n)
    PROVE  FlushSound'
<1>0. CountersTyped /\ FlushSound
  BY DEF CountersInv
<1>1. /\ taken'[n] = A!Empty /\ \A m \in Server \ {n} : taken'[m] = taken[m]
  BY <1>0 DEF CountersTyped
<1>2. \A m \in Server : ~A!Flushing(m)' => taken'[m] = A!Empty'
  BY <1>0, <1>1 DEF FlushSound, A!Flushing, A!Empty
<1>3. \A m \in Server : \A q \in todo'[m] : taken'[m][q] > 0
  BY <1>0, <1>1 DEF FlushSound
<1>4. \A q \in Path : lock'[q] # A!NoNode => q \notin todo'[lock'[q]] /\ taken'[lock'[q]][q] > 0
  <2> SUFFICES ASSUME NEW q \in Path, lock'[q] # A!NoNode
               PROVE  q \notin todo'[lock'[q]] /\ taken'[lock'[q]][q] > 0
    OBVIOUS
  <2>1. lock'[q] = lock[q] /\ lock[q] # n
    BY DEF A!Unlocked
  <2>2. lock[q] \in Server \ {n}
    BY <1>0, <2>1 DEF CountersTyped
  <2> QED
    BY <1>0, <1>1, <2>1, <2>2 DEF FlushSound
<1>5. A!NoNode' = A!NoNode
  BY DEF A!NoNode
<1> QED BY <1>2, <1>3, <1>4, <1>5 DEF FlushSound

LEMMA UnlockedType ==
    ASSUME CountersTyped, NEW n \in Server
    PROVE  A!Unlocked(n) \in [Path -> Server \cup {A!NoNode}]
  BY DEF CountersTyped, A!Unlocked

LEMMA PlusType ==
    ASSUME NEW f \in Counts, NEW g \in Counts
    PROVE  /\ A!Plus(f, g) \in Counts
           /\ \A p \in Path : A!Plus(f, g)[p] = f[p] + g[p] /\ f[p] \in Nat /\ g[p] \in Nat
  BY DEF Counts, A!Plus

LEMMA EmptyType == A!Empty \in Counts /\ \A p \in Path : A!Empty[p] = 0
  BY DEF Counts, A!Empty

LEMMA CommitStep ==
    ASSUME A!CounterConstants, CountersInv, NEW n \in Server, A!Commit(n)
    PROVE  CountersInv'
<1>0. CountersTyped /\ FlushSound /\ EndsSound
  BY DEF CountersInv
<1>1. /\ worker[n] \in {"flush", "last"} /\ todo[n] = {}
      /\ table' = A!Plus(table, taken[n])
      /\ taken' = [taken EXCEPT ![n] = A!Empty]
      /\ lock' = A!Unlocked(n)
      /\ worker' = [worker EXCEPT ![n] = IF @ = "last" THEN "done" ELSE "wait"]
      /\ UNCHANGED <<memory, todo, server, counted, again, lost, late, aborted, failures>>
  BY DEF A!Commit, A!Flushing, A!AfterFlush
<1>2. CountersTyped'
  <2>1. table' \in Counts
    BY <1>0, <1>1, PlusType DEF CountersTyped
  <2>2. taken' \in [Server -> Counts]
    BY <1>0, <1>1, EmptyType DEF CountersTyped
  <2>3. lock' \in [Path -> Server \cup {A!NoNode'}]
    BY <1>0, <1>1, UnlockedType DEF A!NoNode
  <2>4. worker' \in [Server -> {"wait", "flush", "last", "done", "dead"}]
    BY <1>0, <1>1 DEF CountersTyped
  <2> QED BY <1>0, <1>1, <2>1, <2>2, <2>3, <2>4 DEF CountersTyped
<1>3. /\ worker'[n] = (IF worker[n] = "last" THEN "done" ELSE "wait")
      /\ \A m \in Server \ {n} : memory'[m] = memory[m] /\ taken'[m] = taken[m] /\ worker'[m] = worker[m]
      /\ taken'[n] = A!Empty /\ memory'[n] = memory[n]
  BY <1>0, <1>1 DEF CountersTyped
<1>4. FlushSound'
  BY <1>1, <1>2, <1>3, FlushEnds
<1>5. EndsSound'
  BY <1>0, <1>1, <1>3 DEF EndsSound
<1>6. \A q \in Path : /\ table'[q] = table[q] + taken[n][q] /\ taken'[n][q] = 0
                      /\ table[q] \in Nat /\ taken[n][q] \in Nat /\ memory[n][q] \in Nat
                      /\ lost[q] \in Nat /\ counted[q] \in Nat /\ again[q] \in Nat /\ late[q] \in Nat
  <2>1. /\ table \in Counts /\ taken[n] \in Counts /\ memory[n] \in Counts /\ lost \in Counts
        /\ counted \in Counts /\ again \in Counts /\ late \in Counts
    BY <1>0 DEF CountersTyped
  <2>2. \A q \in Path : table'[q] = table[q] + taken[n][q] /\ taken'[n][q] = 0
    BY <1>1, <1>3, <2>1, PlusType, EmptyType
  <2> QED
    BY <2>1, <2>2 DEF Counts
<1> QED
  BY <1>1, <1>2, <1>3, <1>4, <1>5, <1>6, CountersStep

\* A batch that is given back, whether its transaction was applied or not.
LEMMA GiveBackStep ==
    ASSUME A!CounterConstants, CountersInv, NEW n \in Server, NEW applied \in BOOLEAN,
           A!Flushing(n), A!GiveBack(n),
           table' = IF applied THEN A!Plus(table, taken[n]) ELSE table,
           again' = IF applied THEN A!Plus(again, taken[n]) ELSE again,
           failures' \in Nat, failures' = 0 => failures = 0,
           aborted' \in BOOLEAN, ~aborted' => ~aborted,
           failures' = 0 /\ ~aborted' => worker[n] = "flush"
    PROVE  CountersInv'
<1>0. CountersTyped /\ FlushSound /\ EndsSound
  BY DEF CountersInv
<1>1. /\ worker[n] \in {"flush", "last"}
      /\ memory' = [memory EXCEPT ![n] = A!Plus(@, taken[n])]
      /\ taken' = [taken EXCEPT ![n] = A!Empty]
      /\ todo' = [todo EXCEPT ![n] = {}]
      /\ lock' = A!Unlocked(n)
      /\ worker' = [worker EXCEPT ![n] = IF @ = "last" THEN "done" ELSE "wait"]
      /\ UNCHANGED <<server, counted, lost, late>>
  BY DEF A!GiveBack, A!Restore, A!Flushing, A!AfterFlush
<1>2. memory[n] \in Counts /\ taken[n] \in Counts /\ table \in Counts /\ again \in Counts
  BY <1>0 DEF CountersTyped
<1>3. CountersTyped'
  <2>1. table' \in Counts /\ again' \in Counts
    BY <1>2, PlusType
  <2>2. taken' \in [Server -> Counts] /\ memory' \in [Server -> Counts]
    BY <1>0, <1>1, <1>2, EmptyType, PlusType DEF CountersTyped
  <2>3. lock' \in [Path -> Server \cup {A!NoNode'}]
    BY <1>0, <1>1, UnlockedType DEF A!NoNode
  <2>4. /\ worker' \in [Server -> {"wait", "flush", "last", "done", "dead"}]
        /\ todo' \in [Server -> SUBSET Path]
    BY <1>0, <1>1 DEF CountersTyped
  <2> QED BY <1>0, <1>1, <2>1, <2>2, <2>3, <2>4 DEF CountersTyped
<1>4. /\ worker'[n] = (IF worker[n] = "last" THEN "done" ELSE "wait")
      /\ \A m \in Server \ {n} : /\ memory'[m] = memory[m] /\ taken'[m] = taken[m]
                                 /\ worker'[m] = worker[m] /\ todo'[m] = todo[m]
      /\ taken'[n] = A!Empty /\ memory'[n] = A!Plus(memory[n], taken[n]) /\ todo'[n] = {}
  BY <1>0, <1>1 DEF CountersTyped
<1>5. FlushSound'
  BY <1>1, <1>3, <1>4, FlushEnds
<1>6. EndsSound'
  BY <1>0, <1>1, <1>4 DEF EndsSound
<1>7. \A q \in Path : /\ table'[q] + again[q] = again'[q] + table[q]
                      /\ table'[q] \in Nat /\ again'[q] \in Nat
                      /\ taken'[n][q] = 0 /\ memory'[n][q] = memory[n][q] + taken[n][q]
                      /\ table[q] \in Nat /\ taken[n][q] \in Nat /\ memory[n][q] \in Nat
                      /\ lost[q] \in Nat /\ counted[q] \in Nat /\ again[q] \in Nat /\ late[q] \in Nat
  <2>1. \A q \in Path : table'[q] + again[q] = again'[q] + table[q]
    <3>1. CASE applied
      BY <3>1, <1>2, PlusType
    <3>2. CASE ~applied
      BY <3>2, <1>2, PlusType
    <3> QED BY <3>1, <3>2
  <2>2. \A q \in Path : taken'[n][q] = 0 /\ memory'[n][q] = memory[n][q] + taken[n][q]
    BY <1>2, <1>4, PlusType, EmptyType
  <2> QED
    BY <1>0, <1>2, <1>3, <2>1, <2>2 DEF CountersTyped, Counts
<1>8. \A q \in Path :
        table'[q] + (memory'[n][q] + taken'[n][q]) + lost'[q] + counted[q] + again[q]
          = table[q] + (memory[n][q] + taken[n][q]) + lost[q] + counted'[q] + again'[q]
  BY <1>1, <1>7
<1>9. failures' = 0 /\ ~aborted' =>
        /\ failures = 0 /\ ~aborted
        /\ \A q \in Path :
             lost'[q] + (IF worker'[n] \in {"last", "done"} THEN memory'[n][q] ELSE 0) + late[q]
               <= lost[q] + (IF worker[n] \in {"last", "done"} THEN memory[n][q] ELSE 0) + late'[q]
  BY <1>1, <1>4, <1>7
<1> QED
  BY <1>3, <1>4, <1>5, <1>6, <1>8, <1>9, CountersStep

LEMMA FailStep ==
    ASSUME A!CounterConstants, CountersInv, NEW n \in Server, NEW applied \in BOOLEAN,
           A!Fail(n, applied)
    PROVE  CountersInv'
<1>1. failures \in Nat /\ aborted \in BOOLEAN
  BY DEF CountersInv, CountersTyped
<1>2. failures' = failures + 1 /\ aborted' = aborted
  BY DEF A!Fail
<1> QED
  BY <1>1, <1>2, GiveBackStep DEF A!Fail

LEMMA DeadlockedStep ==
    ASSUME A!CounterConstants, CountersInv, NEW n \in Server, A!Deadlocked(n)
    PROVE  CountersInv'
<1>1. failures \in Nat /\ aborted \in BOOLEAN
  BY DEF CountersInv, CountersTyped
<1>2. aborted' = (aborted \/ worker[n] = "last") /\ UNCHANGED <<table, again, failures>>
  BY DEF A!Deadlocked
<1>3. A!Flushing(n)
  <2>1. PICK p \in todo[n] : TRUE
    BY DEF A!Deadlocked
  <2>2. p \in Path /\ taken[n][p] > 0
    BY DEF CountersInv, CountersTyped, FlushSound
  <2>3. A!Empty[p] = 0
    BY <2>2, EmptyType
  <2> QED
    BY <2>2, <2>3 DEF CountersInv, FlushSound
<1>4. ~aborted' => worker[n] = "flush"
  BY <1>2, <1>3 DEF A!Flushing
<1> QED
  BY <1>1, <1>2, <1>3, <1>4, GiveBackStep DEF A!Deadlocked

LEMMA SignalStep ==
    ASSUME A!CounterConstants, CountersInv, NEW n \in Server, A!Signal(n)
    PROVE  CountersInv'
<1>0. CountersTyped /\ FlushSound /\ EndsSound
  BY DEF CountersInv
<1>1. /\ server[n] = "up" /\ server' = [server EXCEPT ![n] = "draining"]
      /\ UNCHANGED <<memory, taken, todo, worker, table, lock, counted, again, lost, late, aborted,
                     failures>>
  BY DEF A!Signal
<1>2. CountersTyped'
  BY <1>0, <1>1 DEF CountersTyped
<1>3. FlushSound'
  BY <1>0, <1>1 DEF FlushSound, A!Flushing, A!Empty, A!NoNode
<1>4. EndsSound'
  BY <1>0, <1>1 DEF EndsSound, CountersTyped
<1>5. Conserved' /\ LateIsLost'
  BY <1>1, ProcessesRest DEF CountersInv, Conserved, LateIsLost
<1> QED
  BY <1>2, <1>3, <1>4, <1>5 DEF CountersInv

LEMMA ExitStep ==
    ASSUME A!CounterConstants, CountersInv, NEW n \in Server, NEW applied \in BOOLEAN,
           A!Exit(n, applied)
    PROVE  CountersInv'
<1>0. CountersTyped /\ FlushSound /\ EndsSound
  BY DEF CountersInv
<1>1. /\ server[n] = "draining"
      /\ applied => A!Flushing(n)
      /\ aborted' = (aborted \/ worker[n] # "done")
      /\ server' = [server EXCEPT ![n] = "down"]
      /\ worker' = [worker EXCEPT ![n] = "dead"]
      /\ table' = IF applied THEN A!Plus(table, taken[n]) ELSE table
      /\ lost' = A!Plus(lost, A!Plus(memory[n], IF applied THEN A!Empty ELSE taken[n]))
      /\ memory' = [memory EXCEPT ![n] = A!Empty] /\ taken' = [taken EXCEPT ![n] = A!Empty]
      /\ todo' = [todo EXCEPT ![n] = {}]
      /\ lock' = A!Unlocked(n)
      /\ UNCHANGED <<counted, again, late, failures>>
  BY DEF A!Exit
<1>2. /\ memory[n] \in Counts /\ taken[n] \in Counts /\ table \in Counts /\ lost \in Counts
      /\ again \in Counts /\ late \in Counts /\ counted \in Counts
  BY <1>0 DEF CountersTyped
<1> DEFINE gone == IF applied THEN A!Empty ELSE taken[n]
<1>3. gone \in Counts /\ A!Plus(memory[n], gone) \in Counts
  BY <1>2, EmptyType, PlusType
<1>4. CountersTyped'
  <2>1. table' \in Counts /\ lost' \in Counts
    <3> HIDE DEF gone
    <3>1. lost' = A!Plus(lost, A!Plus(memory[n], gone))
      BY <1>1 DEF gone
    <3> QED BY <1>1, <1>2, <1>3, <3>1, PlusType
  <2>2. taken' \in [Server -> Counts] /\ memory' \in [Server -> Counts]
    BY <1>0, <1>1, EmptyType DEF CountersTyped
  <2>3. lock' \in [Path -> Server \cup {A!NoNode'}]
    BY <1>0, <1>1, UnlockedType DEF A!NoNode
  <2>4. /\ worker' \in [Server -> {"wait", "flush", "last", "done", "dead"}]
        /\ server' \in [Server -> {"up", "draining", "down"}]
        /\ todo' \in [Server -> SUBSET Path] /\ aborted' \in BOOLEAN
    BY <1>0, <1>1 DEF CountersTyped
  <2> QED BY <1>0, <1>1, <2>1, <2>2, <2>3, <2>4 DEF CountersTyped
<1>5. /\ worker'[n] = "dead" /\ server'[n] = "down"
      /\ \A m \in Server \ {n} : /\ memory'[m] = memory[m] /\ taken'[m] = taken[m]
                                 /\ worker'[m] = worker[m] /\ todo'[m] = todo[m]
                                 /\ server'[m] = server[m]
      /\ taken'[n] = A!Empty /\ memory'[n] = A!Empty /\ todo'[n] = {}
  BY <1>0, <1>1 DEF CountersTyped
<1>6. FlushSound'
  BY <1>1, <1>4, <1>5, FlushEnds
<1>7. EndsSound'
  BY <1>0, <1>1, <1>5 DEF EndsSound
<1>8. \A q \in Path : /\ taken'[n][q] = 0 /\ memory'[n][q] = 0
                      /\ lost'[q] = lost[q] + (memory[n][q] + gone[q])
                      /\ table'[q] + gone[q] = table[q] + taken[n][q]
                      /\ table'[q] \in Nat /\ gone[q] \in Nat
                      /\ table[q] \in Nat /\ taken[n][q] \in Nat /\ memory[n][q] \in Nat
                      /\ lost[q] \in Nat /\ counted[q] \in Nat /\ again[q] \in Nat /\ late[q] \in Nat
  <2>1. \A q \in Path : table'[q] + gone[q] = table[q] + taken[n][q]
    <3>1. CASE applied
      BY <3>1, <1>1, <1>2, PlusType, EmptyType
    <3>2. CASE ~applied
      BY <3>2, <1>1, <1>2, PlusType
    <3> QED BY <3>1, <3>2
  <2>2. \A q \in Path : gone[q] \in Nat /\ table'[q] \in Nat
    <3> HIDE DEF gone
    <3> QED BY <1>3, <1>4 DEF CountersTyped, Counts
  <2>3. \A q \in Path : lost'[q] = lost[q] + (memory[n][q] + gone[q])
    <3>1. lost' = A!Plus(lost, A!Plus(memory[n], gone))
      BY <1>1
    <3> HIDE DEF gone
    <3>2. \A q \in Path : A!Plus(memory[n], gone)[q] = memory[n][q] + gone[q]
      BY <1>2, <1>3, PlusType
    <3> QED BY <1>2, <1>3, <3>1, <3>2, PlusType
  <2>4. \A q \in Path : taken'[n][q] = 0 /\ memory'[n][q] = 0
    BY <1>5, EmptyType
  <2> HIDE DEF gone
  <2> QED
    BY <1>2, <2>1, <2>2, <2>3, <2>4 DEF Counts
<1>9. \A q \in Path :
        table'[q] + (memory'[n][q] + taken'[n][q]) + lost'[q] + counted[q] + again[q]
          = table[q] + (memory[n][q] + taken[n][q]) + lost[q] + counted'[q] + again'[q]
  <2> HIDE DEF gone
  <2> QED BY <1>1, <1>8
<1>10. ASSUME failures' = 0 /\ ~aborted'
       PROVE  /\ failures = 0 /\ ~aborted
              /\ \A q \in Path :
                   lost'[q] + (IF worker'[n] \in {"last", "done"} THEN memory'[n][q] ELSE 0) + late[q]
                     <= lost[q] + (IF worker[n] \in {"last", "done"} THEN memory[n][q] ELSE 0) + late'[q]
  <2>1. worker[n] = "done" /\ ~applied /\ failures = 0 /\ ~aborted
    BY <1>1, <1>10 DEF A!Flushing
  <2>2. taken[n] = A!Empty
    BY <1>0, <2>1 DEF FlushSound, A!Flushing
  <2>3. \A q \in Path : gone[q] = 0
    BY <2>1, <2>2, EmptyType
  <2> HIDE DEF gone
  <2> QED BY <1>1, <1>5, <1>8, <2>1, <2>3
<1> QED
  BY <1>4, <1>5, <1>6, <1>7, <1>9, <1>10, CountersStep

LEMMA CountersStart ==
    ASSUME A!CounterConstants, A!Init
    PROVE  CountersInv
<1>0. IsFiniteSet(Server)
  BY DEF A!CounterConstants, A!IsFiniteSet, IsFiniteSet
<1>1. CountersTyped /\ FlushSound /\ EndsSound
  BY EmptyType DEF A!Init, CountersTyped, FlushSound, EndsSound, A!Flushing
<1>2. ASSUME NEW w, \A n \in Server : w[n] = 0
      PROVE  Sum(Server, w) = 0
  <2> DEFINE Q == {V \in SUBSET Server : Sum(V, w) = 0}
  <2>1. {} \in Q
    BY SumOfNone
  <2>2. ASSUME NEW V \in SUBSET Server, V # {}, \A n \in V : V \ {n} \in Q
        PROVE  V \in Q
    <3>1. Any(V) \in V /\ IsFiniteSet(V)
      BY <1>0, <2>2, AnyOf, FS_Subset
    <3>2. Sum(V, w) = w[Any(V)] + Sum(V \ {Any(V)}, w)
      BY <2>2, <3>1, SumOfAny
    <3> QED BY <1>2, <2>2, <3>1, <3>2
  <2>3. \A V \in SUBSET Server : V \in Q
    <3>1. \A V \in SUBSET Server : V # {} /\ (\A x \in V : V \ {x} \in Q) => V \in Q
      BY <2>2
    <3> HIDE DEF Q
    <3> QED BY <1>0, <2>1, <3>1, SubsetsReached
  <2> QED BY <2>3
<1>3. ASSUME NEW p \in Path
      PROVE  Sum(Server, InProcess(p)) = 0 /\ Sum(Server, TooLate(p)) = 0
  <2>1. \A n \in Server : InProcess(p)[n] = 0 /\ TooLate(p)[n] = 0
    BY EmptyType DEF A!Init, InProcess, TooLate
  <2> QED BY <1>2, <2>1
<1>4. \A p \in Path : table[p] = 0 /\ lost[p] = 0 /\ counted[p] = 0 /\ again[p] = 0 /\ late[p] = 0
  BY EmptyType DEF A!Init
<1> QED
  BY <1>1, <1>3, <1>4 DEF CountersInv, Conserved, LateIsLost

\* Every count of an advertisement is in the table, in memory, in a batch or went
\* down with its process, and a shutdown loses only late ones but for failures and
\* aborted workers (vCount, mapTake, vRestore and the flush, adv_counter.rs).
THEOREM CountsStayAccounted ==
    ASSUME A!CounterConstants
    PROVE  A!Spec => []CountsAreAccounted
<1>1. A!Init => CountersInv
  BY CountersStart
<1>2. CountersInv /\ [A!Next]_avars => CountersInv'
  <2> SUFFICES ASSUME CountersInv, [A!Next]_avars PROVE CountersInv'
    OBVIOUS
  <2>1. CASE UNCHANGED avars
    <3>1. CountersTyped' /\ FlushSound' /\ EndsSound'
      BY <2>1 DEF avars, CountersInv, CountersTyped, FlushSound, EndsSound, A!Flushing, A!Empty,
                  A!NoNode
    <3>2. Conserved' /\ LateIsLost'
      BY <2>1, ProcessesRest DEF avars, CountersInv, Conserved, LateIsLost
    <3> QED BY <3>1, <3>2 DEF CountersInv
  <2>2. CASE A!Next
    <3>1. PICK n \in Server :
             \/ \E p \in Path : A!Count(n, p) \/ A!Upsert(n, p)
             \/ A!Take(n) \/ A!Commit(n) \/ A!Deadlocked(n) \/ A!Signal(n)
             \/ \E applied \in BOOLEAN : A!Fail(n, applied) \/ A!Exit(n, applied)
      BY <2>2 DEF A!Next
    <3> QED
      BY <3>1, CountStep, UpsertStep, TakeStep, CommitStep, DeadlockedStep, SignalStep, FailStep,
         ExitStep
  <2> QED BY <2>1, <2>2
<1>3. CountersInv => CountsAreAccounted
  <2> SUFFICES ASSUME CountersInv PROVE CountsAreAccounted
    OBVIOUS
  <2>0. CountersTyped /\ FlushSound /\ EndsSound
    BY DEF CountersInv
  <2>1. A!CountersTypeOK
    <3>1. memory \in [Server -> [Path -> Nat]] /\ taken \in [Server -> [Path -> Nat]]
          /\ table \in [Path -> Nat] /\ counted \in [Path -> Nat]
      BY <2>0 DEF CountersTyped, Counts
    <3>2. ASSUME NEW p \in Path, lock[p] # A!NoNode
          PROVE  /\ lock[p] \in Server /\ A!Flushing(lock[p])
                 /\ p \notin todo[lock[p]] /\ taken[lock[p]][p] > 0
      <4>1. lock[p] \in Server /\ p \notin todo[lock[p]] /\ taken[lock[p]][p] > 0
        BY <2>0, <3>2 DEF CountersTyped, FlushSound
      <4>2. A!Empty[p] = 0
        BY EmptyType
      <4> QED BY <2>0, <4>1, <4>2 DEF FlushSound
    <3> QED BY <2>0, <3>1, <3>2 DEF A!CountersTypeOK, FlushSound
  <2>2. A!CountsAreConserved
    BY InMemoryIsSum DEF CountersInv, Conserved, A!CountsAreConserved
  <2>3. A!OnlyLateCountsAreLost
    <3> SUFFICES ASSUME failures = 0, ~aborted, NEW p \in Path PROVE lost[p] <= late[p]
      BY DEF A!OnlyLateCountsAreLost
    <3>1. lost[p] + Sum(Server, TooLate(p)) <= late[p]
      BY DEF CountersInv, LateIsLost
    <3>2. lost[p] \in Nat /\ late[p] \in Nat
      BY <2>0 DEF CountersTyped, Counts
    <3>3. Sum(Server, TooLate(p)) \in Int /\ Sum(Server, TooLate(p)) >= 0
      BY <2>0, TooLateIsNatural
    <3> QED BY <3>1, <3>2, <3>3
  <2> QED
    BY <2>1, <2>2, <2>3 DEF CountsAreAccounted, A!CountsAreAccounted
<1>4. A!Spec => A!Init /\ [][A!Next]_avars
  BY DEF A!Spec, A!vars, avars
<1> QED
  BY <1>1, <1>2, <1>3, <1>4, PTL
=============================================================================
